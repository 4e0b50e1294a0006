------------------------------ MODULE PipelineProofs -----------------------------
(*****************************************************************************)
(* Theorems about GraphConfig.tla and Pipeline.tla: what graph_config_load() *)
(* accepts, whatever the file says, and what pipeline_run() can then rely on *)
(* without a check of its own.                                               *)
(*                                                                           *)
(* The argument about the load has three parts.  While the edges are read,   *)
(* in_degree says whether a node is the target of no edge, of one or of more *)
(* (Wires).  The check before the breadth-first pass makes that a tree seen  *)
(* from the children: every node but the root has one incoming edge          *)
(* (OneParent).  The pass turns it round: each queue entry but the first is  *)
(* the target of an earlier one (QueueFrom), and a pass that has taken as    *)
(* many entries as there are nodes has taken them all.                       *)
(*****************************************************************************)
EXTENDS Pipeline, FiniteSetTheorems, SequenceTheorems, WellFoundedInduction, TLAPS

\* A node's outgoing wires: its ports, and the invalid edge.
Invalid == -1
Out     == Port \cup {Invalid}
Target(i, o) ==
  IF o = Invalid THEN nodes[i].invalid_target ELSE nodes[i].port_target[o]

\* The wires that lead somewhere.
Refs == {r \in Nodes \X Out : Target(r[1], r[2]) # 0}

Passing == phase \in {"visit", "init", "ports", "accepted"}

\* Node i is visited but its ports are not resolved; wire o of node i is.
Pending(i)     == phase = "ports" /\ i = Visited
Resolved(i, o) == i \in DOMAIN chain /\ (Pending(i) => o = Invalid)

\* How many entries of the queue have their slot filled.
Filled == IF phase = "init" THEN taken - 1 ELSE taken

Node ==
  [id : Id, pass_invalid : BOOLEAN, invalid_target : 0 .. MaxNodes,
   port_target : [Port -> 0 .. MaxNodes], in_degree : Nat, expected_in : Type]

GraphType ==
  /\ phase \in Phase
  /\ nodes \in Seq(Node) /\ Len(nodes) <= MaxNodes
  /\ \A i \in Nodes, o \in Out : Target(i, o) \in 0 .. Len(nodes)
  /\ edges \in Nat
  /\ queue \in Seq(Nodes) /\ taken \in 0 .. Len(queue)
  /\ alive \in [Slot -> Int]

\* What the edge loop has counted.
Wires ==
  /\ \A j \in Nodes :
       /\ nodes[j].in_degree = 0 <=> \A i \in Nodes, o \in Out : Target(i, o) # j
       /\ nodes[j].in_degree = 1 =>
            \A i, k \in Nodes : \A o, p \in Out :
              Target(i, o) = j /\ Target(k, p) = j => i = k /\ o = p
  /\ \A i, j \in Nodes :
       i < j /\ nodes[i].id = nodes[j].id =>
         nodes[j].in_degree = 0 /\ \A o \in Out : Target(j, o) = 0
  /\ edges = Cardinality(Refs)

\* Before the pass, and after a failure, nothing is there.
Before ==
  /\ phase = "nodes" =>
       edges = 0 /\ \A i \in Nodes, o \in Out : Target(i, o) = 0
  /\ phase \in {"nodes", "edges"} =>
       /\ queue = <<>> /\ taken = 0
       /\ \A i \in Nodes : nodes[i].expected_in = RawRecord
  /\ ~Passing => chain = <<>> /\ \A i \in Slot : alive[i] = 0

\* The tree, seen from the children.
OneParent ==
  Passing =>
    /\ queue # <<>>
    /\ \A i, k \in Nodes : \A o, p \in Out :
         Target(i, o) # 0 /\ Target(i, o) = Target(k, p) => i = k /\ o = p
    /\ \A i \in Nodes, o \in Out : Target(i, o) # Root
    /\ \A j \in Nodes : j # Root => \E i \in Nodes, o \in Out : Target(i, o) = j

NoRepeats == \A m, n \in 1 .. Len(queue) : queue[m] = queue[n] => m = n

QueueFrom ==
  Passing =>
    \A n \in 2 .. Len(queue) : \E m \in 1 .. n - 1, o \in Out :
      Resolved(queue[m], o) /\ Target(queue[m], o) = queue[n]

\* The slots filled so far, and the instances init() has made.
ChainIsFilled ==
  Passing =>
    /\ phase \in {"init", "ports"} => taken > 0
    /\ DOMAIN chain = {queue[n] : n \in 1 .. Filled}
    /\ \A i \in Slot :
         alive[i] = IF i \in {queue[n] : n \in 1 .. taken} THEN 1 ELSE 0
    /\ phase = "accepted" => taken = Len(queue) /\ Len(queue) = Len(nodes)

\* Each slot says what its node and its stage say.
SlotFilled(i) ==
  /\ chain[i] \in Instance /\ chain[i].stage.port_count <= MaxPorts
  /\ chain[i].invalid_child = nodes[i].invalid_target
SlotWired(i) ==
  /\ \A k \in Port : k < chain[i].stage.port_count <=> nodes[i].port_target[k] # 0
  /\ chain[i].children =
       [k \in 1 .. chain[i].stage.port_count |-> nodes[i].port_target[k - 1]]
SlotsRight ==
  /\ \A i \in DOMAIN chain : SlotFilled(i) /\ (~Pending(i) => SlotWired(i))
  /\ phase = "init" => stage \in Stage
  /\ phase = "ports" => chain[Visited].stage = stage

\* The type a node is to be given is its parent's, once the parent's wire to it is
\* resolved, and the root's is raw records; every node taken accepts it.
TypesFlow ==
  /\ Passing => nodes[Root].expected_in = RawRecord
  /\ \A i \in DOMAIN chain, o \in Out :
       Resolved(i, o) /\ Target(i, o) # 0 =>
         nodes[Target(i, o)].expected_in = chain[i].stage.out_type
  /\ \A i \in DOMAIN chain : nodes[i].expected_in \in chain[i].stage.in_types
  /\ phase = "init" => nodes[Visited].expected_in \in stage.in_types

GraphInv ==
  /\ GraphType /\ Wires /\ Before /\ OneParent /\ NoRepeats /\ QueueFrom
  /\ ChainIsFilled /\ SlotsRight /\ TypesFlow

\* A record is inside at a node of the accepted graph that takes its type, and the
\* counters account for those that are not inside.
Routed(w) ==
  \A i \in Nodes : idx[w] \in Kids(i) =>
    IF chain[i].invalid_child = idx[w] THEN cur[w].flagged
    ELSE cur[w].flagged => chain[i].pass_invalid /\ chain[i].invalid_child = 0

RunInv ==
  /\ records_in \in Nat /\ records_dropped \in Nat /\ records_forwarded \in Nat
  /\ idx \in [Worker -> 0 .. MaxNodes]
  /\ cur \in [Worker -> [type : Type, flagged : BOOLEAN]]
  /\ \A w \in Inside : phase = "accepted" /\ idx[w] \in Nodes
  /\ CountersAddUp /\ InputAccepted
  /\ \A w \in Inside : Routed(w)

-------------------------------------------------------------------------------
\* Lemmas about naturals, and about the operators of the model.

\* A nonempty set of naturals has a least element.
LEMMA LeastNat ==
  ASSUME NEW T \in SUBSET Nat, T # {}
  PROVE  \E x \in T : \A y \in T : x <= y
<1> DEFINE R == OpToRel(<, Nat)
<1>1. PICK x \in T : \A y \in T : <<y, x>> \notin R
  <2>1. IsWellFoundedOn(R, Nat)
    BY NatLessThanWellFounded, Zenon
  <2> HIDE DEF R
  <2> QED
    BY <2>1, WFMin, Zenon
<1>2. ASSUME NEW y \in T PROVE x <= y
  <2>1. ~ (y < x)
    BY <1>1, Zenon DEF OpToRel
  <2> QED
    BY <2>1
<1> QED
  BY <1>2

LEMMA UpTo ==
  ASSUME NEW n \in Nat
  PROVE  IsFiniteSet(1 .. n) /\ Cardinality(1 .. n) = n
<1>1. 1 \in Int /\ n \in Int
  OBVIOUS
<1>2. PICK c : c = Cardinality(1 .. n)
  OBVIOUS
<1>3. IsFiniteSet(1 .. n) /\ c = IF 1 > n THEN 0 ELSE n - 1 + 1
  BY <1>1, <1>2, FS_Interval, Zenon
<1>4. c = n
  BY <1>3
<1> QED
  BY <1>2, <1>3, <1>4, Zenon

LEMMA RefsFinite ==
  ASSUME GraphType
  PROVE  /\ IsFiniteSet(Nodes) /\ Cardinality(Nodes) = Len(nodes)
         /\ IsFiniteSet(Refs) /\ Cardinality(Refs) \in Nat
<1>1. Len(nodes) \in Nat
  BY DEF GraphType
<1>2. IsFiniteSet(Nodes) /\ Cardinality(Nodes) = Len(nodes)
  BY <1>1, UpTo, Zenon DEF Nodes
<1>3. IsFiniteSet(Port)
  BY FS_Interval, LimitsAssumption DEF Port
<1>4. IsFiniteSet(Out)
  BY <1>3, FS_AddElement DEF Out
<1>5. IsFiniteSet(Nodes \X Out)
  BY <1>2, <1>4, FS_Product
<1>6. Refs \subseteq Nodes \X Out
  BY DEF Refs
<1> QED
  BY <1>2, <1>5, <1>6, FS_Subset, FS_CardinalityType

\* A step that leaves every node's wires, or only rewrites what they expect.
SameWires ==
  /\ Len(nodes') = Len(nodes)
  /\ \A i \in Nodes :
       /\ nodes'[i].id = nodes[i].id /\ nodes'[i].in_degree = nodes[i].in_degree
       /\ nodes'[i].invalid_target = nodes[i].invalid_target
       /\ nodes'[i].port_target = nodes[i].port_target

LEMMA TargetsStay ==
  ASSUME SameWires
  PROVE  /\ Nodes' = Nodes
         /\ \A i \in Nodes, o \in Out : Target(i, o)' = Target(i, o)
         /\ Refs' = Refs
BY DEF SameWires, Target, Nodes, Refs

LEMMA WiresStay ==
  ASSUME Wires, SameWires, edges' = edges
  PROVE  Wires'
<1>1. /\ Nodes' = Nodes
      /\ \A i \in Nodes, o \in Out : Target(i, o)' = Target(i, o)
      /\ Refs' = Refs
  BY TargetsStay
<1>2. \A i \in Nodes : nodes'[i].id = nodes[i].id /\ nodes'[i].in_degree = nodes[i].in_degree
  BY DEF SameWires
<1>3. (\A j \in Nodes :
        nodes[j].in_degree = 0 <=> \A i \in Nodes, o \in Out : Target(i, o) # j)'
  BY <1>1, <1>2 DEF Wires
<1>4. (\A j \in Nodes :
        nodes[j].in_degree = 1 =>
          \A i, k \in Nodes : \A o, p \in Out :
            Target(i, o) = j /\ Target(k, p) = j => i = k /\ o = p)'
  BY <1>1, <1>2 DEF Wires
<1>5. (\A i, j \in Nodes :
        i < j /\ nodes[i].id = nodes[j].id =>
          nodes[j].in_degree = 0 /\ \A o \in Out : Target(j, o) = 0)'
  BY <1>1, <1>2 DEF Wires
<1>6. (edges = Cardinality(Refs))'
  BY <1>1 DEF Wires
<1> QED
  BY <1>3, <1>4, <1>5, <1>6 DEF Wires

\* A failure leaves nothing, wherever it happens.
LEMMA RejectedKeepsInv ==
  ASSUME GraphInv, phase' = "rejected", chain' = <<>>, alive' = [i \in Slot |-> 0],
         UNCHANGED <<nodes, edges, queue, taken>>
  PROVE  GraphInv'
<1>1. SameWires
  BY DEF SameWires
<1>2. GraphType'
  BY <1>1, TargetsStay DEF GraphInv, GraphType, Phase
<1>3. Wires'
  BY <1>1, WiresStay DEF GraphInv
<1>4. Before' /\ OneParent' /\ QueueFrom' /\ ChainIsFilled'
  BY DEF Before, OneParent, QueueFrom, ChainIsFilled, Passing
<1>5. NoRepeats'
  BY DEF GraphInv, NoRepeats
<1>6. SlotsRight' /\ TypesFlow'
  BY DEF SlotsRight, TypesFlow, Passing
<1> QED
  BY <1>2, <1>3, <1>4, <1>5, <1>6 DEF GraphInv

LEMMA GraphStarts == GraphInit => GraphInv
<1> SUFFICES ASSUME GraphInit PROVE GraphInv
  OBVIOUS
<1>1. Nodes = {} /\ Len(nodes) = 0
  BY DEF GraphInit, Nodes
<1>2. GraphType
  BY <1>1, LimitsAssumption DEF GraphInit, GraphType, Phase
<1>3. Wires
  <2>1. Refs = {}
    BY <1>1 DEF Refs
  <2> QED
    BY <1>1, <2>1, FS_EmptySet DEF Wires, GraphInit
<1> QED
  BY <1>1, <1>2, <1>3 DEF GraphInit, GraphInv, Before, OneParent, NoRepeats, QueueFrom,
     ChainIsFilled, SlotsRight, TypesFlow, Passing

LEMMA ReadNodeKeepsInv ==
  ASSUME GraphInv, NEW id \in Id, NEW pass \in BOOLEAN, ReadNode(id, pass)
  PROVE  GraphInv'
<1> DEFINE new == [id |-> id, pass_invalid |-> pass, invalid_target |-> 0,
                   port_target |-> [k \in Port |-> 0], in_degree |-> 0,
                   expected_in |-> RawRecord]
<1>1. /\ phase = "nodes" /\ phase' = "nodes" /\ Len(nodes) < MaxNodes /\ Len(nodes) \in Nat
      /\ nodes' = Append(nodes, new) /\ new \in Node
  BY RawRecordAssumption, LimitsAssumption DEF ReadNode, Node, GraphInv, GraphType
<1>2. /\ UNCHANGED <<edges, queue, taken, chain, alive>>
      /\ edges = 0 /\ queue = <<>> /\ taken = 0 /\ chain = <<>>
      /\ \A i \in Nodes, o \in Out : Target(i, o) = 0
      /\ \A i \in Nodes : nodes[i].expected_in = RawRecord
      /\ \A i \in Slot : alive[i] = 0
  BY <1>1 DEF GraphInv, Before, Passing, ReadNode
<1>3. /\ nodes' \in Seq(Node) /\ Len(nodes') = Len(nodes) + 1
      /\ Nodes' = Nodes \cup {Len(nodes) + 1}
      /\ \A i \in Nodes : nodes'[i] = nodes[i]
      /\ nodes'[Len(nodes) + 1] = new
  BY <1>1 DEF GraphInv, GraphType, Nodes
<1>4. (\A i \in Nodes, o \in Out : Target(i, o) = 0)'
  <2> SUFFICES ASSUME NEW i \in Nodes', NEW o \in Out PROVE Target(i, o)' = 0
    OBVIOUS
  <2>1. CASE i \in Nodes
    BY <1>2, <1>3, <2>1 DEF Target
  <2>2. CASE i = Len(nodes) + 1
    BY <1>3, <2>2 DEF Target, Out
  <2> QED
    BY <1>3, <2>1, <2>2
<1>5. GraphType'
  <2>1. (\A i \in Nodes, o \in Out : Target(i, o) \in 0 .. Len(nodes))'
    BY <1>1, <1>3, <1>4
  <2>2. queue' \in Seq(Nodes') /\ taken' \in 0 .. Len(queue')
    BY <1>2
  <2>3. Len(nodes') <= MaxNodes
    BY <1>1, <1>3, LimitsAssumption
  <2> QED
    BY <1>1, <1>2, <1>3, <2>1, <2>2, <2>3 DEF GraphInv, GraphType, Phase
<1>6. (\A j \in Nodes : nodes[j].in_degree = 0 /\ nodes[j].expected_in = RawRecord)'
  <2>1. \A j \in Nodes : nodes[j].in_degree = 0
    BY <1>2 DEF GraphInv, Wires, Nodes
  <2> QED
    BY <1>2, <1>3, <2>1
<1>7. Wires'
  <2>1. Refs' = {}
    BY <1>4 DEF Refs
  <2>2. 0 \notin Nodes'
    BY DEF Nodes
  <2> QED
    BY <1>2, <1>4, <1>6, <2>1, <2>2, FS_EmptySet DEF Wires
<1>8. Before'
  BY <1>1, <1>2, <1>4, <1>6 DEF Before, Passing
<1>9. NoRepeats' /\ SlotsRight' /\ TypesFlow'
  BY <1>1, <1>2 DEF NoRepeats, SlotsRight, TypesFlow, Passing
<1>10. OneParent' /\ QueueFrom' /\ ChainIsFilled'
  BY <1>1 DEF OneParent, QueueFrom, ChainIsFilled, Passing
<1> QED
  BY <1>5, <1>7, <1>8, <1>9, <1>10 DEF GraphInv

\* One edge, whichever wire it is on: find_node_idx() gives the first node of its
\* name for either end, and its target has one more incoming edge.
LEMMA ReadEdgeKeepsInv ==
  ASSUME GraphInv, phase = "edges", phase' = "edges", edges' = edges + 1,
         UNCHANGED <<queue, taken, chain, alive>>,
         NEW s \in Nodes, NEW d \in Nodes, NEW o \in Out,
         \A j \in 1 .. s - 1 : nodes[j].id # nodes[s].id,
         \A j \in 1 .. d - 1 : nodes[j].id # nodes[d].id,
         Target(s, o) = 0,
         nodes' \in Seq(Node), Len(nodes') = Len(nodes),
         \A i \in Nodes :
           /\ nodes'[i].id = nodes[i].id /\ nodes'[i].expected_in = nodes[i].expected_in
           /\ nodes'[i].in_degree = IF i = d THEN nodes[i].in_degree + 1
                                             ELSE nodes[i].in_degree,
         \A i \in Nodes, p \in Out :
           Target(i, p)' = IF i = s /\ p = o THEN d ELSE Target(i, p)
  PROVE  GraphInv'
<1>1. /\ Nodes' = Nodes /\ 0 \notin Nodes /\ Len(nodes) \in Nat
      /\ \A j \in Nodes : nodes[j].in_degree \in Nat
  <2>1. \A j \in Nodes : nodes[j] \in Node
    BY DEF Nodes, GraphInv, GraphType
  <2>2. \A j \in Nodes : nodes[j].in_degree \in Nat
    BY <2>1 DEF Node
  <2>3. Len(nodes) \in Nat
    BY DEF GraphInv, GraphType
  <2>4. Nodes' = Nodes
    BY Zenon DEF Nodes
  <2>5. 0 \notin Nodes
    BY <2>3 DEF Nodes
  <2> QED
    BY <2>2, <2>3, <2>4, <2>5
<1>2. GraphType'
  <2>1. \A i \in Nodes, p \in Out : Target(i, p)' \in 0 .. Len(nodes')
    <3>1. d \in 0 .. Len(nodes)
      BY <1>1 DEF Nodes
    <3> QED
      BY <3>1 DEF GraphInv, GraphType
  <2> QED
    BY <1>1, <2>1 DEF GraphInv, GraphType, Phase, Nodes
<1>3. ASSUME NEW j \in Nodes
      PROVE  /\ nodes'[j].in_degree = 0 <=> \A i \in Nodes, p \in Out : Target(i, p)' # j
             /\ nodes'[j].in_degree = 1 =>
                  \A i, k \in Nodes : \A p, q \in Out :
                    Target(i, p)' = j /\ Target(k, q)' = j => i = k /\ p = q
  <2>1. CASE j = d
    <3>1. nodes'[j].in_degree > 0 /\ Target(s, o)' = j
      BY <1>1, <2>1
    <3>2. ASSUME nodes'[j].in_degree = 1
          PROVE  \A i, k \in Nodes : \A p, q \in Out :
                   Target(i, p)' = j /\ Target(k, q)' = j => i = k /\ p = q
      <4>1. nodes[j].in_degree = 0
        BY <1>1, <2>1, <3>2
      <4>2. \A i \in Nodes, p \in Out : Target(i, p) # j
        BY <4>1 DEF GraphInv, Wires
      <4> QED
        BY <4>2
    <3> QED
      BY <3>1, <3>2
  <2>2. CASE j # d
    <3>1. nodes'[j].in_degree = nodes[j].in_degree
      BY <2>2
    <3>2. \A i \in Nodes, p \in Out : Target(i, p)' = j <=> Target(i, p) = j
      BY <1>1, <2>2
    <3> QED
      BY <3>1, <3>2 DEF GraphInv, Wires
  <2> QED
    BY <2>1, <2>2
<1>4. ASSUME NEW i \in Nodes, NEW j \in Nodes, i < j, nodes[i].id = nodes[j].id
      PROVE  nodes'[j].in_degree = 0 /\ \A p \in Out : Target(j, p)' = 0
  <2>1. j # s /\ j # d
    BY <1>4 DEF Nodes
  <2> QED
    BY <1>4, <2>1 DEF GraphInv, Wires
<1>5. edges' = Cardinality(Refs')
  <2>1. <<s, o>> \notin Refs /\ Refs' = Refs \cup {<<s, o>>}
    <3>1. <<s, o>> \notin Refs /\ <<s, o>> \in Refs'
      BY <1>1 DEF Refs
    <3>2. ASSUME NEW r \in Nodes \X Out, r # <<s, o>> PROVE r \in Refs' <=> r \in Refs
      <4>1. r[1] \in Nodes /\ r[2] \in Out /\ ~(r[1] = s /\ r[2] = o)
        BY <3>2
      <4>2. Target(r[1], r[2])' = Target(r[1], r[2])
        BY <4>1
      <4> QED
        BY <1>1, <4>2 DEF Refs
    <3> QED
      BY <1>1, <3>1, <3>2 DEF Refs
  <2> QED
    BY <2>1, RefsFinite, FS_AddElement DEF GraphInv, Wires
<1>6. Wires'
  BY <1>1, <1>3, <1>4, <1>5 DEF Wires
<1> QED
  BY <1>1, <1>2, <1>6 DEF GraphInv, Before, OneParent, NoRepeats,
     QueueFrom, ChainIsFilled, SlotsRight, TypesFlow, Passing

LEMMA FoundIsFirst ==
  ASSUME NEW id, NEW s \in Found(id)
  PROVE  s \in Nodes /\ nodes[s].id = id /\ \A j \in 1 .. s - 1 : nodes[j].id # nodes[s].id
BY DEF Found

\* Rewriting one node and then one more leaves a sequence of nodes.
LEMMA TwoNodesRewritten ==
  ASSUME nodes \in Seq(Node), NEW s \in Nodes, NEW d \in Nodes,
         NEW a \in Node, NEW b \in Node
  PROVE  LET new == [[nodes EXCEPT ![s] = a] EXCEPT ![d] = b]
         IN  /\ new \in Seq(Node) /\ Len(new) = Len(nodes)
             /\ \A i \in Nodes : new[i] = IF i = d THEN b ELSE IF i = s THEN a ELSE nodes[i]
<1> DEFINE one == [nodes EXCEPT ![s] = a]
<1>1. /\ one \in Seq(Node) /\ Len(one) = Len(nodes)
      /\ \A i \in Nodes : one[i] = IF i = s THEN a ELSE nodes[i]
  BY ExceptSeq DEF Nodes
<1> HIDE DEF one
<1> DEFINE new == [one EXCEPT ![d] = b]
<1>2. /\ new \in Seq(Node) /\ Len(new) = Len(nodes)
      /\ \A i \in Nodes : new[i] = IF i = d THEN b ELSE one[i]
  BY <1>1, ExceptSeq DEF Nodes
<1>3. \A i \in Nodes : new[i] = IF i = d THEN b ELSE IF i = s THEN a ELSE nodes[i]
  BY <1>1, <1>2
<1> QED
  BY <1>2, <1>3 DEF one

LEMMA ReadInvalidEdgeKeepsInv ==
  ASSUME GraphInv, NEW src \in Id, NEW dst \in Id, ReadInvalidEdge(src, dst)
  PROVE  GraphInv'
<1>1. PICK s \in Found(src), d \in Found(dst) :
        /\ nodes[s].invalid_target = 0
        /\ nodes' = [nodes EXCEPT ![s].invalid_target = d, ![d].in_degree = @ + 1]
  BY DEF ReadInvalidEdge
<1>2. /\ s \in Nodes /\ \A j \in 1 .. s - 1 : nodes[j].id # nodes[s].id
      /\ d \in Nodes /\ \A j \in 1 .. d - 1 : nodes[j].id # nodes[d].id
  BY FoundIsFirst
<1>3. nodes \in Seq(Node) /\ (\A i \in Nodes : nodes[i] \in Node) /\ Nodes \subseteq 0 .. MaxNodes
  BY LimitsAssumption DEF GraphInv, GraphType, Nodes
<1> DEFINE a == [nodes[s] EXCEPT !.invalid_target = d]
           m == IF d = s THEN a ELSE nodes[d]
           b == [m EXCEPT !.in_degree = @ + 1]
<1>4. a \in Node /\ m \in Node /\ b \in Node
  <2>1. nodes[s] \in Node /\ nodes[d] \in Node /\ d \in 0 .. MaxNodes
    BY <1>2, <1>3
  <2>2. a \in Node
    BY <2>1 DEF Node
  <2> HIDE DEF a
  <2>3. m \in Node
    BY <2>1, <2>2
  <2> HIDE DEF m
  <2> QED
    BY <2>2, <2>3 DEF Node
<1>5. /\ a.id = nodes[s].id /\ a.expected_in = nodes[s].expected_in
       /\ a.in_degree = nodes[s].in_degree /\ a.invalid_target = d /\ a.port_target = nodes[s].port_target
  BY <1>2, <1>3 DEF Node
<1>6. /\ b.id = m.id /\ b.expected_in = m.expected_in /\ b.in_degree = m.in_degree + 1
       /\ b.invalid_target = m.invalid_target /\ b.port_target = m.port_target
  <2> HIDE DEF m
  <2> QED
    BY <1>4 DEF Node
<1>7. nodes' = [[nodes EXCEPT ![s] = a] EXCEPT ![d] = b]
  BY <1>1, <1>2, <1>3 DEF Nodes
<1>8. /\ nodes' \in Seq(Node) /\ Len(nodes') = Len(nodes)
      /\ \A i \in Nodes : nodes'[i] = IF i = d THEN b ELSE IF i = s THEN a ELSE nodes[i]
  <2> HIDE DEF a, b
  <2> QED
    BY <1>2, <1>3, <1>4, <1>7, TwoNodesRewritten
<1>9. \A i \in Nodes :
        /\ nodes'[i].id = nodes[i].id /\ nodes'[i].expected_in = nodes[i].expected_in
        /\ nodes'[i].in_degree = IF i = d THEN nodes[i].in_degree + 1 ELSE nodes[i].in_degree
        /\ nodes'[i].invalid_target = IF i = s THEN d ELSE nodes[i].invalid_target
        /\ nodes'[i].port_target = nodes[i].port_target
  <2> HIDE DEF a, b
  <2>1. m = IF d = s THEN a ELSE nodes[d]
    OBVIOUS
  <2> HIDE DEF m
  <2> QED
    BY <1>2, <1>5, <1>6, <1>8, <2>1
<1>10. \A i \in Nodes, p \in Out :
        Target(i, p)' = IF i = s /\ p = Invalid THEN d ELSE Target(i, p)
  BY <1>9 DEF Target
<1>11. Invalid \in Out /\ Target(s, Invalid) = 0
  BY <1>1 DEF Out, Target
<1>12. phase = "edges" /\ phase' = "edges" /\ edges' = edges + 1
       /\ UNCHANGED <<queue, taken, chain, alive>>
  BY DEF ReadInvalidEdge
<1> QED
  BY <1>2, <1>8, <1>9, <1>10, <1>11, <1>12, ReadEdgeKeepsInv

LEMMA ReadPortEdgeKeepsInv ==
  ASSUME GraphInv, NEW src \in Id, NEW dst \in Id, NEW k \in Port, ReadPortEdge(src, dst, k)
  PROVE  GraphInv'
<1>1. PICK s \in Found(src), d \in Found(dst) :
        /\ nodes[s].port_target[k] = 0
        /\ nodes' = [nodes EXCEPT ![s].port_target[k] = d, ![d].in_degree = @ + 1]
  BY DEF ReadPortEdge
<1>2. /\ s \in Nodes /\ \A j \in 1 .. s - 1 : nodes[j].id # nodes[s].id
      /\ d \in Nodes /\ \A j \in 1 .. d - 1 : nodes[j].id # nodes[d].id
  BY FoundIsFirst
<1>3. nodes \in Seq(Node) /\ (\A i \in Nodes : nodes[i] \in Node) /\ Nodes \subseteq 0 .. MaxNodes
  BY LimitsAssumption DEF GraphInv, GraphType, Nodes
<1> DEFINE a == [nodes[s] EXCEPT !.port_target = [nodes[s].port_target EXCEPT ![k] = d]]
           m == IF d = s THEN a ELSE nodes[d]
           b == [m EXCEPT !.in_degree = @ + 1]
<1>4. a \in Node /\ m \in Node /\ b \in Node
  <2>1. nodes[s] \in Node /\ nodes[d] \in Node /\ d \in 0 .. MaxNodes
    BY <1>2, <1>3
  <2>2. a \in Node
    BY <2>1 DEF Node
  <2> HIDE DEF a
  <2>3. m \in Node
    BY <2>1, <2>2
  <2> HIDE DEF m
  <2> QED
    BY <2>2, <2>3 DEF Node
<1>5. /\ a.id = nodes[s].id /\ a.expected_in = nodes[s].expected_in
       /\ a.in_degree = nodes[s].in_degree /\ a.invalid_target = nodes[s].invalid_target
       /\ a.port_target = [nodes[s].port_target EXCEPT ![k] = d]
  BY <1>2, <1>3 DEF Node
<1>6. /\ b.id = m.id /\ b.expected_in = m.expected_in /\ b.in_degree = m.in_degree + 1
       /\ b.invalid_target = m.invalid_target /\ b.port_target = m.port_target
  <2> HIDE DEF m
  <2> QED
    BY <1>4 DEF Node
<1>7. nodes' = [[nodes EXCEPT ![s] = a] EXCEPT ![d] = b]
  BY <1>1, <1>2, <1>3 DEF Nodes
<1>8. /\ nodes' \in Seq(Node) /\ Len(nodes') = Len(nodes)
      /\ \A i \in Nodes : nodes'[i] = IF i = d THEN b ELSE IF i = s THEN a ELSE nodes[i]
  <2> HIDE DEF a, b
  <2> QED
    BY <1>2, <1>3, <1>4, <1>7, TwoNodesRewritten
<1>9. \A i \in Nodes :
        /\ nodes'[i].id = nodes[i].id /\ nodes'[i].expected_in = nodes[i].expected_in
        /\ nodes'[i].in_degree = IF i = d THEN nodes[i].in_degree + 1 ELSE nodes[i].in_degree
        /\ nodes'[i].invalid_target = nodes[i].invalid_target
        /\ nodes'[i].port_target =
             IF i = s THEN [nodes[i].port_target EXCEPT ![k] = d] ELSE nodes[i].port_target
  <2> HIDE DEF a, b
  <2>1. m = IF d = s THEN a ELSE nodes[d]
    OBVIOUS
  <2> HIDE DEF m
  <2> QED
    BY <1>2, <1>5, <1>6, <1>8, <2>1
<1>10. \A i \in Nodes : nodes[i].port_target \in [Port -> 0 .. MaxNodes]
  BY <1>3 DEF Node
<1>11. k # Invalid /\ k \in Out /\ Invalid \notin Port
  BY LimitsAssumption DEF Out, Port, Invalid
<1>12. ASSUME NEW i \in Nodes, NEW p \in Out
       PROVE  Target(i, p)' = IF i = s /\ p = k THEN d ELSE Target(i, p)
  <2>1. CASE p = Invalid
    BY <1>9, <1>11, <2>1 DEF Target
  <2>2. CASE p \in Port
    BY <1>9, <1>10, <1>11, <2>2 DEF Target
  <2> QED
    BY <2>1, <2>2 DEF Out
<1>13. Target(s, k) = 0 /\ s \in Nodes /\ d \in Nodes
  BY <1>1, <1>2, <1>11 DEF Target
<1>14. \A i \in Nodes, p \in Out :
         Target(i, p)' = IF i = s /\ p = k THEN d ELSE Target(i, p)
  BY <1>12
<1>15. phase = "edges" /\ phase' = "edges" /\ edges' = edges + 1
       /\ UNCHANGED <<queue, taken, chain, alive>>
  BY DEF ReadPortEdge
<1>16. \A i \in Nodes :
         /\ nodes'[i].id = nodes[i].id /\ nodes'[i].expected_in = nodes[i].expected_in
         /\ nodes'[i].in_degree = IF i = d THEN nodes[i].in_degree + 1 ELSE nodes[i].in_degree
  BY <1>9
<1>17. nodes' \in Seq(Node) /\ Len(nodes') = Len(nodes) /\ k \in Out
  BY <1>8, <1>11
<1> HIDE DEF a, b, m
<1> QED
  BY <1>2, <1>13, <1>14, <1>15, <1>16, <1>17, ReadEdgeKeepsInv

LEMMA NodesReadKeepsInv == ASSUME GraphInv, NodesRead PROVE GraphInv'
<1>1. /\ phase = "nodes" /\ phase' = "edges"
      /\ UNCHANGED <<nodes, edges, queue, taken, stage, chain, alive>>
  BY DEF NodesRead
<1>2. SameWires
  BY <1>1 DEF SameWires
<1>3. GraphType'
  BY <1>1, <1>2, TargetsStay DEF GraphInv, GraphType, Phase
<1>4. Wires'
  BY <1>1, <1>2, WiresStay DEF GraphInv
<1>5. chain = <<>>
  BY <1>1 DEF GraphInv, Before, Passing
<1>6. Before'
  <2>1. /\ queue = <<>> /\ taken = 0 /\ \A i \in Nodes : nodes[i].expected_in = RawRecord
        /\ \A i \in Slot : alive[i] = 0
    BY <1>1 DEF GraphInv, Before, Passing
  <2> QED
    BY <1>1, <1>5, <2>1 DEF Before, Passing, Nodes
<1>7. NoRepeats' /\ SlotsRight' /\ TypesFlow'
  <2>1. NoRepeats'
    BY <1>1 DEF GraphInv, NoRepeats
  <2>2. DOMAIN chain' = {} /\ phase' = "edges"
    BY <1>1, <1>5
  <2> QED
    BY <2>1, <2>2 DEF SlotsRight, TypesFlow, Passing
<1>8. OneParent' /\ QueueFrom' /\ ChainIsFilled'
  BY <1>1 DEF OneParent, QueueFrom, ChainIsFilled, Passing
<1> QED
  BY <1>3, <1>4, <1>6, <1>7, <1>8 DEF GraphInv

\* The tree check: no fan-in and one root leave every other node one parent
\* (graph_config.c:270-280).
LEMMA EdgesReadKeepsInv == ASSUME GraphInv, EdgesRead PROVE GraphInv'
<1>1. /\ phase = "edges" /\ queue = <<>> /\ taken = 0 /\ chain = <<>>
      /\ \A i \in Slot : alive[i] = 0
      /\ \A i \in Nodes : nodes[i].expected_in = RawRecord
      /\ UNCHANGED <<nodes, edges, taken, stage, chain, alive>>
  BY DEF EdgesRead, GraphInv, Before, Passing
<1>2. CASE phase' = "rejected" /\ UNCHANGED queue
  <2>1. alive = [i \in Slot |-> 0]
    BY <1>1 DEF GraphInv, GraphType
  <2> QED
    BY <1>1, <1>2, <2>1, RejectedKeepsInv
<1>3. CASE /\ FanIn = {} /\ Cardinality(Roots) = 1
           /\ phase' = "visit" /\ queue' = <<CHOOSE i \in Nodes : i \in Roots>>
  <2>1. IsFiniteSet(Roots)
    BY RefsFinite, FS_Subset DEF Roots, GraphInv
  <2>2. PICK r : Roots = {r}
    BY <1>3, <2>1, FS_Singleton
  <2>3. r \in Nodes /\ nodes[r].in_degree = 0
    BY <2>2 DEF Roots
  <2>4. queue' = <<r>>
    BY <1>3, <2>2, <2>3
  <2>5. SameWires
    BY <1>1 DEF SameWires
  <2>6. /\ Nodes' = Nodes /\ 0 \notin Nodes
        /\ \A i \in Nodes, o \in Out : Target(i, o)' = Target(i, o)
        /\ \A i \in Nodes, o \in Out : Target(i, o) \in Nodes \cup {0}
        /\ \A j \in Nodes : nodes[j].in_degree \in Nat
    <3>1. \A j \in Nodes : nodes[j] \in Node
      BY DEF Nodes, GraphInv, GraphType
    <3>2. \A j \in Nodes : nodes[j].in_degree \in Nat
      BY <3>1 DEF Node
    <3>3. \A i \in Nodes, o \in Out : Target(i, o) \in Nodes \cup {0}
      BY DEF GraphInv, GraphType, Nodes
    <3>4. 0 \notin Nodes
      BY DEF GraphInv, GraphType, Nodes
    <3> QED
      BY <2>5, <3>2, <3>3, <3>4, TargetsStay
  <2>7. GraphType'
    <3>1. queue' \in Seq(Nodes') /\ taken' \in 0 .. Len(queue')
      BY <1>1, <2>3, <2>4, <2>6
    <3>2. (\A i \in Nodes, o \in Out : Target(i, o) \in 0 .. Len(nodes))'
      BY <1>1, <2>6 DEF GraphInv, GraphType
    <3> QED
      BY <1>1, <1>3, <3>1, <3>2 DEF GraphInv, GraphType, Phase
  <2>8. Wires'
    BY <1>1, <2>5, WiresStay DEF GraphInv
  <2>9. OneParent'
    <3>1. ASSUME NEW i \in Nodes, NEW k \in Nodes, NEW o \in Out, NEW p \in Out,
                 Target(i, o) # 0, Target(i, o) = Target(k, p)
          PROVE  i = k /\ o = p
      <4>1. PICK j \in Nodes : Target(i, o) = j
        BY <2>6, <3>1
      <4>2. nodes[j].in_degree # 0
        BY <4>1 DEF GraphInv, Wires
      <4>3. nodes[j].in_degree = 1
        BY <1>3, <2>6, <4>2 DEF FanIn
      <4>4. \A x, y \in Nodes : \A q, t \in Out :
              Target(x, q) = j /\ Target(y, t) = j => x = y /\ q = t
        BY <4>3, Zenon DEF GraphInv, Wires
      <4>5. Target(i, o) = j /\ Target(k, p) = j
        BY <3>1, <4>1
      <4> QED
        BY <4>4, <4>5, Zenon
    <3>2. \A i \in Nodes, o \in Out : Target(i, o) # r
      BY <2>3 DEF GraphInv, Wires
    <3>3. ASSUME NEW j \in Nodes, j # r PROVE \E i \in Nodes, o \in Out : Target(i, o) = j
      <4>1. nodes[j].in_degree # 0
        BY <2>2, <3>3 DEF Roots
      <4> QED
        BY <4>1 DEF GraphInv, Wires
    <3>4. queue' # <<>> /\ Root' = r
      BY <2>4 DEF Root
    <3> QED
      BY <2>6, <3>1, <3>2, <3>3, <3>4 DEF OneParent
  <2>10. Len(queue') = 1 /\ NoRepeats' /\ QueueFrom'
    BY <2>4 DEF NoRepeats, QueueFrom
  <2>11. Before'
    BY <1>1, <1>3 DEF Before, Passing
  <2>12. ChainIsFilled'
    BY <1>1, <1>3 DEF ChainIsFilled, Filled
  <2>13. SlotsRight' /\ TypesFlow'
    <3>1. Root' = r /\ nodes'[r].expected_in = RawRecord /\ chain' = <<>> /\ phase' = "visit"
      BY <1>1, <1>3, <2>3, <2>4 DEF Root
    <3> QED
      BY <3>1 DEF SlotsRight, TypesFlow, Resolved
  <2> QED
    BY <2>7, <2>8, <2>9, <2>10, <2>11, <2>12, <2>13 DEF GraphInv
<1> QED
  BY <1>2, <1>3 DEF EdgesRead

\* The sweep of a failure finds every instance that init() made.
LEMMA RejectsKeepInv ==
  ASSUME GraphInv,
         RejectNodes \/ RejectEdge \/ RejectStage \/ RejectPortCount \/ RejectWiring
  PROVE  GraphInv'
<1>1. CASE RejectNodes \/ RejectEdge
  <2>1. chain = <<>> /\ alive = [i \in Slot |-> 0]
    BY <1>1 DEF RejectNodes, RejectEdge, GraphInv, GraphType, Before, Passing
  <2> QED
    BY <1>1, <2>1, RejectedKeepsInv DEF RejectNodes, RejectEdge, Reject
<1>2. CASE RejectStage \/ RejectWiring
  <2>1. phase \in {"visit", "ports"} /\ Filled = taken
    BY <1>2 DEF RejectStage, RejectWiring, Filled
  <2>2. \A i \in Slot : alive[i] = IF i \in DOMAIN chain THEN 1 ELSE 0
    BY <2>1 DEF GraphInv, ChainIsFilled, Passing
  <2>3. alive' = [i \in Slot |-> 0]
    BY <1>2, <2>2 DEF RejectStage, RejectWiring, Fail, TeardownAll
  <2> QED
    BY <1>2, <2>3, RejectedKeepsInv DEF RejectStage, RejectWiring, Fail, TeardownAll
<1>3. CASE RejectPortCount
  <2>1. phase = "init" /\ Filled = taken - 1 /\ taken \in Nat /\ taken > 0
    BY <1>3 DEF RejectPortCount, Filled, GraphInv, GraphType, ChainIsFilled, Passing
  <2>2. {queue[n] : n \in 1 .. taken} = DOMAIN chain \cup {Visited}
    BY <2>1 DEF GraphInv, ChainIsFilled, Passing, Visited
  <2>3. \A i \in Slot : alive[i] = IF i \in DOMAIN chain \cup {Visited} THEN 1 ELSE 0
    BY <2>1, <2>2 DEF GraphInv, ChainIsFilled, Passing
  <2>4. alive' = [i \in Slot |-> 0]
    BY <1>3, <2>3 DEF RejectPortCount
  <2> QED
    BY <1>3, <2>4, RejectedKeepsInv DEF RejectPortCount
<1> QED
  BY <1>1, <1>2, <1>3

LEMMA QueueEntries ==
  ASSUME GraphInv
  PROVE  /\ Len(queue) \in Nat /\ taken \in 0 .. Len(queue) /\ Len(nodes) \in Nat
         /\ \A n \in 1 .. Len(queue) : queue[n] \in Nodes
         /\ Nodes \subseteq Slot
         /\ \A i \in Nodes : nodes[i] \in Node
         /\ Passing => 1 \in 1 .. Len(queue) /\ Root \in Nodes
<1>1. /\ Len(queue) \in Nat /\ taken \in 0 .. Len(queue) /\ Len(nodes) \in Nat
      /\ \A n \in 1 .. Len(queue) : queue[n] \in Nodes
      /\ \A i \in Nodes : nodes[i] \in Node
  BY DEF GraphInv, GraphType, Nodes
<1>2. Nodes \subseteq Slot
  BY LimitsAssumption DEF GraphInv, GraphType, Nodes, Slot
<1>3. Passing => 1 \in 1 .. Len(queue)
  BY EmptySeq DEF GraphInv, GraphType, OneParent
<1> QED
  BY <1>1, <1>2, <1>3 DEF Root

LEMMA InitStageKeepsInv ==
  ASSUME GraphInv, NEW s \in Stage, InitStage(s)
  PROVE  GraphInv'
<1> DEFINE v == queue[taken + 1]
<1>1. /\ phase = "visit" /\ phase' = "init" /\ taken < Len(queue) /\ taken' = taken + 1
      /\ stage' = s /\ alive' = [alive EXCEPT ![v] = @ + 1]
      /\ nodes[v].expected_in \in s.in_types
      /\ UNCHANGED <<nodes, edges, queue, chain>>
  BY DEF InitStage, Accepts
<1>2. SameWires
  BY <1>1 DEF SameWires
<1>3. v \in Nodes /\ v \in Slot /\ taken + 1 \in 1 .. Len(queue) /\ Visited' = v
  BY <1>1, QueueEntries DEF Visited
<1>4. v \notin {queue[n] : n \in 1 .. taken}
  BY <1>1, <1>3, QueueEntries DEF GraphInv, NoRepeats
<1>5. GraphType'
  <2>1. alive' \in [Slot -> Int]
    BY <1>1, <1>3 DEF GraphInv, GraphType
  <2>2. taken' \in 0 .. Len(queue')
    BY <1>1, <1>3, QueueEntries
  <2>3. queue' \in Seq(Nodes') /\ (\A i \in Nodes, o \in Out : Target(i, o) \in 0 .. Len(nodes))'
    BY <1>1, <1>2, TargetsStay DEF GraphInv, GraphType
  <2> QED
    BY <1>1, <2>1, <2>2, <2>3 DEF GraphInv, GraphType, Phase
<1>6. Wires'
  BY <1>1, <1>2, WiresStay DEF GraphInv
<1>7. Before' /\ NoRepeats'
  BY <1>1 DEF GraphInv, Before, NoRepeats, Passing
<1>8. OneParent'
  BY <1>1, <1>2, TargetsStay DEF GraphInv, OneParent, Passing, Root
<1>9. /\ \A i, o : Resolved(i, o)' <=> Resolved(i, o)
      /\ \A i : ~Pending(i) /\ ~Pending(i)'
  BY <1>1 DEF Resolved, Pending
<1>10. QueueFrom'
  BY <1>1, <1>2, <1>9, QueueEntries, TargetsStay DEF GraphInv, QueueFrom, Passing
<1>11. ChainIsFilled'
  <2>1. Filled' = taken /\ Filled = taken
    BY <1>1, QueueEntries DEF Filled
  <2>2. {queue[n] : n \in 1 .. taken'} = {queue[n] : n \in 1 .. taken} \cup {v}
    BY <1>1, QueueEntries
  <2>3. \A i \in Slot : alive[i] = IF i \in {queue[n] : n \in 1 .. taken} THEN 1 ELSE 0
    BY <1>1 DEF GraphInv, ChainIsFilled, Passing
  <2>4. \A i \in Slot : alive'[i] = IF i \in {queue[n] : n \in 1 .. taken'} THEN 1 ELSE 0
    BY <1>1, <1>3, <1>4, <2>2, <2>3 DEF GraphInv, GraphType
  <2>5. DOMAIN chain = {queue[n] : n \in 1 .. taken}
    BY <1>1, <2>1 DEF GraphInv, ChainIsFilled, Passing
  <2> QED
    BY <1>1, <2>1, <2>4, <2>5, QueueEntries DEF ChainIsFilled
<1>12. SlotsRight'
  BY <1>1, <1>9 DEF GraphInv, SlotsRight, SlotFilled, SlotWired
<1>13. TypesFlow'
  <2>1. DOMAIN chain \subseteq Nodes
    BY <1>1, QueueEntries DEF GraphInv, ChainIsFilled, Passing, Filled
  <2>2. Root' = Root /\ Root \in Nodes /\ Passing
    BY <1>1, QueueEntries DEF Passing, Root
  <2>3. \A i \in DOMAIN chain, o \in Out :
          Resolved(i, o)' /\ Target(i, o)' # 0 =>
            nodes'[Target(i, o)'].expected_in = chain[i].stage.out_type
    BY <1>1, <1>2, <1>9, <2>1, TargetsStay DEF GraphInv, TypesFlow
  <2>4. (Passing => nodes[Root].expected_in = RawRecord)'
    BY <1>1, <2>2 DEF GraphInv, TypesFlow
  <2>5. (phase = "init" => nodes[Visited].expected_in \in stage.in_types)'
    BY <1>1, <1>3
  <2> QED
    BY <1>1, <2>3, <2>4, <2>5 DEF GraphInv, TypesFlow
<1> QED
  BY <1>5, <1>6, <1>7, <1>8, <1>10, <1>11, <1>12, <1>13 DEF GraphInv

LEMMA VisitedAllKeepsInv == ASSUME GraphInv, VisitedAll PROVE GraphInv'
<1>1. phase = "visit" /\ taken = Len(queue)
  BY DEF VisitedAll
<1>2. CASE Fail
  <2>1. \A i \in Slot : alive[i] = IF i \in DOMAIN chain THEN 1 ELSE 0
    BY <1>1 DEF GraphInv, ChainIsFilled, Passing, Filled
  <2>2. alive' = [i \in Slot |-> 0]
    BY <1>2, <2>1 DEF Fail, TeardownAll
  <2> QED
    BY <1>2, <2>2, RejectedKeepsInv DEF Fail, TeardownAll
<1>3. CASE /\ phase' = "accepted" /\ Len(queue) = Len(nodes)
           /\ UNCHANGED <<nodes, edges, queue, taken, stage, chain, alive>>
  <2>1. SameWires
    BY <1>3 DEF SameWires
  <2>2. GraphType'
    BY <1>3, <2>1, TargetsStay DEF GraphInv, GraphType, Phase
  <2>3. Wires'
    BY <1>3, <2>1, WiresStay DEF GraphInv
  <2>4. Before' /\ NoRepeats'
    BY <1>1, <1>3 DEF GraphInv, Before, NoRepeats, Passing
  <2>5. OneParent'
    BY <1>1, <1>3, <2>1, TargetsStay DEF GraphInv, OneParent, Passing, Root
  <2>6. /\ \A i, o : Resolved(i, o)' <=> Resolved(i, o)
        /\ \A i : ~Pending(i) /\ ~Pending(i)'
    BY <1>1, <1>3 DEF Resolved, Pending
  <2>7. QueueFrom'
    BY <1>1, <1>3, <2>1, <2>6, QueueEntries, TargetsStay DEF GraphInv, QueueFrom, Passing
  <2>8. ChainIsFilled'
    BY <1>1, <1>3 DEF GraphInv, ChainIsFilled, Filled, Passing
  <2>9. SlotsRight'
    BY <1>1, <1>3, <2>6 DEF GraphInv, SlotsRight, SlotFilled, SlotWired
  <2>10. DOMAIN chain \subseteq Nodes
    BY <1>1, QueueEntries DEF GraphInv, ChainIsFilled, Passing, Filled
  <2>11. TypesFlow'
    BY <1>1, <1>3, <2>1, <2>6, <2>10, TargetsStay DEF GraphInv, TypesFlow, Passing, Root
  <2> QED
    BY <2>2, <2>3, <2>4, <2>5, <2>7, <2>8, <2>9, <2>11 DEF GraphInv
<1> QED
  BY <1>2, <1>3 DEF VisitedAll

\* A wire that is not resolved leads to a node that is not on the queue.
LEMMA FreshTarget ==
  ASSUME GraphInv, Passing, NEW v \in Nodes, NEW o \in Out,
         ~Resolved(v, o), Target(v, o) # 0
  PROVE  /\ Target(v, o) \in Nodes
         /\ \A n \in 1 .. Len(queue) : queue[n] # Target(v, o)
         /\ Target(v, o) # Root
<1>1. Target(v, o) \in Nodes
  BY DEF GraphInv, GraphType, Nodes
<1>2. Target(v, o) # Root
  BY DEF GraphInv, OneParent
<1>3. ASSUME NEW n \in 2 .. Len(queue), queue[n] = Target(v, o) PROVE FALSE
  <2>1. PICK m \in 1 .. n - 1, p \in Out :
          Resolved(queue[m], p) /\ Target(queue[m], p) = queue[n]
    BY DEF GraphInv, QueueFrom
  <2>2. queue[m] \in Nodes
    BY QueueEntries
  <2>3. queue[m] = v /\ p = o
    BY <1>3, <2>1, <2>2 DEF GraphInv, OneParent
  <2> QED
    BY <2>1, <2>3
<1> QED
  BY <1>1, <1>2, <1>3, QueueEntries DEF Root

\* Telling some nodes what they will be given changes no wire.
LEMMA ExpectingKeeps ==
  ASSUME GraphInv, NEW targets, stage \in Stage, nodes' = Expecting(targets)
  PROVE  /\ SameWires /\ nodes' \in Seq(Node) /\ Nodes' = Nodes
         /\ \A j \in Nodes : nodes'[j].expected_in = IF j \in targets THEN stage.out_type
                                                                     ELSE nodes[j].expected_in
         /\ \A j \in Nodes : nodes'[j].pass_invalid = nodes[j].pass_invalid
<1>1. \A j \in Nodes : nodes[j] \in Node
  BY QueueEntries
<1>2. stage.out_type \in Type
  BY StageAssumption
<1> DEFINE new(j) == IF j \in targets THEN [nodes[j] EXCEPT !.expected_in = stage.out_type]
                                       ELSE nodes[j]
<1>3. ASSUME NEW j \in Nodes
      PROVE  /\ new(j) \in Node
             /\ new(j).id = nodes[j].id /\ new(j).in_degree = nodes[j].in_degree
             /\ new(j).invalid_target = nodes[j].invalid_target
             /\ new(j).port_target = nodes[j].port_target
             /\ new(j).pass_invalid = nodes[j].pass_invalid
             /\ new(j).expected_in = IF j \in targets THEN stage.out_type
                                                      ELSE nodes[j].expected_in
  BY <1>1, <1>2 DEF Node
<1>4. nodes' = [j \in Nodes |-> new(j)]
  BY DEF Expecting
<1> HIDE DEF new
<1>5. nodes' \in Seq(Node) /\ Len(nodes') = Len(nodes)
  <2>1. nodes' \in [1 .. Len(nodes) -> Node] /\ Len(nodes) \in Nat
    BY <1>3, <1>4, QueueEntries DEF Nodes
  <2> QED
    BY <2>1
<1>6. \A j \in Nodes : nodes'[j] = new(j)
  BY <1>4
<1> QED
  BY <1>3, <1>5, <1>6 DEF SameWires, Nodes

\* The node being visited has its slot filled and its invalid edge resolved
\* (graph_config.c:364-395).
LEMMA RecordStageKeepsInv == ASSUME GraphInv, RecordStage PROVE GraphInv'
<1> DEFINE v == Visited
           inv == nodes[v].invalid_target
           slot == [stage |-> stage, children |-> <<>>, invalid_child |-> inv,
                    pass_invalid |-> nodes[v].pass_invalid]
<1>1. /\ phase = "init" /\ phase' = "ports" /\ stage.port_count <= MaxPorts
      /\ chain' = [i \in DOMAIN chain \cup {v} |-> IF i = v THEN slot ELSE chain[i]]
      /\ nodes' = Expecting({inv})
      /\ queue' = IF inv = 0 THEN queue ELSE Append(queue, inv)
      /\ UNCHANGED <<edges, taken, stage, alive>>
  BY DEF RecordStage, InvalidChild
<1>2. /\ Passing /\ Filled = taken - 1 /\ taken \in 1 .. Len(queue) /\ Filled' = taken
      /\ v = queue[taken] /\ v \in Nodes /\ stage \in Stage
  BY <1>1, QueueEntries DEF GraphInv, ChainIsFilled, SlotsRight, Passing, Filled, Visited
<1>3. DOMAIN chain = {queue[n] : n \in 1 .. taken - 1}
  BY <1>2 DEF GraphInv, ChainIsFilled
<1>4. v \notin DOMAIN chain /\ DOMAIN chain \subseteq Nodes
  BY <1>2, <1>3, QueueEntries DEF GraphInv, NoRepeats
<1>5. /\ SameWires /\ nodes' \in Seq(Node) /\ Nodes' = Nodes
      /\ \A j \in Nodes : nodes'[j].expected_in = IF j = inv THEN stage.out_type
                                                            ELSE nodes[j].expected_in
      /\ \A j \in Nodes : nodes'[j].pass_invalid = nodes[j].pass_invalid
  <2> HIDE DEF v, inv
  <2>1. \A j \in Nodes : nodes'[j].expected_in = IF j \in {inv} THEN stage.out_type
                                                  ELSE nodes[j].expected_in
    BY <1>1, <1>2, ExpectingKeeps
  <2> QED
    BY <1>1, <1>2, <2>1, ExpectingKeeps
<1>6. Invalid \in Out /\ inv = Target(v, Invalid) /\ (inv = 0 \/ inv \in Nodes)
  <2>1. Invalid \in Out /\ inv = Target(v, Invalid)
    BY DEF Out, Target
  <2> HIDE DEF v, inv
  <2>2. inv \in 0 .. Len(nodes)
    BY <1>2, <2>1 DEF GraphInv, GraphType
  <2> QED
    BY <2>1, <2>2, QueueEntries DEF Nodes
<1>7. /\ slot.stage = stage /\ slot.invalid_child = inv /\ inv = nodes[v].invalid_target
       /\ slot \in Instance
  <2>1. nodes[v].pass_invalid \in BOOLEAN /\ inv \in 0 .. MaxNodes
    BY <1>2, QueueEntries DEF Node
  <2>2. <<>> \in Seq(Slot)
    OBVIOUS
  <2> QED
    BY <1>2, <2>1, <2>2 DEF Instance
<1> HIDE DEF v, inv, slot
<1>8. inv # 0 => /\ inv # Root
                 /\ \A n \in 1 .. Len(queue) : queue[n] # inv
  <2>1. ~Resolved(v, Invalid)
    BY <1>4 DEF Resolved
  <2> QED
    BY <1>2, <1>6, <2>1, FreshTarget
<1>9. /\ Len(queue') = IF inv = 0 THEN Len(queue) ELSE Len(queue) + 1
      /\ \A n \in 1 .. Len(queue) : queue'[n] = queue[n]
      /\ inv # 0 => queue'[Len(queue) + 1] = inv
      /\ queue' \in Seq(Nodes)
  BY <1>1, <1>6 DEF GraphInv, GraphType
<1>10. /\ Visited' = v /\ Root' = Root /\ Root \in Nodes
      /\ \A i \in Nodes, o \in Out : Target(i, o)' = Target(i, o)
  BY <1>1, <1>2, <1>5, <1>9, QueueEntries, TargetsStay DEF Visited, Root
<1>11. /\ DOMAIN chain' = DOMAIN chain \cup {v}
       /\ \A i \in DOMAIN chain : chain'[i] = chain[i] /\ i # v
       /\ chain'[v] = slot
  BY <1>1, <1>4
<1>12. /\ \A i : Pending(i)' <=> i = v
       /\ \A i : ~Pending(i)
       /\ \A i, o : Resolved(i, o)' <=> Resolved(i, o) \/ (i = v /\ o = Invalid)
  BY <1>1, <1>4, <1>10, <1>11 DEF Pending, Resolved
<1>13. GraphType'
  <2>1. taken' \in 0 .. Len(queue')
    BY <1>1, <1>2, <1>9, QueueEntries
  <2>2. (\A i \in Nodes, o \in Out : Target(i, o) \in 0 .. Len(nodes))'
    BY <1>5, <1>10 DEF GraphInv, GraphType, SameWires
  <2> QED
    BY <1>1, <1>5, <1>9, <2>1, <2>2 DEF GraphInv, GraphType, Phase, SameWires
<1>14. Wires'
  BY <1>1, <1>5, WiresStay DEF GraphInv
<1>15. Before'
  BY <1>1 DEF Before, Passing
<1>16. OneParent'
  <2>1. queue' # <<>>
    BY <1>2, <1>9, EmptySeq
  <2> QED
    BY <1>2, <1>5, <1>10, <2>1 DEF GraphInv, OneParent
<1>17. NoRepeats'
  BY <1>8, <1>9, QueueEntries DEF GraphInv, NoRepeats
<1>18. QueueFrom'
  <2> SUFFICES ASSUME NEW n \in 2 .. Len(queue')
               PROVE  \E m \in 1 .. n - 1, o \in Out :
                        (Resolved(queue[m], o) /\ Target(queue[m], o) = queue[n])'
    BY DEF QueueFrom
  <2>1. CASE n <= Len(queue)
    <3>1. PICK m \in 1 .. n - 1, o \in Out :
            Resolved(queue[m], o) /\ Target(queue[m], o) = queue[n]
      BY <1>2, <2>1, QueueEntries DEF GraphInv, QueueFrom
    <3>2. queue'[m] = queue[m] /\ queue[m] \in Nodes /\ queue'[n] = queue[n]
      BY <1>9, <2>1, QueueEntries
    <3> QED
      BY <1>10, <1>12, <3>1, <3>2
  <2>2. CASE n = Len(queue) + 1 /\ inv # 0
    <3>1. taken \in 1 .. n - 1 /\ queue'[taken] = v /\ queue'[n] = inv
      BY <1>2, <1>9, <2>2, QueueEntries
    <3> QED
      BY <1>2, <1>6, <1>10, <1>12, <3>1
  <2> QED
    BY <1>9, <2>1, <2>2, QueueEntries
<1>19. ChainIsFilled'
  <2>1. {queue'[n] : n \in 1 .. taken} = {queue[n] : n \in 1 .. taken}
    BY <1>2, <1>9, QueueEntries
  <2>2. DOMAIN chain' = {queue[n] : n \in 1 .. taken}
    BY <1>2, <1>3, <1>11, QueueEntries
  <2>3. \A i \in Slot : alive[i] = IF i \in {queue[n] : n \in 1 .. taken} THEN 1 ELSE 0
    BY <1>2 DEF GraphInv, ChainIsFilled
  <2> QED
    BY <1>1, <1>2, <2>1, <2>2, <2>3 DEF ChainIsFilled
<1>20. SlotsRight'
  <2>1. ASSUME NEW i, i = v PROVE SlotFilled(i)'
    BY <1>1, <1>2, <1>5, <1>7, <1>11, <2>1 DEF SlotFilled, SameWires
  <2>2. ASSUME NEW i \in DOMAIN chain
        PROVE  SlotFilled(i)' /\ (~Pending(i)' => SlotWired(i)')
    <3>1. /\ chain'[i] = chain[i] /\ i \in Nodes
          /\ nodes'[i].invalid_target = nodes[i].invalid_target
          /\ nodes'[i].port_target = nodes[i].port_target
      BY <1>4, <1>5, <1>11 DEF SameWires
    <3>2. SlotFilled(i) /\ SlotWired(i)
      BY <1>12 DEF GraphInv, SlotsRight
    <3> QED
      BY <3>1, <3>2 DEF SlotFilled, SlotWired
  <2> QED
    BY <1>1, <1>7, <1>10, <1>11, <1>12, <2>1, <2>2 DEF SlotsRight
<1>21. TypesFlow'
  <2>1. (Passing => nodes[Root].expected_in = RawRecord)'
    <3>1. Root # inv
      BY <1>8, <1>10, QueueEntries DEF Nodes
    <3>2. nodes[Root].expected_in = RawRecord
      BY <1>2 DEF GraphInv, TypesFlow
    <3> QED
      BY <1>5, <1>10, <3>1, <3>2
  <2>2. ASSUME NEW i \in DOMAIN chain', NEW o \in Out, Resolved(i, o)', Target(i, o)' # 0
        PROVE  nodes'[Target(i, o)'].expected_in = chain'[i].stage.out_type
    <3>1. i \in Nodes /\ Target(i, o)' = Target(i, o) /\ Target(i, o) \in Nodes
      BY <1>2, <1>4, <1>10, <1>11, <2>2 DEF GraphInv, GraphType, Nodes
    <3>2. CASE i = v
      BY <1>4, <1>5, <1>6, <1>7, <1>11, <1>12, <2>2, <3>1, <3>2 DEF Resolved
    <3>3. CASE i # v
      <4>1. Target(i, o) # inv
        BY <1>2, <1>6, <2>2, <3>1, <3>3 DEF GraphInv, OneParent
      <4>2. i \in DOMAIN chain /\ Resolved(i, o)
        BY <1>11, <1>12, <2>2, <3>3
      <4> QED
        BY <1>5, <1>11, <2>2, <3>1, <4>1, <4>2 DEF GraphInv, TypesFlow
    <3> QED
      BY <3>2, <3>3
  <2>3. ASSUME NEW i \in DOMAIN chain'
        PROVE  nodes'[i].expected_in \in chain'[i].stage.in_types
    <3>1. i \in Nodes /\ i # inv
      BY <1>2, <1>3, <1>4, <1>8, <1>11, QueueEntries DEF Nodes
    <3>2. nodes'[i].expected_in = nodes[i].expected_in
      BY <1>5, <3>1
    <3>3. CASE i = v
      BY <1>1, <1>7, <1>11, <3>2, <3>3 DEF GraphInv, TypesFlow, Visited, v
    <3>4. CASE i \in DOMAIN chain
      BY <1>11, <3>2, <3>4 DEF GraphInv, TypesFlow
    <3> QED
      BY <1>11, <3>3, <3>4
  <2> QED
    BY <1>1, <2>1, <2>2, <2>3 DEF TypesFlow
<1> QED
  BY <1>13, <1>14, <1>15, <1>16, <1>17, <1>18, <1>19, <1>20, <1>21 DEF GraphInv

\* The ports of the node being visited are resolved, every one it declares and no
\* other (graph_config.c:397-420).
LEMMA ResolvePortsKeepsInv == ASSUME GraphInv, ResolvePorts PROVE GraphInv'
<1>1. PICK v, pc, targets :
        /\ v = Visited /\ pc = stage.port_count
        /\ targets = [k \in 1 .. pc |-> nodes[v].port_target[k - 1]]
  OBVIOUS
<1>2. /\ phase = "ports" /\ phase' = "visit" /\ Wired(v)
      /\ chain' = [chain EXCEPT ![v].children = targets]
      /\ nodes' = Expecting({targets[k] : k \in 1 .. pc})
      /\ queue' = queue \o targets
      /\ UNCHANGED <<edges, taken, stage, alive>>
  BY <1>1 DEF ResolvePorts
<1>3. /\ Passing /\ Filled = taken /\ taken \in 1 .. Len(queue) /\ Filled' = taken
      /\ v = queue[taken] /\ v \in Nodes
  BY <1>1, <1>2, QueueEntries DEF GraphInv, ChainIsFilled, Passing, Filled, Visited
<1>4. DOMAIN chain = {queue[n] : n \in 1 .. taken} /\ DOMAIN chain \subseteq Nodes
  BY <1>3, QueueEntries DEF GraphInv, ChainIsFilled
<1>5. /\ v \in DOMAIN chain /\ chain[v].stage = stage /\ SlotFilled(v)
      /\ stage \in Stage /\ pc \in Nat /\ pc <= MaxPorts
  <2>1. v \in DOMAIN chain
    BY <1>3, <1>4
  <2>2. chain[v].stage = stage /\ SlotFilled(v)
    BY <1>1, <1>2, <2>1 DEF GraphInv, SlotsRight
  <2> QED
    BY <1>1, <2>1, <2>2, StageAssumption DEF SlotFilled, Instance
<1>6. Invalid \notin Port /\ Invalid \in Out /\ Port \subseteq Out
  BY LimitsAssumption DEF Invalid, Port, Out
<1>7. /\ \A i : Pending(i) <=> i = v
      /\ \A i : ~Pending(i)'
  BY <1>1, <1>2 DEF Pending
<1>8. ASSUME NEW k \in 1 .. pc
      PROVE  /\ k - 1 \in Port /\ targets[k] = Target(v, k - 1)
             /\ targets[k] \in Nodes /\ targets[k] # Root
             /\ \A n \in 1 .. Len(queue) : queue[n] # targets[k]
  <2>1. k - 1 \in Port /\ k - 1 < pc
    BY <1>5, LimitsAssumption DEF Port
  <2>2. targets[k] = Target(v, k - 1)
    BY <1>1, <1>6, <2>1 DEF Target
  <2>3. Target(v, k - 1) # 0
    BY <1>1, <1>2, <1>6, <2>1 DEF Wired, Target
  <2>4. ~Resolved(v, k - 1)
    BY <1>6, <1>7, <2>1 DEF Resolved
  <2> QED
    BY <1>3, <1>6, <2>1, <2>2, <2>3, <2>4, FreshTarget
<1>9. \A k, l \in 1 .. pc : targets[k] = targets[l] => k = l
  <2> SUFFICES ASSUME NEW k \in 1 .. pc, NEW l \in 1 .. pc, targets[k] = targets[l] PROVE k = l
    OBVIOUS
  <2>1. Target(v, k - 1) = Target(v, l - 1) /\ Target(v, k - 1) # 0
    BY <1>8, QueueEntries DEF Nodes
  <2>2. k - 1 = l - 1
    BY <1>3, <1>6, <1>8, <2>1 DEF GraphInv, OneParent
  <2> QED
    BY <1>5, <2>2
<1>10. targets \in Seq(Nodes) /\ Len(targets) = pc
  <2>1. targets \in [1 .. pc -> Nodes]
    BY <1>1, <1>8
  <2> QED
    BY <1>5, <2>1
<1>11. /\ Len(queue') = Len(queue) + pc /\ queue' \in Seq(Nodes)
       /\ \A n \in 1 .. Len(queue) : queue'[n] = queue[n]
       /\ \A k \in 1 .. pc : queue'[Len(queue) + k] = targets[k]
  <2>1. queue \in Seq(Nodes)
    BY DEF GraphInv, GraphType
  <2>2. /\ queue \o targets \in Seq(Nodes) /\ Len(queue \o targets) = Len(queue) + Len(targets)
        /\ \A n \in 1 .. Len(queue) : (queue \o targets)[n] = queue[n]
        /\ \A k \in 1 .. Len(targets) : (queue \o targets)[Len(queue) + k] = targets[k]
    BY <1>10, <2>1
  <2>3. PICK q : q = queue \o targets
    OBVIOUS
  <2>4. q \in Seq(Nodes) /\ Len(q) = Len(queue) + Len(targets)
    BY <2>2, <2>3, Zenon
  <2>5. /\ \A n \in 1 .. Len(queue) : q[n] = queue[n]
        /\ \A k \in 1 .. Len(targets) : q[Len(queue) + k] = targets[k]
    BY <2>2, <2>3, Zenon
  <2>6. queue' = q /\ Len(targets) = pc
    BY <1>2, <1>10, <2>3, Zenon
  <2> QED
    BY <2>4, <2>5, <2>6
<1> DEFINE Told == {targets[k] : k \in 1 .. pc}
<1>12. /\ SameWires /\ nodes' \in Seq(Node) /\ Nodes' = Nodes
       /\ \A j \in Nodes : nodes'[j].expected_in = IF j \in Told THEN stage.out_type
                                                                 ELSE nodes[j].expected_in
  BY <1>2, <1>5, ExpectingKeeps
<1>13. Told \subseteq Nodes /\ Root \notin Told /\ \A n \in 1 .. Len(queue) : queue[n] \notin Told
  BY <1>8
<1>14. \A o \in Out : Target(v, o) \in Told <=> o \in Port /\ Target(v, o) # 0
  <2>1. ASSUME NEW o \in Port, Target(v, o) # 0 PROVE Target(v, o) \in Told
    <3>1. nodes[v].port_target[o] # 0
      BY <1>6, <2>1 DEF Target
    <3>2. o < pc
      BY <1>1, <1>2, <3>1 DEF Wired
    <3>3. o + 1 \in 1 .. pc /\ (o + 1) - 1 = o
      BY <1>5, <3>2, LimitsAssumption DEF Port
    <3> QED
      BY <1>8, <3>3
  <2>2. ASSUME NEW o \in Out, NEW k \in 1 .. pc, Target(v, o) = targets[k]
        PROVE  o \in Port /\ Target(v, o) # 0
    <3>1. Target(v, k - 1) # 0
      BY <1>8, QueueEntries DEF Nodes
    <3>2. o = k - 1
      BY <1>3, <1>6, <1>8, <2>2, <3>1 DEF GraphInv, OneParent
    <3> QED
      BY <1>8, <2>2, <3>1, <3>2
  <2> QED
    BY <1>6, <2>1, <2>2
<1>15. \A i \in Nodes, o \in Out : i # v => Target(i, o) \notin Told
  <2> SUFFICES ASSUME NEW i \in Nodes, NEW o \in Out, NEW k \in 1 .. pc, Target(i, o) = targets[k]
               PROVE  i = v
    OBVIOUS
  <2>1. Target(v, k - 1) # 0
    BY <1>8, QueueEntries DEF Nodes
  <2> QED
    BY <1>3, <1>6, <1>8, <2>1 DEF GraphInv, OneParent
<1> HIDE DEF Told
<1>16. /\ Root' = Root /\ Root \in Nodes
       /\ \A i \in Nodes, o \in Out : Target(i, o)' = Target(i, o)
  BY <1>3, <1>11, <1>12, QueueEntries, TargetsStay DEF Root
<1>17. /\ DOMAIN chain' = DOMAIN chain
       /\ \A i \in DOMAIN chain : i # v => chain'[i] = chain[i]
       /\ chain'[v] = [chain[v] EXCEPT !.children = targets]
  BY <1>2, <1>5
<1>18. /\ chain'[v] \in Instance /\ chain'[v].stage = stage /\ chain'[v].children = targets
       /\ chain'[v].invalid_child = chain[v].invalid_child
  <2>1. chain[v] \in Instance /\ targets \in Seq(Slot)
    BY <1>5, <1>10, QueueEntries, SeqMonotonic DEF SlotFilled
  <2> QED
    BY <1>5, <1>17, <2>1 DEF Instance
<1>19. \A i, o : Resolved(i, o)' <=> i \in DOMAIN chain
  BY <1>7, <1>17 DEF Resolved
<1>20. GraphType'
  <2>1. taken' \in 0 .. Len(queue')
    BY <1>2, <1>3, <1>5, <1>11, QueueEntries
  <2>2. (\A i \in Nodes, o \in Out : Target(i, o) \in 0 .. Len(nodes))'
    BY <1>12, <1>16 DEF GraphInv, GraphType, SameWires
  <2> QED
    BY <1>2, <1>11, <1>12, <2>1, <2>2 DEF GraphInv, GraphType, Phase, SameWires
<1>21. Wires'
  BY <1>2, <1>12, WiresStay DEF GraphInv
<1>22. Before'
  BY <1>2 DEF Before, Passing
<1>23. OneParent'
  <2>1. queue' # <<>>
    BY <1>3, <1>5, <1>11, EmptySeq
  <2>2. /\ \A i, k \in Nodes : \A o, p \in Out :
             Target(i, o) # 0 /\ Target(i, o) = Target(k, p) => i = k /\ o = p
        /\ \A i \in Nodes, o \in Out : Target(i, o) # Root
        /\ \A j \in Nodes : j # Root => \E i \in Nodes, o \in Out : Target(i, o) = j
    BY <1>3 DEF GraphInv, OneParent
  <2> QED
    BY <1>12, <1>16, <2>1, <2>2 DEF OneParent
<1>24. NoRepeats'
  <2> SUFFICES ASSUME NEW m \in 1 .. Len(queue'), NEW n \in 1 .. Len(queue'),
                      queue'[m] = queue'[n]
               PROVE  m = n
    BY DEF NoRepeats
  <2>1. ASSUME NEW x \in 1 .. Len(queue'), x > Len(queue)
        PROVE  x - Len(queue) \in 1 .. pc /\ queue'[x] = targets[x - Len(queue)]
    <3>1. PICK l \in Nat : l = Len(queue)
      BY QueueEntries
    <3>2. Len(queue') = l + pc /\ \A k \in 1 .. pc : queue'[l + k] = targets[k]
      BY <1>11, <3>1
    <3>3. x - l \in 1 .. pc /\ l + (x - l) = x
      BY <1>5, <2>1, <3>1, <3>2
    <3> QED
      BY <3>1, <3>2, <3>3
  <2>2. CASE m <= Len(queue) /\ n <= Len(queue)
    BY <1>11, <2>2, QueueEntries DEF GraphInv, NoRepeats
  <2>3. CASE m > Len(queue) /\ n > Len(queue)
    <3>1. m - Len(queue) = n - Len(queue)
      BY <1>9, <2>1, <2>3
    <3> QED
      BY <3>1, QueueEntries
  <2>4. CASE m <= Len(queue) /\ n > Len(queue)
    BY <1>8, <1>11, <2>1, <2>4, QueueEntries
  <2>5. CASE m > Len(queue) /\ n <= Len(queue)
    BY <1>8, <1>11, <2>1, <2>5, QueueEntries
  <2> QED
    BY <1>5, <1>11, <2>2, <2>3, <2>4, <2>5, QueueEntries
<1>25. QueueFrom'
  <2> SUFFICES ASSUME NEW n \in 2 .. Len(queue')
               PROVE  \E m \in 1 .. n - 1, o \in Out :
                        (Resolved(queue[m], o) /\ Target(queue[m], o) = queue[n])'
    BY DEF QueueFrom
  <2>1. CASE n <= Len(queue)
    <3>1. PICK m \in 1 .. n - 1, o \in Out :
            Resolved(queue[m], o) /\ Target(queue[m], o) = queue[n]
      BY <1>3, <2>1, QueueEntries DEF GraphInv, QueueFrom
    <3>2. queue'[m] = queue[m] /\ queue[m] \in Nodes /\ queue'[n] = queue[n]
      BY <1>11, <2>1, QueueEntries
    <3>3. queue[m] \in DOMAIN chain
      BY <3>1 DEF Resolved
    <3> QED
      BY <1>16, <1>19, <3>1, <3>2, <3>3
  <2>2. CASE n > Len(queue)
    <3>1. PICK k \in 1 .. pc : n = Len(queue) + k
      <4>1. n - Len(queue) \in 1 .. pc /\ n = Len(queue) + (n - Len(queue))
        BY <1>5, <1>11, <2>2, QueueEntries
      <4> QED
        BY <4>1
    <3>2. taken \in 1 .. n - 1 /\ queue'[taken] = v /\ queue'[n] = targets[k]
      BY <1>3, <1>11, <2>2, <3>1, QueueEntries
    <3>3. k - 1 \in Out /\ Target(v, k - 1)' = targets[k]
      BY <1>3, <1>6, <1>8, <1>16
    <3> QED
      BY <1>5, <1>19, <3>2, <3>3
  <2> QED
    BY <1>5, <1>11, <2>1, <2>2, QueueEntries
<1>26. ChainIsFilled'
  <2>1. {queue'[n] : n \in 1 .. taken} = {queue[n] : n \in 1 .. taken}
    BY <1>3, <1>11, QueueEntries
  <2>2. \A i \in Slot : alive[i] = IF i \in {queue[n] : n \in 1 .. taken} THEN 1 ELSE 0
    BY <1>3 DEF GraphInv, ChainIsFilled
  <2>3. PICK T : T = {queue[n] : n \in 1 .. taken}
    OBVIOUS
  <2>4. {queue'[n] : n \in 1 .. taken'} = T /\ {queue'[n] : n \in 1 .. Filled'} = T
    BY <1>2, <1>3, <2>1, <2>3, Zenon
  <2>5. DOMAIN chain' = T
    BY <1>4, <1>17, <2>3, Zenon
  <2>6. \A i \in Slot : alive'[i] = IF i \in T THEN 1 ELSE 0
    BY <1>2, <2>2, <2>3, Zenon
  <2>7. phase' \notin {"init", "ports"} /\ phase' # "accepted"
    BY <1>2
  <2> QED
    BY <2>4, <2>5, <2>6, <2>7, Zenon DEF ChainIsFilled
<1>27. SlotsRight'
  <2>1. ASSUME NEW i \in DOMAIN chain
        PROVE  /\ nodes'[i].invalid_target = nodes[i].invalid_target
               /\ nodes'[i].port_target = nodes[i].port_target
    BY <1>4, <1>12 DEF SameWires
  <2>2. ASSUME NEW i \in DOMAIN chain, i # v PROVE SlotFilled(i)' /\ SlotWired(i)'
    <3>1. SlotFilled(i) /\ SlotWired(i)
      BY <1>7, <2>2 DEF GraphInv, SlotsRight
    <3>2. chain'[i] = chain[i]
      BY <1>17, <2>2
    <3>3. SlotFilled(i)'
      BY <2>1, <3>1, <3>2 DEF SlotFilled
    <3>4. SlotWired(i)'
      BY <2>1, <3>1, <3>2 DEF SlotWired
    <3> QED
      BY <3>3, <3>4
  <2>3. ASSUME NEW i, i = v PROVE SlotFilled(i)' /\ SlotWired(i)'
    <3>1. /\ chain'[i].invalid_child = chain[i].invalid_child
          /\ nodes'[i].invalid_target = nodes[i].invalid_target
          /\ nodes'[i].port_target = nodes[i].port_target
      BY <1>5, <1>18, <2>1, <2>3
    <3>2. SlotFilled(i)'
      BY <1>5, <1>18, <2>3, <3>1 DEF SlotFilled
    <3>3. SlotWired(i)'
      <4>1. chain'[v].stage = stage /\ chain'[v].children = targets
        BY <1>18
      <4>2. \A k \in Port : k < pc <=> nodes[v].port_target[k] # 0
        BY <1>1, <1>2 DEF Wired
      <4>3. nodes'[v].port_target = nodes[v].port_target
        BY <2>3, <3>1
      <4> QED
        BY <1>1, <2>3, <4>1, <4>2, <4>3 DEF SlotWired
    <3> QED
      BY <3>2, <3>3
  <2> QED
    BY <1>2, <1>17, <2>2, <2>3 DEF SlotsRight
<1>28. TypesFlow'
  <2>1. (Passing => nodes[Root].expected_in = RawRecord)'
    <3>1. nodes[Root].expected_in = RawRecord
      BY <1>3 DEF GraphInv, TypesFlow
    <3> QED
      BY <1>12, <1>13, <1>16, <3>1
  <2>2. \A i \in DOMAIN chain : chain'[i].stage = chain[i].stage
    BY <1>5, <1>17, <1>18
  <2>3. ASSUME NEW i \in DOMAIN chain, NEW o \in Out, Target(i, o)' # 0
        PROVE  nodes'[Target(i, o)'].expected_in = chain'[i].stage.out_type
    <3>1. i \in Nodes /\ Target(i, o)' = Target(i, o) /\ Target(i, o) \in Nodes
      <4>1. i \in Nodes /\ Target(i, o)' = Target(i, o)
        BY <1>4, <1>16
      <4>2. Target(i, o) \in 0 .. Len(nodes) /\ Len(nodes) \in Nat
        BY <4>1 DEF GraphInv, GraphType
      <4> QED
        BY <2>3, <4>1, <4>2 DEF Nodes
    <3>2. CASE Target(i, o) \in Told
      <4>1. i = v
        BY <1>15, <3>1, <3>2
      <4> QED
        BY <1>5, <1>12, <2>2, <3>1, <3>2, <4>1
    <3>3. CASE Target(i, o) \notin Told
      <4>1. Resolved(i, o)
        BY <1>7, <1>14, <2>3, <3>1, <3>3 DEF Resolved, Out
      <4> QED
        BY <1>12, <2>2, <2>3, <3>1, <3>3, <4>1 DEF GraphInv, TypesFlow
    <3> QED
      BY <3>2, <3>3
  <2>4. ASSUME NEW i \in DOMAIN chain
        PROVE  nodes'[i].expected_in \in chain'[i].stage.in_types
    <3>1. i \in Nodes /\ i \notin Told
      BY <1>3, <1>4, <1>13, QueueEntries
    <3> QED
      BY <1>12, <2>2, <3>1 DEF GraphInv, TypesFlow
  <2>5. (\A i \in DOMAIN chain, o \in Out :
           Resolved(i, o) /\ Target(i, o) # 0 =>
             nodes[Target(i, o)].expected_in = chain[i].stage.out_type)'
    BY <1>17, <2>3, Zenon
  <2>6. (\A i \in DOMAIN chain : nodes[i].expected_in \in chain[i].stage.in_types)'
    BY <1>17, <2>4, Zenon
  <2>7. phase' # "init"
    BY <1>2
  <2> QED
    BY <2>1, <2>5, <2>6, <2>7, Zenon DEF TypesFlow
<1> QED
  BY <1>20, <1>21, <1>22, <1>23, <1>24, <1>25, <1>26, <1>27, <1>28 DEF GraphInv

LEMMA GraphStepKeepsInv == GraphInv /\ [GraphNext]_graphVars => GraphInv'
<1> SUFFICES ASSUME GraphInv, [GraphNext]_graphVars PROVE GraphInv'
  OBVIOUS
<1>1. CASE UNCHANGED graphVars
  <2>1. GraphType'
    <3>1. SameWires
      BY <1>1 DEF graphVars, SameWires
    <3> QED
      BY <1>1, <3>1, TargetsStay DEF graphVars, GraphInv, GraphType
  <2>2. Wires'
    BY <1>1, WiresStay DEF graphVars, GraphInv, SameWires
  <2>3. Before' /\ OneParent'
    BY <1>1 DEF graphVars, GraphInv, Before, OneParent, Passing, Target, Nodes, Root
  <2>4. NoRepeats' /\ QueueFrom'
    BY <1>1 DEF graphVars, GraphInv, NoRepeats, QueueFrom, Passing, Resolved, Pending, Visited,
                Target
  <2>5. ChainIsFilled'
    BY <1>1 DEF graphVars, GraphInv, ChainIsFilled, Passing, Filled
  <2>6. SlotsRight'
    BY <1>1 DEF graphVars, GraphInv, SlotsRight, SlotFilled, SlotWired, Pending, Visited
  <2>7. TypesFlow'
    BY <1>1 DEF graphVars, GraphInv, TypesFlow, Passing, Resolved, Pending, Visited, Target, Root
  <2> QED
    BY <2>1, <2>2, <2>3, <2>4, <2>5, <2>6, <2>7 DEF GraphInv
<1> QED
  BY <1>1, ReadNodeKeepsInv, NodesReadKeepsInv, ReadInvalidEdgeKeepsInv, ReadPortEdgeKeepsInv,
     EdgesReadKeepsInv, InitStageKeepsInv, RejectsKeepInv, RecordStageKeepsInv,
     ResolvePortsKeepsInv, VisitedAllKeepsInv
     DEF GraphNext

LEMMA GraphSpecKeepsInv == GraphSpec => []GraphInv
BY GraphStarts, GraphStepKeepsInv, PTL DEF GraphSpec

-------------------------------------------------------------------------------
\* What the invariant says of an accepted graph.

LEMMA QueueInjects ==
  ASSUME GraphInv
  PROVE  /\ Len(queue) <= Len(nodes)
         /\ Len(queue) = Len(nodes) => {queue[n] : n \in 1 .. Len(queue)} = Nodes
<1> DEFINE S == 1 .. Len(queue)
           f == [n \in S |-> queue[n]]
<1>1. f \in Injection(S, Nodes)
  <2>1. f \in [S -> Nodes]
    BY QueueEntries
  <2>2. \A m, n \in S : f[m] = f[n] => m = n
    BY DEF GraphInv, NoRepeats
  <2> HIDE DEF f, S
  <2> QED
    BY <2>1, <2>2 DEF Injection, IsInjective
<1>2. IsFiniteSet(S) /\ Cardinality(S) = Len(queue)
  <2>1. Len(queue) \in Nat
    BY QueueEntries
  <2> QED
    BY <2>1, UpTo, Zenon
<1>3. IsFiniteSet(Nodes) /\ Cardinality(Nodes) = Len(nodes)
  BY RefsFinite DEF GraphInv
<1>4. /\ Cardinality(S) <= Cardinality(Nodes)
      /\ Cardinality(S) = Cardinality(Nodes) <=> f \in Surjection(S, Nodes)
  <2> HIDE DEF f, S
  <2> QED
    BY <1>1, <1>3, FS_Injection
<1>5. f \in Surjection(S, Nodes) => Nodes \subseteq {queue[n] : n \in S}
  BY DEF Surjection
<1> QED
  BY <1>2, <1>3, <1>4, <1>5, QueueEntries

LEMMA AcceptedSlots ==
  ASSUME GraphInv, phase = "accepted"
  PROVE  /\ DOMAIN chain = Nodes /\ Root \in Nodes /\ 0 \notin Nodes
         /\ {queue[n] : n \in 1 .. Len(queue)} = Nodes
         /\ \A i \in Nodes : /\ SlotFilled(i) /\ SlotWired(i)
                             /\ \A o \in Out : Resolved(i, o)
                             /\ chain[i].stage \in Stage
<1>1. Passing /\ taken = Len(queue) /\ Len(queue) = Len(nodes) /\ Filled = taken
  BY DEF GraphInv, ChainIsFilled, Passing, Filled
<1>2. {queue[n] : n \in 1 .. Len(queue)} = Nodes
  BY <1>1, QueueInjects
<1>3. DOMAIN chain = Nodes
  BY <1>1, <1>2 DEF GraphInv, ChainIsFilled
<1>4. \A i : ~Pending(i)
  BY DEF Pending
<1>5. \A i \in Nodes : SlotFilled(i) /\ SlotWired(i) /\ \A o \in Out : Resolved(i, o)
  BY <1>3, <1>4 DEF GraphInv, SlotsRight, Resolved
<1> QED
  BY <1>1, <1>2, <1>3, <1>5, QueueEntries DEF SlotFilled, Instance, Nodes

\* Where a record can go from a node of an accepted graph is where its wires lead.
LEMMA KidsAreTargets ==
  ASSUME GraphInv, phase = "accepted", NEW i \in Nodes
  PROVE  /\ \A o \in Out : Target(i, o) # 0 => Target(i, o) \in Kids(i)
         /\ \A j \in Kids(i) : j \in Nodes /\ \E o \in Out : Target(i, o) = j
         /\ chain[i].invalid_child = Target(i, Invalid)
         /\ \A k \in 1 .. chain[i].stage.port_count :
              k - 1 \in Port /\ chain[i].children[k] = Target(i, k - 1)
<1>1. /\ SlotFilled(i) /\ SlotWired(i) /\ chain[i].stage \in Stage
  BY AcceptedSlots
<1>2. Invalid \notin Port /\ Invalid \in Out /\ Port \subseteq Out
  BY LimitsAssumption DEF Invalid, Port, Out
<1> DEFINE pc == chain[i].stage.port_count
<1>3. pc \in Nat /\ pc <= MaxPorts
  BY <1>1, StageAssumption DEF SlotFilled
<1>4. /\ \A k \in Port : k < pc <=> nodes[i].port_target[k] # 0
      /\ chain[i].children = [k \in 1 .. pc |-> nodes[i].port_target[k - 1]]
  BY <1>1 DEF SlotWired
<1> HIDE DEF pc
<1>5. \A k \in 1 .. pc : k - 1 \in Port /\ chain[i].children[k] = Target(i, k - 1)
  BY <1>2, <1>3, <1>4, LimitsAssumption DEF Port, Target
<1>6. chain[i].invalid_child = Target(i, Invalid)
  BY <1>1 DEF SlotFilled, Target
<1>7. DOMAIN chain[i].children = 1 .. pc
  BY <1>4
<1>8. ASSUME NEW o \in Out, Target(i, o) # 0 PROVE Target(i, o) \in Kids(i)
  <2>1. CASE o = Invalid
    BY <1>6, <1>8, <2>1 DEF Kids
  <2>2. CASE o \in Port
    <3>1. o + 1 \in 1 .. pc /\ (o + 1) - 1 = o
      BY <1>2, <1>3, <1>4, <1>8, <2>2, LimitsAssumption DEF Port, Target
    <3> QED
      BY <1>5, <1>7, <1>8, <3>1 DEF Kids
  <2> QED
    BY <2>1, <2>2 DEF Out
<1>9. ASSUME NEW j \in Kids(i) PROVE j \in Nodes /\ \E o \in Out : Target(i, o) = j
  <2>1. \E o \in Out : Target(i, o) = j
    BY <1>2, <1>5, <1>6, <1>7 DEF Kids
  <2>2. j # 0
    BY DEF Kids
  <2> QED
    BY <2>1, <2>2 DEF GraphInv, GraphType, Nodes
<1> QED
  BY <1>5, <1>6, <1>8, <1>9 DEF pc

\* From the root, the wires reach every node: a set that holds the root and is
\* closed under them would miss a queue entry of least position, but that one is
\* the target of an earlier one.
LEMMA RootReachesAll ==
  ASSUME GraphInv, phase = "accepted", NEW S \in SUBSET Nodes, Root \in S,
         \A i \in S : Kids(i) \subseteq S
  PROVE  S = Nodes
<1> DEFINE Missed == {n \in 1 .. Len(queue) : queue[n] \notin S}
<1>1. CASE Missed = {}
  BY <1>1, AcceptedSlots
<1>2. CASE Missed # {}
  <2>1. PICK n \in Missed : \A m \in Missed : n <= m
    <3>1. Missed \in SUBSET Nat
      BY QueueEntries
    <3> HIDE DEF Missed
    <3> QED
      BY <1>2, <3>1, LeastNat
  <2>2. n \in 2 .. Len(queue) /\ queue[n] \notin S
    BY <2>1, QueueEntries DEF Root
  <2>3. PICK m \in 1 .. n - 1, o \in Out : Target(queue[m], o) = queue[n]
    BY <2>2 DEF GraphInv, QueueFrom, Passing
  <2>4. m \in 1 .. Len(queue) /\ m \notin Missed
    BY <2>1, <2>2, <2>3, QueueEntries
  <2>5. queue[m] \in S /\ queue[m] \in Nodes /\ queue[n] # 0
    BY <2>2, <2>4, QueueEntries DEF Nodes
  <2>6. queue[n] \in Kids(queue[m])
    BY <2>3, <2>5, KidsAreTargets
  <2> QED
    BY <2>2, <2>5, <2>6
<1> QED
  BY <1>1, <1>2

LEMMA AcceptedTree == GraphInv => AcceptedIsTree
<1> SUFFICES ASSUME GraphInv, phase = "accepted"
             PROVE  /\ DOMAIN chain = Nodes
                    /\ \A i, j \in Nodes : nodes[i].id = nodes[j].id => i = j
                    /\ \A S \in SUBSET Nodes :
                         (Root \in S /\ \A i \in S : Kids(i) \subseteq S) => S = Nodes
                    /\ \A i, j \in Nodes : i # j => Kids(i) \cap Kids(j) = {}
                    /\ \A i \in Nodes : Root \notin Kids(i)
  BY Zenon DEF AcceptedIsTree
<1>1. Passing
  BY DEF Passing
<1>2. \A S \in SUBSET Nodes :
        (Root \in S /\ \A i \in S : Kids(i) \subseteq S) => S = Nodes
  BY RootReachesAll
<1>3. ASSUME NEW i \in Nodes, NEW j \in Nodes, i < j, nodes[i].id = nodes[j].id PROVE FALSE
  <2>1. nodes[j].in_degree = 0 /\ \A o \in Out : Target(j, o) = 0
    BY <1>3 DEF GraphInv, Wires
  <2>2. j = Root
    <3>1. \A k \in Nodes, o \in Out : Target(k, o) # j
      BY <2>1 DEF GraphInv, Wires
    <3> QED
      BY <1>1, <3>1 DEF GraphInv, OneParent
  <2>3. Kids(j) = {}
    BY <2>1, KidsAreTargets, AcceptedSlots
  <2>4. {j} = Nodes
    BY <1>2, <2>2, <2>3
  <2> QED
    BY <1>3, <2>4 DEF Nodes
<1>4. \A i, j \in Nodes : nodes[i].id = nodes[j].id => i = j
  <2> SUFFICES ASSUME NEW i \in Nodes, NEW j \in Nodes, nodes[i].id = nodes[j].id PROVE i = j
    OBVIOUS
  <2>1. ~(i < j) /\ ~(j < i)
    BY <1>3
  <2> QED
    BY <2>1 DEF Nodes
<1>5. ASSUME NEW i \in Nodes, NEW j \in Nodes, NEW k \in Kids(i), k \in Kids(j) PROVE i = j
  <2>1. PICK o \in Out : Target(i, o) = k
    BY KidsAreTargets
  <2>2. PICK p \in Out : Target(j, p) = k
    BY <1>5, KidsAreTargets
  <2>3. k # 0
    BY DEF Kids
  <2> QED
    BY <1>1, <2>1, <2>2, <2>3 DEF GraphInv, OneParent
<1>6. \A i \in Nodes : Root \notin Kids(i)
  BY <1>1, KidsAreTargets DEF GraphInv, OneParent
<1> QED
  BY <1>2, <1>4, <1>5, <1>6, AcceptedSlots

LEMMA AcceptedTypes == GraphInv => AcceptedTypesFit
<1> SUFFICES ASSUME GraphInv, phase = "accepted"
             PROVE  /\ RawRecord \in chain[Root].stage.in_types
                    /\ \A i \in Nodes : \A j \in Kids(i) :
                         chain[i].stage.out_type \in chain[j].stage.in_types
  BY Zenon DEF AcceptedTypesFit
<1>1. /\ Root \in Nodes /\ DOMAIN chain = Nodes
      /\ \A i \in Nodes : nodes[i].expected_in \in chain[i].stage.in_types
  BY AcceptedSlots DEF GraphInv, TypesFlow
<1>2. nodes[Root].expected_in = RawRecord
  BY DEF GraphInv, TypesFlow, Passing
<1>3. ASSUME NEW i \in Nodes, NEW j \in Kids(i)
      PROVE  chain[i].stage.out_type \in chain[j].stage.in_types
  <2>1. PICK o \in Out : Target(i, o) = j
    BY KidsAreTargets
  <2>2. j \in Nodes /\ j # 0 /\ Resolved(i, o)
    BY KidsAreTargets, AcceptedSlots
  <2>3. nodes[j].expected_in = chain[i].stage.out_type
    BY <1>1, <2>1, <2>2 DEF GraphInv, TypesFlow
  <2> QED
    BY <1>1, <2>2, <2>3
<1> QED
  BY <1>1, <1>2, <1>3

\* The wires that lead somewhere lead to every node but the root, one to each.
LEMMA RefsCount ==
  ASSUME GraphInv, Passing
  PROVE  Cardinality(Refs) = Len(nodes) - 1
<1> DEFINE f == [r \in Refs |-> Target(r[1], r[2])]
           T == Nodes \ {Root}
<1>1. \A r \in Refs : r[1] \in Nodes /\ r[2] \in Out /\ Target(r[1], r[2]) # 0 /\ r = <<r[1], r[2]>>
  BY DEF Refs
<1>2. f \in [Refs -> T]
  BY <1>1 DEF GraphInv, GraphType, OneParent, Nodes
<1>3. \A r, s \in Refs : f[r] = f[s] => r = s
  <2> SUFFICES ASSUME NEW r \in Refs, NEW s \in Refs, Target(r[1], r[2]) = Target(s[1], s[2])
               PROVE  r = s
    OBVIOUS
  <2>1. r[1] = s[1] /\ r[2] = s[2]
    BY <1>1 DEF GraphInv, OneParent
  <2> QED
    BY <1>1, <2>1
<1>4. ASSUME NEW j \in T PROVE \E r \in Refs : f[r] = j
  <2>1. PICK i \in Nodes, o \in Out : Target(i, o) = j
    BY DEF GraphInv, OneParent
  <2>2. <<i, o>> \in Refs
    BY <2>1 DEF Refs, Nodes
  <2> QED
    BY <2>1, <2>2
<1>5. ExistsBijection(Refs, T)
  <2> HIDE DEF f, T
  <2> QED
    BY <1>2, <1>3, <1>4 DEF ExistsBijection, Bijection, Injection, Surjection, IsInjective
<1>6. Cardinality(T) = Cardinality(Refs)
  BY <1>5, RefsFinite, FS_Bijection DEF GraphInv
<1>7. Cardinality(T) = Len(nodes) - 1
  BY RefsFinite, QueueEntries, FS_RemoveElement DEF GraphInv
<1> QED
  BY <1>6, <1>7

LEMMA AcceptedWires == GraphInv => AcceptedWiring
<1> SUFFICES ASSUME GraphInv, phase = "accepted"
             PROVE  /\ DOMAIN chain = Nodes
                    /\ \A i \in Nodes : /\ chain[i] \in Instance
                                        /\ Len(chain[i].children) = chain[i].stage.port_count
                    /\ edges = Len(nodes) - 1
  BY Zenon DEF AcceptedWiring
<1>1. ASSUME NEW i \in Nodes
      PROVE  chain[i] \in Instance /\ Len(chain[i].children) = chain[i].stage.port_count
  <2>1. chain[i] \in Instance /\ SlotWired(i) /\ chain[i].stage.port_count \in Nat
    BY AcceptedSlots, StageAssumption DEF SlotFilled
  <2> QED
    BY <2>1 DEF SlotWired
<1>2. edges = Len(nodes) - 1
  BY RefsCount DEF GraphInv, Wires, Passing
<1> QED
  BY <1>1, <1>2, AcceptedSlots

LEMMA NothingLeaks == GraphInv => NoInstanceLeaks
<1> SUFFICES ASSUME GraphInv PROVE NoInstanceLeaks
  OBVIOUS
<1>1. phase = "rejected" => \A i \in Slot : alive[i] = 0
  BY DEF GraphInv, Before, Passing
<1>2. ASSUME phase = "accepted"
      PROVE  \A i \in Slot : alive[i] = IF i \in Nodes THEN 1 ELSE 0
  <2>1. taken = Len(queue) /\ {queue[n] : n \in 1 .. Len(queue)} = Nodes
    BY <1>2, AcceptedSlots DEF GraphInv, ChainIsFilled, Passing
  <2> QED
    BY <1>2, <2>1 DEF GraphInv, ChainIsFilled, Passing
<1> QED
  BY <1>1, <1>2 DEF NoInstanceLeaks

-------------------------------------------------------------------------------
\* The walk.  It relies on the graph's being accepted, and on nothing a worker or a
\* counter does.

LEMMA AcceptedStays ==
  ASSUME GraphInv, phase = "accepted"
  PROVE  ~GraphNext
BY DEF GraphNext, ReadNode, RejectNodes, NodesRead, ReadInvalidEdge, ReadPortEdge, RejectEdge,
   EdgesRead, InitStage, RejectStage, RejectPortCount, RejectWiring, RecordStage, ResolvePorts,
   VisitedAll

LEMMA InsideIsFinite ==
  IsFiniteSet(Inside) /\ Cardinality(Inside) \in Nat
<1>1. Inside \subseteq Worker
  BY DEF Inside
<1> QED
  BY <1>1, FS_Subset, FS_CardinalityType, RunAssumption

LEMMA RunStarts == PipelineInit => RunInv
<1> SUFFICES ASSUME PipelineInit PROVE RunInv
  OBVIOUS
<1>1. Inside = {}
  BY DEF PipelineInit, Inside
<1>2. NoRecord \in [type : Type, flagged : BOOLEAN]
  BY RawRecordAssumption DEF NoRecord
<1> QED
  BY <1>1, <1>2, LimitsAssumption, FS_EmptySet DEF PipelineInit, RunInv, CountersAddUp, InputAccepted

\* While the graph is loaded no record is inside.
LEMMA LoadingKeepsRun ==
  ASSUME GraphInv, RunInv, GraphNext, UNCHANGED runVars
  PROVE  RunInv'
<1>1. phase # "accepted"
  BY AcceptedStays
<1>2. Inside = {} /\ Inside' = {}
  BY <1>1 DEF RunInv, Inside, runVars
<1> QED
  BY <1>2 DEF RunInv, CountersAddUp, InputAccepted, runVars, counters

LEMMA StartKeepsRun ==
  ASSUME GraphInv, RunInv, NEW w \in Worker, StartRecord(w)
  PROVE  RunInv'
<1>1. /\ phase = "accepted" /\ idx[w] = 0 /\ records_in' = records_in + 1
      /\ idx' = [idx EXCEPT ![w] = Root] /\ cur' = [cur EXCEPT ![w] = NoRecord]
      /\ UNCHANGED <<graphVars, records_dropped, records_forwarded>>
  BY DEF StartRecord
<1>2. UNCHANGED <<phase, nodes, queue, chain>> /\ Nodes' = Nodes
  BY <1>1 DEF graphVars, Nodes
<1>3. Root \in Nodes /\ 0 \notin Nodes /\ Nodes \subseteq 0 .. MaxNodes
  BY <1>1, AcceptedSlots, QueueEntries DEF Slot
<1>4. /\ idx' \in [Worker -> 0 .. MaxNodes] /\ idx'[w] = Root
      /\ \A x \in Worker : x # w => idx'[x] = idx[x]
  BY <1>1, <1>3 DEF RunInv
<1>5. NoRecord \in [type : Type, flagged : BOOLEAN]
  BY RawRecordAssumption DEF NoRecord
<1>6. /\ cur' \in [Worker -> [type : Type, flagged : BOOLEAN]]
      /\ cur'[w] = NoRecord /\ \A x \in Worker : x # w => cur'[x] = cur[x]
  BY <1>1, <1>5 DEF RunInv
<1>7. Inside' = Inside \cup {w} /\ w \notin Inside
  BY <1>1, <1>3, <1>4 DEF Inside
<1>8. CountersAddUp'
  <2>1. Cardinality(Inside \cup {w}) = Cardinality(Inside) + 1
    BY <1>7, InsideIsFinite, FS_AddElement
  <2> QED
    BY <1>1, <1>7, <2>1, InsideIsFinite DEF RunInv, CountersAddUp
<1>9. InputAccepted'
  <2> SUFFICES ASSUME NEW x \in Inside'
               PROVE  cur'[x].type \in chain'[idx'[x]].stage.in_types
    BY DEF InputAccepted, At
  <2>1. CASE x = w
    BY <1>1, <1>2, <1>4, <1>6, <2>1, AcceptedTypes DEF AcceptedTypesFit, NoRecord
  <2>2. CASE x # w
    BY <1>2, <1>4, <1>6, <1>7, <2>2 DEF RunInv, InputAccepted, At, Inside
  <2> QED
    BY <2>1, <2>2
<1>10. ASSUME NEW x \in Inside' PROVE Routed(x)'
  <2> SUFFICES ASSUME NEW i \in Nodes, idx'[x] \in Kids(i)
               PROVE  IF chain[i].invalid_child = idx'[x] THEN cur'[x].flagged
                      ELSE cur'[x].flagged => chain[i].pass_invalid /\ chain[i].invalid_child = 0
    BY <1>2 DEF Routed, Kids
  <2>1. x # w
    BY <1>1, <1>4, AcceptedTree DEF AcceptedIsTree
  <2>2. x \in Inside /\ idx'[x] = idx[x] /\ cur'[x] = cur[x]
    BY <1>4, <1>6, <1>7, <2>1 DEF Inside
  <2> QED
    BY <2>2 DEF RunInv, Routed
<1>11. \A x \in Inside' : phase' = "accepted" /\ idx'[x] \in Nodes'
  BY <1>1, <1>2, <1>3, <1>4, <1>7 DEF RunInv, Inside
<1> QED
  BY <1>1, <1>4, <1>6, <1>8, <1>9, <1>10, <1>11 DEF RunInv

\* The next node takes what this one's stage produces, and its route agrees with
\* the record's flag.
LEMMA DescendKeepsRun ==
  ASSUME GraphInv, RunInv, NEW w \in Inside, NEW flagged \in BOOLEAN,
         NEW j \in Kids(idx[w]), Descend(w, j, flagged),
         IF chain[idx[w]].invalid_child = j THEN flagged
         ELSE flagged => chain[idx[w]].pass_invalid /\ chain[idx[w]].invalid_child = 0
  PROVE  RunInv'
<1> DEFINE next == [type |-> chain[idx[w]].stage.out_type, flagged |-> flagged]
<1>1. /\ idx' = [idx EXCEPT ![w] = j] /\ cur' = [cur EXCEPT ![w] = next]
      /\ UNCHANGED <<graphVars, records_in, records_dropped, records_forwarded>>
  BY DEF Descend, Next, At, counters
<1>2. UNCHANGED <<phase, nodes, queue, chain>> /\ Nodes' = Nodes
  BY <1>1 DEF graphVars, Nodes
<1>3. w \in Worker /\ phase = "accepted" /\ idx[w] \in Nodes
  BY DEF RunInv, Inside
<1>4. j \in Nodes /\ 0 \notin Nodes /\ Nodes \subseteq 0 .. MaxNodes
  BY <1>3, AcceptedSlots, KidsAreTargets, QueueEntries DEF Slot
<1>5. next \in [type : Type, flagged : BOOLEAN]
  BY <1>3, AcceptedSlots, StageAssumption
<1>6. /\ idx' \in [Worker -> 0 .. MaxNodes] /\ idx'[w] = j
      /\ \A x \in Worker : x # w => idx'[x] = idx[x]
  BY <1>1, <1>3, <1>4 DEF RunInv
<1>7. /\ cur' \in [Worker -> [type : Type, flagged : BOOLEAN]]
      /\ cur'[w] = next /\ \A x \in Worker : x # w => cur'[x] = cur[x]
  <2> HIDE DEF next
  <2> QED
    BY <1>1, <1>3, <1>5 DEF RunInv
<1>8. Inside' = Inside
  BY <1>3, <1>4, <1>6 DEF Inside
<1>9. CountersAddUp'
  BY <1>1, <1>8 DEF RunInv, CountersAddUp
<1>10. InputAccepted'
  <2> SUFFICES ASSUME NEW x \in Inside
               PROVE  cur'[x].type \in chain'[idx'[x]].stage.in_types
    BY <1>8 DEF InputAccepted, At
  <2>1. CASE x = w
    BY <1>2, <1>3, <1>6, <1>7, <2>1, AcceptedTypes DEF AcceptedTypesFit
  <2>2. CASE x # w
    BY <1>2, <1>6, <1>7, <2>2 DEF RunInv, InputAccepted, At, Inside
  <2> QED
    BY <2>1, <2>2
<1>11. ASSUME NEW x \in Inside PROVE Routed(x)'
  <2> SUFFICES ASSUME NEW i \in Nodes, idx'[x] \in Kids(i)
               PROVE  IF chain[i].invalid_child = idx'[x] THEN cur'[x].flagged
                      ELSE cur'[x].flagged => chain[i].pass_invalid /\ chain[i].invalid_child = 0
    BY <1>2 DEF Routed, Kids
  <2>1. CASE x = w
    <3>1. i = idx[w]
      BY <1>3, <1>6, <2>1, AcceptedTree DEF AcceptedIsTree
    <3> QED
      BY <1>6, <1>7, <2>1, <3>1
  <2>2. CASE x # w
    <3>1. idx'[x] = idx[x] /\ cur'[x] = cur[x]
      BY <1>6, <1>7, <2>2 DEF Inside
    <3> QED
      BY <3>1 DEF RunInv, Routed
  <2> QED
    BY <2>1, <2>2
<1>12. \A x \in Inside : phase' = "accepted" /\ idx'[x] \in Nodes'
  BY <1>2, <1>3, <1>4, <1>6 DEF RunInv, Inside
<1> QED
  BY <1>1, <1>6, <1>7, <1>8, <1>9, <1>10, <1>11, <1>12 DEF RunInv

\* A record that leaves is counted once, as dropped or as forwarded.
LEMMA LeaveKeepsRun ==
  ASSUME GraphInv, RunInv, NEW w \in Inside, Leave(w), records_in' = records_in,
         \/ records_dropped' = records_dropped + 1 /\ records_forwarded' = records_forwarded
         \/ records_dropped' = records_dropped /\ records_forwarded' = records_forwarded + 1
  PROVE  RunInv'
<1>1. idx' = [idx EXCEPT ![w] = 0] /\ cur' = [cur EXCEPT ![w] = NoRecord] /\ UNCHANGED graphVars
  BY DEF Leave
<1>2. UNCHANGED <<phase, nodes, queue, chain>> /\ Nodes' = Nodes
  BY <1>1 DEF graphVars, Nodes
<1>3. NoRecord \in [type : Type, flagged : BOOLEAN]
  BY RawRecordAssumption DEF NoRecord
<1>4. /\ idx' \in [Worker -> 0 .. MaxNodes] /\ idx'[w] = 0
      /\ \A x \in Worker : x # w => idx'[x] = idx[x]
  BY <1>1, LimitsAssumption DEF RunInv, Inside
<1>5. /\ cur' \in [Worker -> [type : Type, flagged : BOOLEAN]]
      /\ \A x \in Worker : x # w => cur'[x] = cur[x]
  BY <1>1, <1>3 DEF RunInv, Inside
<1>6. Inside' = Inside \ {w}
  BY <1>4 DEF Inside
<1>7. CountersAddUp'
  <2>1. Cardinality(Inside \ {w}) = Cardinality(Inside) - 1
    BY InsideIsFinite, FS_RemoveElement
  <2>2. PICK n \in Nat : n = Cardinality(Inside) /\ n - 1 = Cardinality(Inside')
    BY <1>6, <2>1, InsideIsFinite
  <2> QED
    BY <2>2 DEF RunInv, CountersAddUp
<1>8. \A x \in Inside' : x \in Inside /\ idx'[x] = idx[x] /\ cur'[x] = cur[x]
  BY <1>4, <1>5, <1>6 DEF Inside
<1>9. InputAccepted'
  BY <1>2, <1>8 DEF RunInv, InputAccepted, At
<1>10. ASSUME NEW x \in Inside' PROVE Routed(x)'
  BY <1>2, <1>8 DEF RunInv, Routed, Kids
<1>11. \A x \in Inside' : phase' = "accepted" /\ idx'[x] \in Nodes'
  BY <1>2, <1>8 DEF RunInv
<1> QED
  BY <1>4, <1>5, <1>7, <1>9, <1>10, <1>11 DEF RunInv

\* A port of an accepted instance leads to a node of its own: not the invalid edge's.
LEMMA PortsLead ==
  ASSUME GraphInv, phase = "accepted", NEW i \in Nodes, NEW k \in Port,
         k < chain[i].stage.port_count
  PROVE  /\ chain[i].children[k + 1] \in Kids(i)
         /\ chain[i].children[k + 1] # chain[i].invalid_child
<1>1. SlotWired(i) /\ chain[i].stage.port_count \in Nat
  BY AcceptedSlots, StageAssumption
<1>2. k + 1 \in 1 .. chain[i].stage.port_count /\ (k + 1) - 1 = k
  BY <1>1 DEF Port
<1>3. Invalid # k /\ Invalid \in Out /\ k \in Out
  BY LimitsAssumption DEF Invalid, Port, Out
<1>4. Target(i, k) # 0
  BY <1>1, <1>3 DEF SlotWired, Target
<1>5. chain[i].children[k + 1] = Target(i, k)
  BY <1>2, KidsAreTargets
<1>6. Target(i, k) # Target(i, Invalid)
  BY <1>3, <1>4 DEF GraphInv, OneParent, Passing
<1> QED
  BY <1>3, <1>4, <1>5, <1>6, KidsAreTargets

LEMMA DropKeepsRun ==
  ASSUME GraphInv, RunInv, NEW w \in Inside, Drop(w)
  PROVE  RunInv'
<1>1. /\ Leave(w) /\ records_in' = records_in
      /\ records_dropped' = records_dropped + 1 /\ records_forwarded' = records_forwarded
  BY DEF Drop
<1>2. records_dropped' \in Nat /\ records_forwarded' \in Nat
  BY <1>1 DEF RunInv
<1> QED
  BY <1>1, <1>2, LeaveKeepsRun

LEMMA WalkKeepsRun ==
  ASSUME GraphInv, RunInv, NEW w \in Worker, Walk(w)
  PROVE  RunInv'
<1>1. idx[w] # 0
  BY DEF Walk, DropRefused, RouteInvalid, DropFlagged, ForwardLeaf, DropOutOfRange, RoutePort
<1>2. w \in Inside /\ phase = "accepted" /\ idx[w] \in Nodes
  BY <1>1 DEF RunInv, Inside
<1>3. CASE DropRefused(w)
  BY <1>2, <1>3, DropKeepsRun DEF DropRefused
<1>4. CASE RouteInvalid(w)
  <2>1. chain[idx[w]].invalid_child # 0 /\ Descend(w, chain[idx[w]].invalid_child, TRUE)
    BY <1>4 DEF RouteInvalid, At
  <2>2. chain[idx[w]].invalid_child \in Kids(idx[w])
    BY <2>1 DEF Kids
  <2> QED
    BY <1>2, <2>1, <2>2, DescendKeepsRun
<1>5. CASE DropFlagged(w)
  BY <1>2, <1>5, DropKeepsRun DEF DropFlagged
<1>6. ASSUME NEW flagged \in BOOLEAN, ForwardLeaf(w, flagged) PROVE RunInv'
  <2>1. /\ Leave(w) /\ records_in' = records_in
        /\ records_dropped' = records_dropped /\ records_forwarded' = records_forwarded + 1
    BY <1>6 DEF ForwardLeaf
  <2>2. records_dropped' \in Nat /\ records_forwarded' \in Nat
    BY <2>1 DEF RunInv
  <2> QED
    BY <1>2, <2>1, <2>2, LeaveKeepsRun
<1>7. ASSUME NEW flagged \in BOOLEAN, DropOutOfRange(w, flagged) PROVE RunInv'
  BY <1>2, <1>7, DropKeepsRun DEF DropOutOfRange
<1>8. ASSUME NEW flagged \in BOOLEAN, NEW out_port \in Port, RoutePort(w, flagged, out_port)
      PROVE  RunInv'
  <2> DEFINE j == chain[idx[w]].children[out_port + 1]
  <2>1. /\ flagged => chain[idx[w]].invalid_child = 0 /\ chain[idx[w]].pass_invalid
        /\ out_port < chain[idx[w]].stage.port_count
        /\ Descend(w, j, flagged)
    BY <1>8 DEF RoutePort, Passes, At
  <2>2. j \in Kids(idx[w]) /\ j # chain[idx[w]].invalid_child
    BY <1>2, <2>1, PortsLead
  <2>3. IF chain[idx[w]].invalid_child = j THEN flagged
        ELSE flagged => chain[idx[w]].pass_invalid /\ chain[idx[w]].invalid_child = 0
    BY <2>1, <2>2
  <2> HIDE DEF j
  <2> QED
    BY <1>2, <2>1, <2>2, <2>3, DescendKeepsRun
<1> QED
  BY <1>3, <1>4, <1>5, <1>6, <1>7, <1>8, Zenon DEF Walk

PipelineInv == GraphInv /\ RunInv

LEMMA PipelineStepKeepsInv == PipelineInv /\ [PipelineNext]_vars => PipelineInv'
<1> SUFFICES ASSUME PipelineInv, [PipelineNext]_vars PROVE PipelineInv'
  OBVIOUS
<1>1. GraphInv /\ RunInv
  BY DEF PipelineInv
<1>2. CASE GraphNext /\ UNCHANGED runVars
  BY <1>1, <1>2, GraphStepKeepsInv, LoadingKeepsRun DEF PipelineInv
<1>3. ASSUME NEW w \in Worker, StartRecord(w) PROVE PipelineInv'
  <2>1. UNCHANGED graphVars
    BY <1>3 DEF StartRecord
  <2> QED
    BY <1>1, <1>3, <2>1, GraphStepKeepsInv, StartKeepsRun DEF PipelineInv
<1>4. ASSUME NEW w \in Worker, Walk(w) PROVE PipelineInv'
  <2>1. UNCHANGED graphVars
    BY <1>4 DEF Walk, DropRefused, RouteInvalid, DropFlagged, ForwardLeaf, DropOutOfRange,
                RoutePort, Drop, Leave, Descend
  <2> QED
    BY <1>1, <1>4, <2>1, GraphStepKeepsInv, WalkKeepsRun DEF PipelineInv
<1>5. CASE UNCHANGED vars
  <2>1. UNCHANGED graphVars /\ UNCHANGED runVars
    BY <1>5 DEF vars
  <2>2. GraphInv'
    BY <1>1, <2>1, GraphStepKeepsInv
  <2>3. Nodes' = Nodes /\ Inside' = Inside /\ UNCHANGED <<phase, chain, queue>>
    BY <2>1 DEF graphVars, runVars, Nodes, Inside
  <2>4. CountersAddUp' /\ InputAccepted' /\ \A w \in Inside' : Routed(w)'
    BY <1>1, <2>1, <2>3 DEF RunInv, CountersAddUp, InputAccepted, Routed, At, Kids, runVars, counters
  <2>5. RunInv'
    BY <1>1, <2>1, <2>3, <2>4 DEF RunInv, runVars, counters
  <2> QED
    BY <2>2, <2>5 DEF PipelineInv
<1> QED
  BY <1>2, <1>3, <1>4, <1>5, Zenon DEF PipelineNext, PipelineEnded

LEMMA PipelineSpecKeepsInv == PipelineSpec => []PipelineInv
<1>1. PipelineInit => PipelineInv
  BY GraphStarts, RunStarts DEF PipelineInit, PipelineInv
<1> QED
  BY <1>1, PipelineStepKeepsInv, PTL DEF PipelineSpec

-------------------------------------------------------------------------------
\* What graph_config_load() promises of a graph, loaded alone or before a run.

\* The queue of the breadth-first pass never overflows and holds no node twice,
\* though graph_config.c checks neither: the in-degree check is enough.
THEOREM QueueNeverOverflows == PipelineSpec => []QueueFits
<1>1. GraphInv => QueueFits
  BY QueueInjects DEF GraphInv, NoRepeats, QueueFits
<1> QED
  BY <1>1, PipelineSpecKeepsInv, PTL DEF PipelineInv

\* Whatever nodes and edges the file has, what is accepted is a tree rooted at
\* root_idx that reaches every node, with distinct ids: a walk of it ends.
THEOREM AcceptsOnlyTrees == PipelineSpec => []AcceptedIsTree
BY AcceptedTree, PipelineSpecKeepsInv, PTL DEF PipelineInv

\* Every edge of an accepted graph joins a type to a stage that takes it, invalid
\* edges included, though each is checked only when its target is taken.
THEOREM AcceptsMatchingTypes == PipelineSpec => []AcceptedTypesFit
BY AcceptedTypes, PipelineSpecKeepsInv, PTL DEF PipelineInv

\* Every declared port of an accepted graph is wired and no edge of the file is
\* lost: pipeline_run() indexes children[] without looking for an empty one.
THEOREM AcceptsWiredPorts == PipelineSpec => []AcceptedWiring
BY AcceptedWires, PipelineSpecKeepsInv, PTL DEF PipelineInv

\* A load that fails, at whatever step, tears down each instance it made exactly
\* once; one that succeeds leaves one instance per node.
THEOREM LoadLeaksNothing == PipelineSpec => []NoInstanceLeaks
BY NothingLeaks, PipelineSpecKeepsInv, PTL DEF PipelineInv

-------------------------------------------------------------------------------
\* What pipeline_run() promises.

\* Each record that went in is dropped or forwarded once, or is still inside, with
\* any number of workers.
THEOREM CountersAccount == PipelineSpec => []CountersAddUp
<1>1. PipelineInv => CountersAddUp
  BY DEF PipelineInv, RunInv
<1> QED
  BY <1>1, PipelineSpecKeepsInv, PTL

\* No stage is given a record of a type it does not declare, on the ordinary route
\* or the invalid one, though pipeline_run() compares no types.
THEOREM StagesGetTheirTypes == PipelineSpec => []InputAccepted
<1>1. PipelineInv => InputAccepted
  BY DEF PipelineInv, RunInv
<1> QED
  BY <1>1, PipelineSpecKeepsInv, PTL

\* A flagged record is seen only behind an invalid edge or behind a node that
\* passes invalid records on, and an invalid edge carries nothing else.
THEOREM FlaggedStayRouted == PipelineSpec => []FlaggedRoute
<1>1. PipelineInv => FlaggedRoute
  BY Zenon DEF PipelineInv, RunInv, Routed, FlaggedRoute
<1> QED
  BY <1>1, PipelineSpecKeepsInv, PTL
===============================================================================
