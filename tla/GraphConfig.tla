------------------------------ MODULE GraphConfig -------------------------------
(*****************************************************************************)
(* src/src/graph_config.c: graph_config_load(), which turns a graph file     *)
(* into the chain the pipeline walks, or refuses it.  The file is read node  *)
(* by node and edge by edge, so that every file within the bounds is one     *)
(* behaviour; the breadth-first pass then looks each node's stage type up,   *)
(* initialises it and resolves its edges, and a failure at any point tears   *)
(* down what had been initialised.                                           *)
(*                                                                           *)
(* A node is named by its position in the file; 0 is the code's -1.          *)
(*****************************************************************************)
EXTENDS Integers, Sequences, FiniteSets

CONSTANTS
  Id,         \* the strings a file can use as node ids
  MaxNodes,   \* PIPELINE_MAX_STAGES
  MaxPorts,   \* STAGE_MAX_OUT_PORTS
  MaxEdges,   \* bound: how many edges a file has
  Type,       \* enum stage_port_type
  RawRecord,  \* PORT_TYPE_RAW_RECORD
  NoStage,    \* no stage looked up yet
  Stage       \* the stages a node's type and config can name: what the stage
              \* declares, and the port count its init()ed instance declares

ASSUME LimitsAssumption == /\ MaxNodes \in Nat \ {0}
                           /\ MaxPorts \in Nat \ {0}
                           /\ MaxEdges \in Nat
ASSUME RawRecordAssumption == RawRecord \in Type
ASSUME StageAssumption ==
  /\ Stage \subseteq [in_types : SUBSET Type, out_type : Type, port_count : Nat]
  /\ NoStage \notin Stage

VARIABLES
  phase,   \* which part of graph_config_load() runs, or how it ended
  nodes,   \* struct node_info nodes[]
  edges,   \* how many edges have been read
  queue,   \* queue[0 .. tail-1]
  taken,   \* the queue's head: how many of its entries have been taken
  stage,   \* the stage of the last entry taken
  chain,   \* chain->stages[], the slots whose .stage is not NULL
  alive    \* per slot, init() calls that succeeded minus teardown() calls

graphVars == <<phase, nodes, edges, queue, taken, stage, chain, alive>>

\* "visit", "init" and "ports" are the breadth-first loop: about to take a node,
\* after its init(), after its slot is filled.
Phase == {"nodes", "edges", "visit", "init", "ports", "accepted", "rejected"}
Port  == 0 .. MaxPorts - 1
Slot  == 1 .. MaxNodes
Nodes == 1 .. Len(nodes)

\* find_node_idx(): the first node with that id.
Found(id) == {i \in Nodes : nodes[i].id = id /\ \A j \in 1 .. i - 1 : nodes[j].id # id}

-------------------------------------------------------------------------------

GraphInit ==
  /\ phase = "nodes"
  /\ nodes = <<>>
  /\ edges = 0
  /\ queue = <<>>
  /\ taken = 0
  /\ stage = NoStage
  /\ chain = <<>>
  /\ alive = [i \in Slot |-> 0]

Reject ==
  /\ phase' = "rejected"
  /\ UNCHANGED <<nodes, edges, queue, taken, stage, chain, alive>>

\* One node: its id and its "on_invalid".
ReadNode(id, pass) ==
  /\ phase = "nodes"
  /\ Len(nodes) < MaxNodes
  /\ nodes' = Append(nodes,
                [id |-> id, pass_invalid |-> pass, invalid_target |-> 0,
                 port_target |-> [k \in Port |-> 0], in_degree |-> 0,
                 expected_in |-> RawRecord])
  /\ UNCHANGED <<phase, edges, queue, taken, stage, chain, alive>>

\* No node, more than MaxNodes, one without id or type, a bad "on_invalid".
RejectNodes ==
  /\ phase = "nodes"
  /\ Reject

NodesRead ==
  /\ phase = "nodes"
  /\ nodes # <<>>
  /\ phase' = "edges"
  /\ UNCHANGED <<nodes, edges, queue, taken, stage, chain, alive>>

\* Mutant: an invalid edge is not counted as an incoming edge.
ReadInvalidEdgeUncounted(src, dst) ==
  /\ phase = "edges" /\ edges < MaxEdges
  /\ edges' = edges + 1
  /\ \E s \in Found(src), d \in Found(dst) :
       /\ nodes[s].invalid_target = 0
       /\ nodes' = [nodes EXCEPT ![s].invalid_target = d]
  /\ UNCHANGED <<phase, queue, taken, stage, chain, alive>>

\* An edge marked "invalid_target".
ReadInvalidEdge(src, dst) ==
  /\ phase = "edges" /\ edges < MaxEdges
  /\ edges' = edges + 1
  /\ \E s \in Found(src), d \in Found(dst) :
       /\ nodes[s].invalid_target = 0
       /\ nodes' = [nodes EXCEPT ![s].invalid_target = d, ![d].in_degree = @ + 1]
  /\ UNCHANGED <<phase, queue, taken, stage, chain, alive>>

\* Any other edge, with its source_port.
ReadPortEdge(src, dst, k) ==
  /\ phase = "edges" /\ edges < MaxEdges
  /\ edges' = edges + 1
  /\ \E s \in Found(src), d \in Found(dst) :
       /\ nodes[s].port_target[k] = 0
       /\ nodes' = [nodes EXCEPT ![s].port_target[k] = d, ![d].in_degree = @ + 1]
  /\ UNCHANGED <<phase, queue, taken, stage, chain, alive>>

\* An unknown node id, a port out of range or wired twice, a second invalid edge,
\* an edge that is both.
RejectEdge ==
  /\ phase = "edges" /\ edges < MaxEdges
  /\ Reject

Roots == {i \in Nodes : nodes[i].in_degree = 0}
FanIn == {i \in Nodes : nodes[i].in_degree > 1}

\* The edges are read: the graph must have no fan-in and exactly one root.
EdgesRead ==
  /\ phase = "edges"
  /\ IF FanIn = {} /\ Cardinality(Roots) = 1
       THEN /\ phase' = "visit"
            /\ queue' = <<CHOOSE i \in Nodes : i \in Roots>>
       ELSE /\ phase' = "rejected"
            /\ UNCHANGED queue
  /\ UNCHANGED <<nodes, edges, taken, stage, chain, alive>>

\* Mutant: the sweep stops at the first empty slot.
TeardownPrefix ==
  /\ alive' = [i \in Slot |-> IF \A j \in 1 .. i : j \in DOMAIN chain
                                THEN alive[i] - 1 ELSE alive[i]]
  /\ chain' = <<>>

\* teardown_and_fail: every slot the pass has filled.
TeardownAll ==
  /\ alive' = [i \in Slot |-> IF i \in DOMAIN chain THEN alive[i] - 1 ELSE alive[i]]
  /\ chain' = <<>>

Fail ==
  /\ phase' = "rejected"
  /\ TeardownAll
  /\ UNCHANGED <<nodes, edges, queue, taken, stage>>

\* Mutant: the type is checked against the root's alone.
AcceptsRaw(s, i) == RawRecord \in s.in_types

\* The stage takes the type that the node's one parent produces.
Accepts(s, i) == nodes[i].expected_in \in s.in_types

\* The node at the head of the queue: its stage is found, takes its input and its
\* init() returns a state.
InitStage(s) ==
  /\ phase = "visit" /\ taken < Len(queue)
  /\ Accepts(s, queue[taken + 1])
  /\ phase' = "init"
  /\ taken' = taken + 1
  /\ stage' = s
  /\ alive' = [alive EXCEPT ![queue[taken + 1]] = @ + 1]
  /\ UNCHANGED <<nodes, edges, queue, chain>>

\* An unknown stage type, one that does not take the input, a config that its
\* init() refuses.
RejectStage ==
  /\ phase = "visit" /\ taken < Len(queue)
  /\ Fail

Visited == queue[taken]

\* Too many ports: the instance is not in the chain yet, so that it is torn down
\* on the spot and the others by the sweep.
RejectPortCount ==
  /\ phase = "init"
  /\ stage.port_count > MaxPorts
  /\ phase' = "rejected"
  /\ alive' = [i \in Slot |-> IF i \in DOMAIN chain \cup {Visited}
                                THEN alive[i] - 1 ELSE alive[i]]
  /\ chain' = <<>>
  /\ UNCHANGED <<nodes, edges, queue, taken, stage>>

\* Mutant: the targets keep the 0 that stands for PORT_TYPE_RAW_RECORD.
ExpectingRaw(targets) == nodes

\* The targets of the node being visited will be given what its stage produces.
Expecting(targets) ==
  [j \in Nodes |-> IF j \in targets
                     THEN [nodes[j] EXCEPT !.expected_in = stage.out_type]
                     ELSE nodes[j]]

InvalidChild(i) == nodes[i].invalid_target

\* The slot is filled and the invalid edge, if there is one, resolved.
RecordStage ==
  LET invalid == nodes[Visited].invalid_target IN
  /\ phase = "init"
  /\ stage.port_count <= MaxPorts
  /\ phase' = "ports"
  /\ chain' = [i \in DOMAIN chain \cup {Visited} |->
                 IF i = Visited
                   THEN [stage |-> stage, children |-> <<>>,
                         invalid_child |-> InvalidChild(Visited),
                         pass_invalid |-> nodes[Visited].pass_invalid]
                   ELSE chain[i]]
  /\ nodes' = Expecting({invalid})
  /\ queue' = IF invalid = 0 THEN queue ELSE Append(queue, invalid)
  /\ UNCHANGED <<edges, taken, stage, alive>>

\* Every port the instance declares is wired, and no other.
Wired(i) == \A k \in Port : k < stage.port_count <=> nodes[i].port_target[k] # 0

RejectWiring ==
  /\ phase = "ports"
  /\ ~Wired(Visited)
  /\ Fail

ResolvePorts ==
  LET targets == [k \in 1 .. stage.port_count |-> nodes[Visited].port_target[k - 1]] IN
  /\ phase = "ports"
  /\ Wired(Visited)
  /\ phase' = "visit"
  /\ chain' = [chain EXCEPT ![Visited].children = targets]
  /\ nodes' = Expecting({targets[k] : k \in 1 .. stage.port_count})
  /\ queue' = queue \o targets
  /\ UNCHANGED <<edges, taken, stage, alive>>

\* Mutant: the nodes the pass never reached are not missed.
VisitedAllAnyTail ==
  /\ phase = "visit"
  /\ taken = Len(queue)
  /\ phase' = "accepted"
  /\ UNCHANGED <<nodes, edges, queue, taken, stage, chain, alive>>

\* The queue is empty: every node must have been on it.
VisitedAll ==
  /\ phase = "visit"
  /\ taken = Len(queue)
  /\ IF Len(queue) = Len(nodes)
       THEN /\ phase' = "accepted"
            /\ UNCHANGED <<nodes, edges, queue, taken, stage, chain, alive>>
       ELSE Fail

GraphNext ==
  \/ \E id \in Id, pass \in BOOLEAN : ReadNode(id, pass)
  \/ RejectNodes
  \/ NodesRead
  \/ \E src, dst \in Id : \/ ReadInvalidEdge(src, dst)
                          \/ \E k \in Port : ReadPortEdge(src, dst, k)
  \/ RejectEdge
  \/ EdgesRead
  \/ \E s \in Stage : InitStage(s)
  \/ RejectStage \/ RejectPortCount \/ RejectWiring
  \/ RecordStage
  \/ ResolvePorts
  \/ VisitedAll

GraphSpec == GraphInit /\ [][GraphNext]_graphVars

-------------------------------------------------------------------------------

\* struct pipeline_stage_instance, wired.
Instance ==
  [stage : Stage, children : Seq(Slot), invalid_child : 0 .. MaxNodes,
   pass_invalid : BOOLEAN]

\* chain->root_idx, and the nodes a record can go to from node i.
Root    == queue[1]
Kids(i) == ({chain[i].children[k] : k \in DOMAIN chain[i].children}
              \cup {chain[i].invalid_child}) \ {0}

\* queue[] never overflows and no node is on it twice, without a check of its own:
\* the tree check before the pass is enough (graph_config.c:270-280).
QueueFits ==
  /\ Len(queue) <= Len(nodes)
  /\ \A j, k \in 1 .. Len(queue) : queue[j] = queue[k] => j = k

\* A graph that is accepted is a tree: the nodes a record can go to from the root
\* are all the nodes, and no node is reached from two others, by two ports of one,
\* or from itself, whatever edges the file has.  Its ids differ, though no check
\* looks for that: find_node_idx() takes the first of two nodes with one id.
AcceptedIsTree ==
  phase = "accepted" =>
    /\ DOMAIN chain = Nodes
    /\ \A i, j \in Nodes : nodes[i].id = nodes[j].id => i = j
    /\ \A S \in SUBSET Nodes :
         (Root \in S /\ \A i \in S : Kids(i) \subseteq S) => S = Nodes
    /\ \A i, j \in Nodes : i # j => Kids(i) \cap Kids(j) = {}
    /\ \A i \in Nodes : Root \notin Kids(i)

\* Every edge of an accepted graph, invalid ones included, joins a stage's output
\* type to a stage that takes it, and the root takes raw records.
AcceptedTypesFit ==
  phase = "accepted" =>
    /\ RawRecord \in chain[Root].stage.in_types
    /\ \A i \in Nodes : \A j \in Kids(i) :
         chain[i].stage.out_type \in chain[j].stage.in_types

\* Every port an accepted instance declares leads somewhere, and no edge of the
\* file is dropped: as many as the nodes but the root.
AcceptedWiring ==
  phase = "accepted" =>
    /\ DOMAIN chain = Nodes
    /\ \A i \in Nodes :
         chain[i] \in Instance /\ Len(chain[i].children) = chain[i].stage.port_count
    /\ edges = Len(nodes) - 1

\* Each instance that init() made is torn down exactly once when the load fails,
\* wherever it fails, and an accepted graph has exactly one per node.
NoInstanceLeaks ==
  /\ phase = "rejected" => \A i \in Slot : alive[i] = 0
  /\ phase = "accepted" => \A i \in Slot : alive[i] = IF i \in Nodes THEN 1 ELSE 0
===============================================================================
