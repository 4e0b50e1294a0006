-------------------------------- MODULE Pipeline --------------------------------
(*****************************************************************************)
(* src/src/pipeline.c: pipeline_run(), the walk of one record from the root  *)
(* of an accepted chain to a leaf or a drop, by any number of workers that   *)
(* share the chain and the counters.  A step is one stage's process() and    *)
(* the dispatch of what it returned; process() itself (a plugin's code) is   *)
(* any result the contract in stage.h:366-383 and 276-296 allows, and an     *)
(* out_port beyond the declared ones, which pipeline_run() handles.          *)
(*****************************************************************************)
EXTENDS GraphConfig

CONSTANTS
  Worker,      \* the worker threads, each with its own struct pipeline_worker
  MaxRecords   \* bound: how many records they are given in all

ASSUME RunAssumption == IsFiniteSet(Worker) /\ MaxRecords \in Nat

VARIABLES
  records_in, records_dropped, records_forwarded,   \* struct pipeline_counters
  idx,     \* the node each worker's record is at, 0 between two records
  cur      \* cur: its type and its flag bit; Stages.tla has the buffers

counters == <<records_in, records_dropped, records_forwarded>>
runVars  == <<counters, idx, cur>>
vars     == <<graphVars, runVars>>

NoRecord == [type |-> RawRecord, flagged |-> FALSE]

Inside == {w \in Worker : idx[w] # 0}
At(w)  == chain[idx[w]]

-------------------------------------------------------------------------------

PipelineInit ==
  /\ GraphInit
  /\ records_in = 0 /\ records_dropped = 0 /\ records_forwarded = 0
  /\ idx = [w \in Worker |-> 0]
  /\ cur = [w \in Worker |-> NoRecord]

\* The record is copied to scratch[0] and starts at the root.
StartRecord(w) ==
  /\ phase = "accepted"
  /\ idx[w] = 0
  /\ records_in < MaxRecords
  /\ records_in' = records_in + 1
  /\ idx' = [idx EXCEPT ![w] = Root]
  /\ cur' = [cur EXCEPT ![w] = NoRecord]
  /\ UNCHANGED <<graphVars, records_dropped, records_forwarded>>

\* Mutant: next is not zeroed, and the flag of the stage before sticks.
NextSticky(w, flagged) ==
  [type |-> At(w).stage.out_type, flagged |-> flagged \/ cur[w].flagged]

\* What process() leaves in *out when it returns ok: next starts zeroed and
\* its flag is what this stage sets, whatever cur's was.
Next(w, flagged) ==
  [type |-> At(w).stage.out_type, flagged |-> flagged]

\* The walk goes on to node i.
Descend(w, i, flagged) ==
  /\ idx' = [idx EXCEPT ![w] = i]
  /\ cur' = [cur EXCEPT ![w] = Next(w, flagged)]
  /\ UNCHANGED <<graphVars, counters>>

\* pipeline_run() returns.
Leave(w) ==
  /\ idx' = [idx EXCEPT ![w] = 0]
  /\ cur' = [cur EXCEPT ![w] = NoRecord]
  /\ UNCHANGED graphVars

Drop(w) ==
  /\ Leave(w)
  /\ records_dropped' = records_dropped + 1
  /\ UNCHANGED <<records_in, records_forwarded>>

\* process() returns ok = false.
DropRefused(w) ==
  /\ idx[w] # 0
  /\ Drop(w)

\* A flagged record never looks at out_port unless the node passes it.
RouteInvalid(w) ==
  /\ idx[w] # 0
  /\ At(w).invalid_child # 0
  /\ Descend(w, At(w).invalid_child, TRUE)

\* Mutant: a record dropped for its flag is not counted.
DropFlaggedUncounted(w) ==
  /\ idx[w] # 0
  /\ At(w).invalid_child = 0 /\ ~At(w).pass_invalid
  /\ Leave(w)
  /\ UNCHANGED counters

DropFlagged(w) ==
  /\ idx[w] # 0
  /\ At(w).invalid_child = 0 /\ ~At(w).pass_invalid
  /\ Drop(w)

\* Flagged or not, the record takes the ordinary route.
Passes(w, flagged) == flagged => At(w).invalid_child = 0 /\ At(w).pass_invalid

ForwardLeaf(w, flagged) ==
  /\ idx[w] # 0
  /\ Passes(w, flagged)
  /\ At(w).stage.port_count = 0
  /\ Leave(w)
  /\ records_forwarded' = records_forwarded + 1
  /\ UNCHANGED <<records_in, records_dropped>>

\* out_port is beyond the ports the instance declared.
DropOutOfRange(w, flagged) ==
  /\ idx[w] # 0
  /\ Passes(w, flagged)
  /\ At(w).stage.port_count # 0
  /\ Drop(w)

RoutePort(w, flagged, out_port) ==
  /\ idx[w] # 0
  /\ Passes(w, flagged)
  /\ out_port < At(w).stage.port_count
  /\ Descend(w, At(w).children[out_port + 1], flagged)

Walk(w) ==
  \/ DropRefused(w)
  \/ RouteInvalid(w) \/ DropFlagged(w)
  \/ \E flagged \in BOOLEAN :
       \/ ForwardLeaf(w, flagged) \/ DropOutOfRange(w, flagged)
       \/ \E out_port \in Port : RoutePort(w, flagged, out_port)

\* The load has failed, or every record has been through: nothing is left to do.
PipelineEnded ==
  /\ phase = "rejected" \/ (records_in = MaxRecords /\ Inside = {})
  /\ UNCHANGED vars

PipelineNext ==
  \/ GraphNext /\ UNCHANGED runVars
  \/ \E w \in Worker : StartRecord(w) \/ Walk(w)
  \/ PipelineEnded

PipelineSpec == PipelineInit /\ [][PipelineNext]_vars

-------------------------------------------------------------------------------

\* The counters account for every record: those that went in were dropped or
\* forwarded, once each, or are still inside, so that the final counts main()
\* prints after the workers have ended add up.
CountersAddUp ==
  records_in = records_dropped + records_forwarded + Cardinality(Inside)

\* process() is only ever given a type that its stage declares (stage.h:366-370).
InputAccepted ==
  \A w \in Inside : cur[w].type \in At(w).stage.in_types

\* A flagged record is only ever seen by the node its invalid edge leads to or by
\* one below a node that passes invalid records on, and what an invalid edge
\* leads to sees nothing else.
FlaggedRoute ==
  \A w \in Inside :
    LET parent == {i \in Nodes : idx[w] \in Kids(i)}
    IN  \A i \in parent :
          IF chain[i].invalid_child = idx[w] THEN cur[w].flagged
          ELSE cur[w].flagged => chain[i].pass_invalid /\ chain[i].invalid_child = 0
===============================================================================
