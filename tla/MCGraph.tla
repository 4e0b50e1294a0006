--------------------------------- MODULE MCGraph --------------------------------
(* Instances of GraphConfig and Pipeline for TLC. *)
EXTENDS Pipeline, TLC

\* A checker, a converter, a router, a sink of every type, one of a single type,
\* and a stage with more ports than the build allows.
Stages ==
  {[in_types |-> {"raw"}, out_type |-> "raw", port_count |-> 1],
   [in_types |-> {"raw"}, out_type |-> "value", port_count |-> 1],
   [in_types |-> {"raw"}, out_type |-> "raw", port_count |-> 2],
   [in_types |-> {"raw", "value"}, out_type |-> "raw", port_count |-> 0],
   [in_types |-> {"value"}, out_type |-> "value", port_count |-> 0],
   [in_types |-> {"raw"}, out_type |-> "raw", port_count |-> 3]}

Symmetry == Permutations(Id) \cup Permutations(Worker)
===============================================================================
