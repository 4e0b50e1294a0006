---------------------------- MODULE MCPipelineWorker ----------------------------
(* Instances of PipelineWorker for TLC. *)
EXTENDS PipelineWorker, TLC

Symmetry == Permutations(Worker)
===============================================================================
