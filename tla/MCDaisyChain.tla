------------------------------ MODULE MCDaisyChain ------------------------------
(* Instances of DaisyChain for TLC. *)
EXTENDS DaisyChain, TLC

Symmetry == Permutations(Worker)
===============================================================================
