------------------------------- MODULE MCTestGen --------------------------------
(* Instances of TestGen for TLC. *)
EXTENDS TestGen, TLC

Symmetry == Permutations(Worker)
===============================================================================
