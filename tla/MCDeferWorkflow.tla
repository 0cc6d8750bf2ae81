---------------------------- MODULE MCDeferWorkflow ----------------------------
(* Instances of DeferWorkflow for TLC. *)
EXTENDS DeferWorkflow, TLC

(* Requesters, and calls, are interchangeable in every safety run. *)
Symmetry == Permutations(Requesters) \cup Permutations(Calls)
===============================================================================
