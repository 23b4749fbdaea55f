---------------------------- MODULE MCAccountPool ----------------------------
(* The account pool on small instances. *)
EXTENDS AccountPool, TLC

\* Requests are interchangeable: no action tells one from another.
RequestSymmetry == Permutations(Requests)
=============================================================================
