---------------------------- MODULE MCCaptureBridge ----------------------------
(* Two requests, two managers, two runners. *)
EXTENDS CaptureBridge, TLC

Symmetry == Permutations(Requests) \cup Permutations(Managers) \cup Permutations(Runners)
================================================================================
