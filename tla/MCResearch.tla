------------------------------- MODULE MCResearch -------------------------------
(* Instances of Research for TLC.  Threads are interchangeable, and requests are *)
(* where all of them are priced.                                                *)
EXTENDS Research, TLC

Symmetry == Permutations(Threads) \cup Permutations(Requests)
================================================================================
