------------------------------- MODULE MCLibrary -------------------------------
(* One medium as it is edited, reviewed, published and withdrawn, and one       *)
(* medium that gets covers and is removed by two administrators, or gets        *)
(* previews as well and is removed by one.                                      *)
(* They share no state here: a behaviour works one of the two while the other   *)
(* rests in its initial state.                                                  *)
EXTENDS MediaRecords, CatalogRemoval, TLC

CONSTANTS medium, disc, d1, d2

VARIABLE works   \* the one that works in this behaviour

\* Both runs of the medium suggest the one tag.
MCEligible == [r \in Runs |-> <<"a">>]
MCMediaOf == [l \in {disc} |-> medium]
Symmetry == Permutations({d1, d2})

\* In the first two behaviours nobody opens suggestions, which the others do not look at;
\* in the first nobody opens the details, in the second the medium stays at one location
\* and had no publication before its record.  In the third it has no record.  In the
\* fourth nobody generates previews, in the fifth the administrators do not overlap.
MCInit == /\ works \in 1..5 /\ Init /\ RemovalInit
          /\ IF works \in 1..3 THEN origin[medium] = "youtube" ELSE ~meta.persisted
MCNext == \/ works = 1 /\ Next /\ UNCHANGED <<opened, looked, removalVars, works>>
          \/ works = 2 /\ Next /\ UNCHANGED <<opened, located, published, removalVars, works>>
          \/ works = 3 /\ Next /\ UNCHANGED <<record, removalVars, works>>
          \/ works = 4 /\ RemovalNext /\ UNCHANGED <<vars, works, generator>>
          \/ /\ works = 5 /\ RemovalNext /\ UNCHANGED <<vars, works>>
             /\ \E d \in {d1, d2} : admin'[d] = Idle
MCSpec == MCInit /\ [][MCNext]_<<vars, removalVars, works>>
================================================================================
