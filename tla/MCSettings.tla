------------------------------- MODULE MCSettings -------------------------------
(* Research of two requests with two handlers at a time, which may be interrupted *)
(* once, and the settings it runs under, changed by one page and one shell.  They *)
(* share no state here: a behaviour works one of the two while the other rests in *)
(* its initial state.                                                             *)
EXTENDS Research, AiConfiguration, TLC

VARIABLE works   \* the one that works in this behaviour

Symmetry == Permutations(Threads) \cup Permutations(Requests)

MCInit == works \in {"research", "settings"} /\ Init /\ SettingsInit
MCNext == \/ works = "research" /\ Next /\ UNCHANGED <<settingsVars, works>>
          \/ works = "settings" /\ SettingsNext /\ UNCHANGED <<vars, works>>
MCSpec == MCInit /\ [][MCNext]_<<vars, settingsVars, works>>
================================================================================
