------------------------------- MODULE MCOutside -------------------------------
(* What works on the service from outside it: the backup timers and the         *)
(* workstation that pulls their copies, deployments, and a page of the web      *)
(* client.  They share no state: a behaviour works one of the three while the   *)
(* others rest in their initial states.                                         *)
(*                                                                              *)
(* Two workstations deploy; of the releases, r1 fits, r2 does not come up and   *)
(* r3 has a newer schema; p2 is a second AI provider.  The page has two         *)
(* coroutines for the user's actions and one for status requests.               *)
EXTENDS CatalogBackup, Deployment, UploadClient

VARIABLE works   \* the one that works in this behaviour

MCInit == works \in 1..3 /\ Init /\ DeploymentInit /\ ClientInit
MCNext == \/ works = 1 /\ Next /\ UNCHANGED <<deploymentVars, clientVars, works>>
          \/ works = 2 /\ DeploymentNext /\ UNCHANGED <<vars, clientVars, works>>
          \/ works = 3 /\ ClientNext /\ UNCHANGED <<vars, deploymentVars, works>>
MCSpec == MCInit /\ [][MCNext]_<<vars, deploymentVars, clientVars, works>>
================================================================================
