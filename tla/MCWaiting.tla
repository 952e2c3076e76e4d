------------------------------- MODULE MCWaiting -------------------------------
(* Who waits gets a turn: the runs of the media analysis, the lock registry, and *)
(* research with one handler at a time.  They share no state: a behaviour works *)
(* one of them while the others rest in their initial states.                   *)
(*                                                                              *)
(* One handler thread beside the coordinator, over two runs, with one stop or   *)
(* failing transaction.  Three coroutines on two sessions: two can queue behind *)
(* a holder while the third leases another session, and entry objects are       *)
(* reused after removal.  Two research requests, one of them without a price,   *)
(* and every fault, two of which interrupt the handler.                         *)
EXTENDS MediaAnalysis

CONSTANTS t1, c1, c2, c3, s1, s2, e1, e2, e3, NoEntry, q1, q2, h1

VARIABLES
    registry, references, locked, waiters, woken, session, entry, pc,
    row, slot, hold, answers, remote, creations, overdue, cancels, thread, troubles,
    works   \* the one that works in this behaviour

L == INSTANCE UploadSessionLock WITH
       Coroutines <- {c1, c2, c3}, Sessions <- {s1, s2}, Entries <- {e1, e2, e3}
R == INSTANCE Research WITH
       Requests <- {q1, q2}, Threads <- {h1}, Reservation <- 2, Limit <- 3, Cost <- 1,
       Priced <- {q1}, Faults <- {"stop", "trouble", "late"}, MaxFaults <- 2,
       faults <- troubles

MCThreads == {t1}

lVars == <<registry, references, locked, waiters, woken, session, entry, pc>>
rVars == <<row, slot, hold, answers, remote, creations, overdue, cancels, thread, troubles>>

\* Whom an idle coroutine leased last makes no difference.
MCInit == /\ works \in {"analysis", "lock", "research"}
          /\ Init /\ L!LockInit /\ R!Init /\ \A c \in {c1, c2, c3} : session[c] = s1
MCNext == \/ works = "analysis" /\ Next /\ UNCHANGED <<lVars, rVars, works>>
          \/ works = "lock" /\ L!LockNext /\ UNCHANGED <<vars, rVars, works>>
          \/ works = "research" /\ R!Next /\ UNCHANGED <<vars, lVars, works>>

\* The fairness of each, of the one that works: the coordinator of a resting analysis
\* could begin, the others have nothing to do where they rest.
MCSpec == /\ MCInit /\ [][MCNext]_<<vars, lVars, rVars, works>>
          /\ WF_vars(works = "analysis" /\ Coordinate)
          /\ \A t \in Threads : WF_vars(works = "analysis" /\ Handle(t))
          /\ WF_vars(works = "analysis" /\ Start)
          /\ L!LockFairness /\ R!Fairness

(* UploadSessionLock: a waiter is served or cancelled.                          *)
EveryWaiterLeaves == L!EveryWaiterLeaves
(* Research: the active request ends, whatever was interrupted.                 *)
EveryRequestFinishes == R!EveryRequestFinishes
================================================================================
