--------------------------- MODULE UploadSessionLock ---------------------------
(* The per-session lock registry of the upload pipeline                        *)
(* (UploadSessionLockRegistry in application/upload_transport.py).  Transport   *)
(* requests and the validation, publication and catalog coordinators lease the  *)
(* lock of one upload session around every multi-step operation on it.  The     *)
(* registry creates an asyncio.Lock for a session on first use, counts the      *)
(* coroutines that hold or wait for it, and forgets it when the count drops to  *)
(* zero, so that a long-lived process does not keep one lock per old upload.    *)
(*                                                                              *)
(* Everything runs on one event loop: code between two awaits is one step.      *)
EXTENDS SequencesExt

CONSTANTS
    Coroutines,     \* the coroutines that lease locks
    Sessions,       \* upload session ids, the keys of the registry
    Entries,        \* identities of lock entries (Python objects)
    NoEntry         \* an absent registry key, a coroutine without a lease

ASSUME LockAssumption ==
    /\ IsFiniteSet(Coroutines)
    /\ NoEntry \notin Entries

VARIABLES
    registry,       \* session -> its entry in self._locks, or NoEntry
    references,     \* entry -> the entry's count of leases held or awaited
    locked,         \* entry -> asyncio.Lock is taken
    waiters,        \* entry -> FIFO of coroutines whose acquire() is suspended
    woken,          \* coroutines whose future is resolved but which have not run
    session,        \* coroutine -> the session it leases
    entry,          \* coroutine -> the entry its lease uses, or NoEntry
    pc              \* coroutine -> "idle", "waiting" or "holding"

lockVars == <<registry, references, locked, waiters, woken, session, entry, pc>>

Users(e) == {c \in Coroutines : entry[c] = e}

\* An object nobody refers to may be the next one Python allocates.
Unreferenced(e) == Users(e) = {} /\ \A s \in Sessions : registry[s] # e

\* The queue q after the future of c left it.
Without(q, c) == RemoveAt(q, CHOOSE i \in DOMAIN q : q[i] = c)

--------------------------------------------------------------------------------
LockInit ==
    /\ registry = [s \in Sessions |-> NoEntry]
    /\ references = [e \in Entries |-> 0]
    /\ locked = [e \in Entries |-> FALSE]
    /\ waiters = [e \in Entries |-> <<>>]
    /\ woken = {}
    /\ session \in [Coroutines -> Sessions]
    /\ entry = [c \in Coroutines |-> NoEntry]
    /\ pc = [c \in Coroutines |-> "idle"]

(* asyncio.Lock.acquire() takes a free lock at once only when nobody queues.    *)
Free(e) == ~locked[e] /\ waiters[e] = <<>>

(* acquire() up to its first suspension: take the lock, or queue for it.        *)
AcquireOrQueue(c, e) ==
    \/ /\ Free(e)
       /\ locked' = [locked EXCEPT ![e] = TRUE]
       /\ pc' = [pc EXCEPT ![c] = "holding"]
       /\ UNCHANGED waiters
    \/ /\ ~Free(e)
       /\ waiters' = [waiters EXCEPT ![e] = Append(@, c)]
       /\ pc' = [pc EXCEPT ![c] = "waiting"]
       /\ UNCHANGED locked

(* lease() of a session that has an entry: count the lease and acquire.         *)
EnterExisting(c, s) ==
    /\ pc[c] = "idle"
    /\ registry[s] # NoEntry
    /\ session' = [session EXCEPT ![c] = s]
    /\ entry' = [entry EXCEPT ![c] = registry[s]]
    /\ references' = [references EXCEPT ![registry[s]] = @ + 1]
    /\ AcquireOrQueue(c, registry[s])
    /\ UNCHANGED <<registry, woken>>

(* lease() of a session that has none: create the entry; its lock is free.      *)
EnterNew(c, s, e) ==
    /\ pc[c] = "idle"
    /\ registry[s] = NoEntry
    /\ Unreferenced(e)
    /\ registry' = [registry EXCEPT ![s] = e]
    /\ session' = [session EXCEPT ![c] = s]
    /\ entry' = [entry EXCEPT ![c] = e]
    /\ references' = [references EXCEPT ![e] = 1]
    /\ locked' = [locked EXCEPT ![e] = TRUE]
    /\ waiters' = [waiters EXCEPT ![e] = <<>>]
    /\ pc' = [pc EXCEPT ![c] = "holding"]
    /\ UNCHANGED woken

(* A woken waiter runs: its future leaves the queue and it owns the lock.       *)
Granted(c) ==
    /\ pc[c] = "waiting"
    /\ c \in woken
    /\ waiters' = [waiters EXCEPT ![entry[c]] = Without(@, c)]
    /\ locked' = [locked EXCEPT ![entry[c]] = TRUE]
    /\ woken' = woken \ {c}
    /\ pc' = [pc EXCEPT ![c] = "holding"]
    /\ UNCHANGED <<registry, references, session, entry>>

(* asyncio's _wake_up_first: resolve the first queued future, if any.           *)
WakeFirst(q) == IF q = <<>> THEN {} ELSE {Head(q)}

\* Mutant: an entry is dropped as soon as its lock is free, waiters or not.
ForgetWhenFree(e, stillLocked) ==
    IF ~stillLocked
    THEN [s \in Sessions |-> IF registry[s] = e THEN NoEntry ELSE registry[s]]
    ELSE registry

(* The end of lease(): forget the entry when nobody else refers to it and its   *)
(* lock is not taken.                                                           *)
Forget(e, stillLocked) ==
    IF references[e] - 1 = 0 /\ ~stillLocked
    THEN [s \in Sessions |-> IF registry[s] = e THEN NoEntry ELSE registry[s]]
    ELSE registry

(* The finally clause of lease().                                               *)
Leave(c, stillLocked) ==
    /\ references' = [references EXCEPT ![entry[c]] = @ - 1]
    /\ registry' = Forget(entry[c], stillLocked)
    /\ entry' = [entry EXCEPT ![c] = NoEntry]
    /\ pc' = [pc EXCEPT ![c] = "idle"]
    /\ UNCHANGED session

(* The body of the async with ends, by return, exception or cancellation.       *)
Exit(c) ==
    /\ pc[c] = "holding"
    /\ locked' = [locked EXCEPT ![entry[c]] = FALSE]
    /\ woken' = woken \cup WakeFirst(waiters[entry[c]])
    /\ UNCHANGED waiters
    /\ Leave(c, FALSE)

\* Mutant: a cancelled acquire() keeps the wake-up it had already received.
CancelKeepingWakeup(c) ==
    /\ pc[c] = "waiting"
    /\ waiters' = [waiters EXCEPT ![entry[c]] = Without(@, c)]
    /\ woken' = woken \ {c}
    /\ UNCHANGED locked
    /\ Leave(c, locked[entry[c]])

(* A suspended acquire() is cancelled, possibly after its future was resolved;  *)
(* asyncio then passes the wake-up on if the lock is still free.                *)
CancelWaiting(c) ==
    /\ pc[c] = "waiting"
    /\ LET e == entry[c]
           rest == Without(waiters[e], c)
       IN /\ waiters' = [waiters EXCEPT ![e] = rest]
          /\ woken' = (woken \ {c}) \cup (IF locked[e] THEN {} ELSE WakeFirst(rest))
          /\ UNCHANGED locked
          /\ Leave(c, locked[e])

LockNext ==
    \E c \in Coroutines :
        \/ \E s \in Sessions : EnterExisting(c, s)
        \/ \E s \in Sessions, e \in Entries : EnterNew(c, s, e)
        \/ Granted(c)
        \/ Exit(c)
        \/ CancelWaiting(c)

LockSpec == LockInit /\ [][LockNext]_lockVars

(* The event loop runs every ready callback, and a leased body ends: it is      *)
(* bounded blocking work, or a request body that completes or disconnects.      *)
LockFairness == \A c \in Coroutines : WF_lockVars(Granted(c)) /\ WF_lockVars(Exit(c))

LockFairSpec == LockSpec /\ LockFairness

--------------------------------------------------------------------------------
(* Every variable keeps its shape; a count of leases never goes below zero.     *)
LockTypeOK ==
    /\ registry \in [Sessions -> Entries \cup {NoEntry}]
    /\ references \in [Entries -> Nat]
    /\ locked \in [Entries -> BOOLEAN]
    /\ waiters \in [Entries -> Seq(Coroutines)]
    /\ woken \subseteq Coroutines
    /\ session \in [Coroutines -> Sessions]
    /\ entry \in [Coroutines -> Entries \cup {NoEntry}]
    /\ pc \in [Coroutines -> {"idle", "waiting", "holding"}]

(* At most one coroutine runs the leased body of a session, although an entry   *)
(* is created, forgotten and created again while others queue: what every       *)
(* read-check-write sequence of the transport and the coordinators rests on.    *)
MutualExclusion ==
    \A c, d \in Coroutines :
        pc[c] = "holding" /\ pc[d] = "holding" /\ session[c] = session[d] => c = d

(* The registry does not outgrow the leases: an entry nobody holds or awaits is *)
(* gone, although release, wake-up and cancellation happen in separate steps.   *)
NoResidue ==
    \A s \in Sessions : registry[s] # NoEntry =>
        \E c \in Coroutines : pc[c] # "idle" /\ entry[c] = registry[s]

(* Leases of one entry are granted in the order in which they queued: whoever   *)
(* starts to hold it either heads the queue or found the queue empty.           *)
NoOvertaking ==
    [][\A c \in Coroutines :
        pc[c] # "holding" /\ pc'[c] = "holding"
            => LET q == waiters[entry'[c]] IN q = <<>> \/ Head(q) = c]_lockVars

(* Cancelling a coroutine that was just woken does not strand the ones behind   *)
(* it: every waiter is served or cancelled as long as leased bodies end.        *)
EveryWaiterLeaves == \A c \in Coroutines : pc[c] = "waiting" ~> pc[c] # "waiting"

--------------------------------------------------------------------------------
(* The inductive invariant: what makes the count, the queue and the registry    *)
(* agree between any two steps.                                                 *)
LeaseShape ==
    \A c \in Coroutines :
        /\ pc[c] = "idle" <=> entry[c] = NoEntry
        /\ pc[c] # "idle" => entry[c] = registry[session[c]]

EntriesUnshared ==
    \A s, t \in Sessions : registry[s] = registry[t] /\ registry[s] # NoEntry => s = t

Counted == \A e \in Entries : references[e] = Cardinality(Users(e))

OneHolder ==
    /\ \A c \in Coroutines : pc[c] = "holding" => locked[entry[c]]
    /\ \A e \in Entries : locked[e] =>
        \E c \in Coroutines : pc[c] = "holding" /\ entry[c] = e
    /\ \A c, d \in Coroutines :
        pc[c] = "holding" /\ pc[d] = "holding" /\ entry[c] = entry[d] => c = d

QueueShape ==
    \A e \in Entries :
        /\ \A i \in DOMAIN waiters[e] :
            pc[waiters[e][i]] = "waiting" /\ entry[waiters[e][i]] = e
        /\ \A i, j \in DOMAIN waiters[e] : waiters[e][i] = waiters[e][j] => i = j
        /\ \A c \in Coroutines :
            pc[c] = "waiting" /\ entry[c] = e => \E i \in DOMAIN waiters[e] : waiters[e][i] = c

WokenShape ==
    \A c \in woken :
        pc[c] = "waiting" /\ ~locked[entry[c]] /\ waiters[entry[c]][1] = c

IInv ==
    /\ LockTypeOK
    /\ LeaseShape
    /\ EntriesUnshared
    /\ Counted
    /\ OneHolder
    /\ QueueShape
    /\ WokenShape
    /\ NoResidue
================================================================================
