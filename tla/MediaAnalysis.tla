--------------------------- MODULE MediaAnalysis ---------------------------
(***************************************************************************)
(* Durable analysis runs of one medium: the rows of media_analysis_runs,   *)
(* the coordinator that carries unfinished runs out one at a time, and the *)
(* handlers that run on threads of their own and use the same rows: the    *)
(* imported preview, which records an answer it already has, and movie     *)
(* identification, which claims its run and asks the provider itself.      *)
(*                                                                         *)
(* A row has a definition; runs of one definition supersede each other.    *)
(* Every change of a row is one immediate transaction that compares state  *)
(* and version with the copy its caller read earlier.                      *)
(***************************************************************************)
EXTENDS Naturals

CONSTANTS
    Threads,          \* handler threads
    MaxRuns,          \* bound: rows ever inserted
    MaxAttempts,      \* automatic_media_analysis_max_attempts
    PreviewAttempts,  \* DEFAULT_MAX_ANALYSIS_ATTEMPTS, the preview's limit
    MaxFaults,        \* bound: stops and failing transactions
    None

ASSUME BoundsAssumption ==
    /\ MaxRuns \in Nat /\ MaxFaults \in Nat
    /\ MaxAttempts \in Nat \ {0} /\ PreviewAttempts \in Nat \ {0}

VARIABLES
    made,      \* number of rows inserted; row ids are 1..made in creation order
    rows,      \* row id -> row
    wake,      \* the coordinator's asyncio.Event
    co,        \* the coordinator: its drain and the run in hand
    api,       \* thread -> the handler it runs
    up,        \* the process runs
    faults,    \* stops and errors so far
    calls,     \* row id -> provider submissions made for it
    returned   \* row id -> submissions whose answer reached the program

vars == <<made, rows, wake, co, api, up, faults, calls, returned>>

Runs == 1..MaxRuns
Definitions == {"generic", "movie"}
ActiveStates == {"pending", "analyzing"}
TerminalStates == {"analyzed", "failed"}
Answers == {"ok", "busy", "refused"}

\* The handlers: what they analyse and how often a run may have been tried.
Kinds == {"preview", "movie"}
DefinitionOf(k) == IF k = "movie" THEN "movie" ELSE "generic"
LimitOf(k) == IF k = "movie" THEN 1 ELSE PreviewAttempts

Fresh(d) == [def |-> d, state |-> "pending", attempts |-> 0, version |-> 1]
NoRow == [def |-> "generic", state |-> "absent", attempts |-> 0, version |-> 0]

Active(i) == rows[i].state \in ActiveStates
Terminal(i) == rows[i].state \in TerminalStates
Copy(i) == [id |-> i, row |-> rows[i]]

Afresh(pc) == [pc |-> pc, cursor |-> 0, page |-> {}, retry |-> FALSE,
               copy |-> None, answer |-> None]
Waiting == Afresh("waiting")
Resting == [pc |-> "resting", kind |-> "preview", copy |-> None, answer |-> None]

Init ==
    /\ made = 0
    /\ rows = [i \in Runs |-> NoRow]
    /\ wake = TRUE
    /\ co = Waiting
    /\ api = [t \in Threads |-> Resting]
    /\ up = TRUE
    /\ faults = 0
    /\ calls = [i \in Runs |-> 0]
    /\ returned = [i \in Runs |-> 0]

-----------------------------------------------------------------------------
(* The repository.                                                         *)

OfDefinition(d) == {i \in Runs : rows[i].state # "absent" /\ rows[i].def = d}
Latest(d) == {i \in OfDefinition(d) : \A j \in OfDefinition(d) : j <= i}

\* A manual request inserts unless a run of the definition is active.
NeedsRun(d) == \A i \in OfDefinition(d) : ~Active(i)

Insert(d) ==
    /\ made < MaxRuns
    /\ made' = made + 1
    /\ rows' = [rows EXCEPT ![made + 1] = Fresh(d)]

\* The compare of every compare-and-set.
Holds(c, s) == rows[c.id].state = s /\ rows[c.id].version = c.row.version

Claimable(c, limit) == Holds(c, "pending") /\ rows[c.id].attempts + 1 <= limit

Moved(i, s) == [rows EXCEPT ![i].state = s, ![i].version = @ + 1]
Claimed(i) ==
    [rows EXCEPT ![i].state = "analyzing", ![i].version = @ + 1, ![i].attempts = @ + 1]

\* list_unfinished: of every definition.
Listed == {i \in Runs : Active(i)}

-----------------------------------------------------------------------------
(* Requests.                                                               *)

\* notify_cataloged: get or create, never after terminal history, and wake.
Schedule ==
    /\ up
    /\ \/ OfDefinition("generic") = {} /\ Insert("generic")
       \/ OfDefinition("generic") # {} /\ UNCHANGED <<made, rows>>
    /\ wake' = TRUE
    /\ UNCHANGED <<co, api, up, faults, calls, returned>>

\* request_manual: the active run or a new one, and wake.
RequestManual ==
    /\ up
    /\ IF NeedsRun("generic") THEN Insert("generic") ELSE UNCHANGED <<made, rows>>
    /\ wake' = TRUE
    /\ UNCHANGED <<co, api, up, faults, calls, returned>>

\* The same for any other medium, whose runs are not looked at here.
NotifyOther ==
    /\ up
    /\ wake' = TRUE
    /\ UNCHANGED <<made, rows, co, api, up, faults, calls, returned>>

-----------------------------------------------------------------------------
(* The coordinator.                                                        *)

\* On to the rest of the page, or to the next page when it is used up.
Onward(retry) ==
    co' = [co EXCEPT !.pc = IF co.page = {} THEN "listing" ELSE "listed",
                     !.retry = @ \/ retry, !.copy = None, !.answer = None]

Drain == co' = Afresh("listing")

Wake ==
    /\ co.pc = "waiting" /\ up /\ wake
    /\ wake' = FALSE
    /\ Drain
    /\ UNCHANGED <<made, rows, api, up, faults, calls, returned>>

\* Executor thread: the unfinished runs behind the cursor.
List ==
    /\ co.pc = "listing"
    /\ co' = [co EXCEPT !.pc = "listed",
                        !.page = {Copy(i) : i \in {j \in Listed : j > co.cursor}}]
    /\ UNCHANGED <<made, rows, wake, api, up, faults, calls, returned>>

\* The next run of the page, as the page has it.
Take ==
    /\ co.pc = "listed"
    /\ \E c \in co.page :
        /\ \A d \in co.page : c.id <= d.id
        /\ co' = [co EXCEPT !.page = @ \ {c}, !.cursor = c.id, !.copy = c,
                            !.pc = IF c.row.state = "analyzing"
                                   THEN "resetting" ELSE "claiming"]
    /\ UNCHANGED <<made, rows, wake, api, up, faults, calls, returned>>

\* Mutant: the event is cleared and nobody looks at it.
FinishDeaf ==
    /\ co.pc = "listed" /\ co.page = {}
    /\ IF co.retry THEN co' = [co EXCEPT !.pc = "backoff"] ELSE co' = Waiting
    /\ wake' = FALSE
    /\ UNCHANGED <<made, rows, api, up, faults, calls, returned>>

\* An empty page ends the drain: retry later, start over, or go to sleep.
Finish ==
    /\ co.pc = "listed" /\ co.page = {}
    /\ \/ co.retry /\ co' = [co EXCEPT !.pc = "backoff"] /\ UNCHANGED wake
       \/ ~co.retry /\ wake /\ Drain /\ wake' = FALSE
       \/ ~co.retry /\ ~wake /\ co' = Waiting /\ UNCHANGED wake
    /\ UNCHANGED <<made, rows, api, up, faults, calls, returned>>

\* The delay is over or the event cut it short; either way it is cleared.
Backoff ==
    /\ co.pc = "backoff"
    /\ wake' = FALSE
    /\ Drain
    /\ UNCHANGED <<made, rows, api, up, faults, calls, returned>>

\* Mutant: an interrupted run is put back into the queue.
ResetToPending ==
    /\ co.pc = "resetting"
    /\ \/ /\ Holds(co.copy, "analyzing")
          /\ rows' = Moved(co.copy.id, "pending")
          /\ Onward(FALSE)
       \/ /\ ~Holds(co.copy, "analyzing")
          /\ co' = [co EXCEPT !.pc = "rereading"]
          /\ UNCHANGED rows
    /\ UNCHANGED <<made, wake, api, up, faults, calls, returned>>

\* An ANALYZING run that was listed counts as interrupted: outcome unknown.
Reset ==
    /\ co.pc = "resetting"
    /\ \/ /\ Holds(co.copy, "analyzing")
          /\ rows' = Moved(co.copy.id, "failed")
          /\ Onward(FALSE)
       \/ /\ ~Holds(co.copy, "analyzing")
          /\ co' = [co EXCEPT !.pc = "rereading"]
          /\ UNCHANGED rows
    /\ UNCHANGED <<made, wake, api, up, faults, calls, returned>>

\* After a conflict: the latest run of the definition, which may be another.
Reread ==
    /\ co.pc = "rereading"
    /\ \E i \in Latest(co.copy.row.def) :
        IF rows[i].state = "pending"
        THEN co' = [co EXCEPT !.pc = "claiming", !.copy = Copy(i)]
        ELSE Onward(FALSE)
    /\ UNCHANGED <<made, rows, wake, api, up, faults, calls, returned>>

Claim ==
    /\ co.pc = "claiming"
    /\ \/ /\ Claimable(co.copy, MaxAttempts)
          /\ rows' = Claimed(co.copy.id)
          /\ co' = [co EXCEPT !.pc = "preparing",
                              !.copy = [id |-> co.copy.id, row |-> rows'[co.copy.id]]]
       \/ /\ ~Claimable(co.copy, MaxAttempts)
          /\ Onward(TRUE)
          /\ UNCHANGED rows
    /\ UNCHANGED <<made, wake, api, up, faults, calls, returned>>

\* Local preparation fails, or the request goes out.
Prepare ==
    /\ co.pc = "preparing"
    /\ \/ /\ co' = [co EXCEPT !.pc = "recording", !.answer = "refused"]
          /\ UNCHANGED calls
       \/ /\ co' = [co EXCEPT !.pc = "asking"]
          /\ calls' = [calls EXCEPT ![co.copy.id] = @ + 1]
    /\ UNCHANGED <<made, rows, wake, api, up, faults, returned>>

Answered ==
    /\ co.pc = "asking"
    /\ \E a \in Answers : co' = [co EXCEPT !.pc = "recording", !.answer = a]
    /\ returned' = [returned EXCEPT ![co.copy.id] = @ + 1]
    /\ UNCHANGED <<made, rows, wake, api, up, faults, calls>>

Outcome(c, a) ==
    CASE a = "ok" -> "analyzed"
      [] a = "busy" /\ c.row.attempts < MaxAttempts -> "pending"
      [] OTHER -> "failed"

\* A requeued run counts as progress: nothing asks for another drain.
Record ==
    /\ co.pc = "recording"
    /\ \/ /\ Holds(co.copy, "analyzing")
          /\ rows' = Moved(co.copy.id, Outcome(co.copy, co.answer))
          /\ Onward(FALSE)
       \/ ~Holds(co.copy, "analyzing") /\ Onward(TRUE) /\ UNCHANGED rows
    /\ UNCHANGED <<made, wake, api, up, faults, calls, returned>>

\* A transaction raises and changes nothing.
CoordinatorError ==
    /\ faults < MaxFaults /\ faults' = faults + 1
    /\ \/ co.pc = "listing" /\ co' = [co EXCEPT !.pc = "backoff"]
       \/ co.pc \in {"resetting", "rereading", "claiming", "recording"} /\ Onward(TRUE)
    /\ UNCHANGED <<made, rows, wake, api, up, calls, returned>>

Coordinate ==
    \/ Wake \/ List \/ Take \/ Finish \/ Backoff
    \/ Reset \/ Reread \/ Claim \/ Prepare \/ Answered \/ Record

-----------------------------------------------------------------------------
(* The handlers on threads of their own.                                   *)

\* The request, and the run it got if that is pending; otherwise the handler
\* is done.  The coordinator is not woken.
Begin(t, k) ==
    LET d == DefinitionOf(k) IN
    /\ up /\ api[t].pc = "resting"
    /\ \/ /\ NeedsRun(d) /\ Insert(d)
          /\ api' = [api EXCEPT ![t] = [pc |-> "claiming", kind |-> k, answer |-> None,
                                        copy |-> [id |-> made + 1, row |-> Fresh(d)]]]
       \/ \E i \in OfDefinition(d) :
          /\ rows[i].state = "pending"
          /\ api' = [api EXCEPT ![t] = [pc |-> "claiming", kind |-> k, answer |-> None,
                                        copy |-> Copy(i)]]
          /\ UNCHANGED <<made, rows>>
    /\ UNCHANGED <<wake, co, up, faults, calls, returned>>

\* The preview has its answer already.
HandlerClaim(t) ==
    /\ api[t].pc = "claiming"
    /\ LET c == api[t].copy  k == api[t].kind IN
       \/ /\ Claimable(c, LimitOf(k))
          /\ rows' = Claimed(c.id)
          /\ api' = [api EXCEPT
                ![t].pc = IF k = "preview" THEN "recording" ELSE "preparing",
                ![t].answer = IF k = "preview" THEN "ok" ELSE None,
                ![t].copy = [id |-> c.id, row |-> rows'[c.id]]]
       \/ /\ ~Claimable(c, LimitOf(k))
          /\ api' = [api EXCEPT ![t] = Resting]
          /\ UNCHANGED rows
    /\ UNCHANGED <<made, wake, co, up, faults, calls, returned>>

HandlerPrepare(t) ==
    /\ api[t].pc = "preparing"
    /\ \/ /\ api' = [api EXCEPT ![t].pc = "recording", ![t].answer = "refused"]
          /\ UNCHANGED calls
       \/ /\ api' = [api EXCEPT ![t].pc = "asking"]
          /\ calls' = [calls EXCEPT ![api[t].copy.id] = @ + 1]
    /\ UNCHANGED <<made, rows, wake, co, up, faults, returned>>

HandlerAnswered(t) ==
    /\ api[t].pc = "asking"
    /\ \E a \in {"ok", "refused"} :
        api' = [api EXCEPT ![t].pc = "recording", ![t].answer = a]
    /\ returned' = [returned EXCEPT ![api[t].copy.id] = @ + 1]
    /\ UNCHANGED <<made, rows, wake, co, up, faults, calls>>

HandlerRecord(t) ==
    /\ api[t].pc = "recording"
    /\ IF Holds(api[t].copy, "analyzing")
       THEN rows' = Moved(api[t].copy.id,
                          IF api[t].answer = "ok" THEN "analyzed" ELSE "failed")
       ELSE UNCHANGED rows
    /\ api' = [api EXCEPT ![t] = Resting]
    /\ UNCHANGED <<made, wake, co, up, faults, calls, returned>>

HandlerError(t) ==
    /\ api[t].pc \in {"claiming", "recording"}
    /\ faults < MaxFaults /\ faults' = faults + 1
    /\ api' = [api EXCEPT ![t] = Resting]
    /\ UNCHANGED <<made, rows, wake, co, up, calls, returned>>

Handle(t) ==
    \/ HandlerClaim(t) \/ HandlerPrepare(t) \/ HandlerAnswered(t) \/ HandlerRecord(t)

-----------------------------------------------------------------------------
(* The process stops, also in the middle of a call; it starts again with   *)
(* the coordinator woken.                                                  *)

Stop ==
    /\ up /\ faults < MaxFaults
    /\ up' = FALSE /\ faults' = faults + 1
    /\ wake' = FALSE
    /\ co' = Waiting
    /\ api' = [t \in Threads |-> Resting]
    /\ UNCHANGED <<made, rows, calls, returned>>

Start ==
    /\ ~up
    /\ up' = TRUE
    /\ wake' = TRUE
    /\ UNCHANGED <<made, rows, co, api, faults, calls, returned>>

Next ==
    \/ Schedule \/ RequestManual \/ NotifyOther
    \/ Coordinate \/ CoordinatorError
    \/ \E t \in Threads :
        \/ \E k \in Kinds : Begin(t, k)
        \/ Handle(t)
        \/ HandlerError(t)
    \/ Stop \/ Start

Spec == Init /\ [][Next]_vars

\* The loop and the executor keep running what is ready, a thread finishes the
\* handler it began (calls time out), and a stopped service is started again.
FairSpec ==
    /\ Spec
    /\ WF_vars(Coordinate)
    /\ \A t \in Threads : WF_vars(Handle(t))
    /\ WF_vars(Start)

-----------------------------------------------------------------------------
LastVersion == 2 * MaxAttempts + 1

Rows == [def : Definitions, state : ActiveStates \cup TerminalStates,
         attempts : 0..MaxAttempts, version : 1..LastVersion]
Copies == [id : Runs, row : Rows]
Working == {"preparing", "asking", "recording"}
Coordinators ==
    [pc : {"waiting", "listing", "listed", "backoff", "resetting", "rereading",
           "claiming"} \cup Working,
     cursor : 0..MaxRuns, page : SUBSET Copies, retry : BOOLEAN,
     copy : Copies \cup {None}, answer : Answers \cup {None}]
Handlers ==
    [pc : {"resting", "claiming"} \cup Working, kind : Kinds,
     copy : Copies \cup {None}, answer : Answers \cup {None}]

(* Every variable has the values the program can give it: in particular no  *)
(* run is tried more often than the coordinator's limit, although handlers  *)
(* claim under limits of their own (_persist_failure, claim_pending).       *)
TypeOK ==
    /\ made \in 0..MaxRuns
    /\ rows \in [Runs -> Rows \cup {NoRow}]
    /\ \A i \in Runs : i <= made <=> rows[i] # NoRow
    /\ co \in Coordinators
    /\ api \in [Threads -> Handlers]
    /\ wake \in BOOLEAN /\ up \in BOOLEAN
    /\ faults \in 0..MaxFaults
    /\ calls \in [Runs -> 0..MaxAttempts]
    /\ returned \in [Runs -> 0..MaxAttempts]

(* Of the runs of one definition only the latest can be unfinished: that is *)
(* the one status reads and requests look at (create_manual_pending).       *)
HistoryIsOver ==
    \A i, j \in 1..made : i < j /\ rows[i].def = rows[j].def => Terminal(i)

(* While the coordinator prepares, asks or records, its run is still as it  *)
(* claimed it: no handler claims, ends or resets the run from under it.     *)
CoordinatorKeepsItsRun ==
    co.pc \in {"preparing", "asking", "recording"} => Holds(co.copy, "analyzing")

(* No replay of an ambiguous call: at most the last submission of a run has *)
(* an outcome nobody saw, over any number of stops, and every submission    *)
(* was counted in the row before it was made (ADR-0044, item 6).            *)
NoBlindReplay ==
    \A i \in Runs : calls[i] <= returned[i] + 1 /\ calls[i] <= rows[i].attempts

(* A run that ended is evidence: nobody's late result, claim or reset       *)
(* changes it (RequestManualMediaAnalysis).                                 *)
EndedRunsAreEvidence ==
    [][\A i \in Runs : Terminal(i) => rows'[i] = rows[i]]_vars

(* A wake-up raised while a run is unfinished is not lost: the run is tried *)
(* or ended, over stops and failing transactions (_reconcile_until_idle).   *)
EveryWakeUpTries ==
    \A i \in Runs : \A v \in 1..LastVersion - 1 :
        (wake /\ Active(i) /\ rows[i].version = v) ~> (rows[i].version > v)

(* ADR-0045: exactly one provider submission per explicit movie run, no     *)
(* retry after it.                                                          *)
MovieSubmittedOnce ==
    \A i \in 1..made : rows[i].def = "movie" => calls[i] <= 1

-----------------------------------------------------------------------------
(* Why the invariants above hold: MediaAnalysis_proofs shows that IInv is   *)
(* inductive.                                                               *)

\* A row's version tells its attempts, and a pending row has one left.
RowShape(r) ==
    /\ r.state = "pending" => r.attempts < MaxAttempts /\ r.version = 2 * r.attempts + 1
    /\ r.state = "analyzing" => r.version = 2 * r.attempts
    /\ r.state \in TerminalStates => r.version = 2 * r.attempts + 1

RowsShaped == \A i \in 1..made : RowShape(rows[i])

\* What a copy of the same version says is still so.
Faithful(c) ==
    /\ c \in Copies /\ c.id <= made
    /\ RowShape(c.row)
    /\ c.row.def = rows[c.id].def
    /\ c.row.version <= rows[c.id].version
    /\ c.row.version = rows[c.id].version => c.row = rows[c.id]

HoldsCopy == {"resetting", "rereading", "claiming"} \cup Working

CopiesFaithful ==
    /\ \A c \in co.page : Faithful(c) /\ c.row.state \in ActiveStates
    /\ co.pc \in HoldsCopy => Faithful(co.copy)
    /\ \A t \in Threads : api[t].pc \in HoldsCopy => Faithful(api[t].copy)

\* A run is in work at one place at most; it is as it was claimed, or it ended.
InWork(l) ==
    l.pc \in Working => Holds(l.copy, "analyzing") \/ Terminal(l.copy.id)

Apart(l, m) ==
    l.pc \in Working /\ m.pc \in Working => l.copy.id # m.copy.id

WorkIsExclusive ==
    /\ \A t \in Threads : InWork(api[t]) /\ Apart(co, api[t])
    /\ \A t, u \in Threads : t # u => Apart(api[t], api[u])

\* How many submissions a run has, by where it is in work.
Counted(l) ==
    l.pc \in Working =>
        LET i == l.copy.id IN
        IF l.pc = "asking" THEN calls[i] = returned[i] + 1
        ELSE /\ calls[i] = returned[i]
             /\ l.pc = "preparing" => calls[i] < rows[i].attempts

CallsCounted ==
    /\ \A i \in Runs :
        /\ returned[i] <= calls[i]
        /\ rows[i].state = "pending" => calls[i] = returned[i]
    /\ Counted(co)
    /\ \A t \in Threads : Counted(api[t])

IInv ==
    /\ TypeOK /\ RowsShaped /\ CopiesFaithful /\ HistoryIsOver
    /\ CoordinatorKeepsItsRun /\ WorkIsExclusive
    /\ NoBlindReplay /\ CallsCounted
=============================================================================
