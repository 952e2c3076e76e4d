-------------------------------- MODULE Research --------------------------------
(* Research requests: the coordinator of application/research.py, the request   *)
(* rows with their one active slot, the budget holds, the transaction that      *)
(* saves an answer, and the external provider that works on one response.       *)
(*                                                                              *)
(* Nothing runs in the background.  The handlers of research_api.py are plain   *)
(* functions, so each runs on a thread of its own and drives the coordinator:   *)
(* a create admits and submits, every read submits or polls the active request  *)
(* (whoever asks), a cancel cancels.  A thread works on a COPY of the row and   *)
(* save() writes the whole copy back, without a version; a provider call lies   *)
(* between reading the copy and saving it.                                      *)
EXTENDS Naturals, FiniteSets

CONSTANTS
    Requests,     \* what clients ask, by owner and client_request_id
    Threads,      \* the threads that run handlers
    None,         \* no request
    Reservation,  \* what admission reserves of the budget
    Limit,        \* the budget of the day (and of the month)
    Cost,         \* what an answered request costs
    Priced,       \* the requests whose usage is reported and has a price
    Faults,       \* what may go wrong: calls that raise, the process that stops,
                  \* a provider that cannot be reached or works past the
                  \* deadline, research switched off
    MaxFaults     \* bound on raising calls and stops

ASSUME ResearchAssumption ==
    /\ IsFiniteSet(Requests) /\ None \notin Requests
    /\ Reservation \in Nat /\ Limit \in Nat /\ MaxFaults \in Nat
    /\ Cost \in 0..Reservation
    /\ Priced \subseteq Requests
    /\ Faults \subseteq {"error", "stop", "trouble", "late", "disabled"}

VARIABLES
    row,        \* request -> its research_requests row
    slot,       \* research_active_slot: the request that holds it
    hold,       \* request -> state of its research_budget_holds row
    answers,    \* requests with a completed document and record
    remote,     \* request -> the provider's response object
    creations,  \* history: request -> how often the provider was asked to create
    overdue,    \* requests past their deadline
    cancels,    \* history: requests whose cancellation was committed while no other
                \* thread was about to save an older copy of the row
    thread,     \* thread -> handler, step, request, copy of its row, and the rest
    faults      \* how many calls have raised and how often the process stopped

vars == <<row, slot, hold, answers, remote, creations, overdue, cancels, thread, faults>>

\* Refused and incomplete are failures here: they differ in wording only.
Terminal == {"saved", "failed", "cancelled", "timeout", "submission_unknown"}
Active == {"admitted", "submitting", "running", "validating", "cancel_requested"}

Rows == [state : Terminal \cup Active \cup {"none"},
         cleanup : {"not_required", "pending", "deleted", "failed"},
         handle : BOOLEAN,   \* remote_handle_json
         bound : BOOLEAN,    \* record_id
         cancel : BOOLEAN]   \* cancel_requested_at_ms
NoRow == [state |-> "none", cleanup |-> "not_required", handle |-> FALSE, bound |-> FALSE,
          cancel |-> FALSE]

Idle == [task |-> "none", pc |-> "idle", on |-> None, copy |-> NoRow, then |-> "idle",
         page |-> {}]

May(fault) == fault \in Faults
At(t, pc) == thread[t].pc = pc

--------------------------------------------------------------------------------
Init ==
    /\ row = [q \in Requests |-> NoRow]
    /\ slot = None
    /\ hold = [q \in Requests |-> "none"]
    /\ answers = {}
    /\ remote = [q \in Requests |-> "none"]
    /\ creations = [q \in Requests |-> 0]
    /\ overdue = {}
    /\ cancels = {}
    /\ thread = [t \in Threads |-> Idle]
    /\ faults = 0

stores == <<row, slot, hold, answers>>
rest == <<creations, overdue, cancels, faults>>

\* A thread forgets what it will not use again: after a claim, a create is like a read.
Become(t, local) ==
    thread' = [thread EXCEPT ![t] =
        CASE local.pc = "idle" -> Idle
          [] local.pc = "listing" -> [Idle EXCEPT !.task = "read", !.pc = "listing"]
          [] OTHER -> local]
Goto(t, pc) == Become(t, [thread[t] EXCEPT !.pc = pc])

\* The thread will save this copy and go on at the given step.
WillSave(t, copy, then) ==
    Become(t, [thread[t] EXCEPT !.pc = "saving", !.copy = copy, !.then = then])

\* _finish: the terminal state is saved first, the hold reconciled afterwards.
Finished(copy, state) ==
    [copy EXCEPT !.state = state,
                 !.cleanup = IF copy.handle THEN "pending" ELSE "not_required"]
WillFinish(t, copy, state) == WillSave(t, Finished(copy, state), "reconciling")

\* Only once the process has recovered are requests served.
Serving == \A t \in Threads : thread[t].task # "recover"

--------------------------------------------------------------------------------
(* Admission. *)

(* blocking_accounting_state: unknown usage, a cost above its reservation (ruled *)
(* out by the assumption on Cost), or a finished request that is not accounted. *)
Blocked ==
    \E q \in Requests :
        hold[q] = "unknown" \/ (hold[q] = "reserved" /\ row[q].state \in Terminal)

\* POST: a new client_request_id, no blocker, and a provider that is enabled.
StartCreate(t, q) ==
    /\ Serving /\ At(t, "idle")
    /\ row[q].state = "none"
    /\ ~Blocked
    /\ Become(t, [Idle EXCEPT !.task = "create", !.pc = "admitting", !.on = q])
    /\ UNCHANGED <<stores, remote, rest>>

Consumed(q) ==
    CASE hold[q] = "none" -> 0
      [] hold[q] = "reconciled" -> Cost
      [] OTHER -> Reservation

(* The units of the budget that are taken, each by one request: there are as    *)
(* many as the sum over the holds.                                              *)
Taken == {u \in Requests \X (1..Reservation) : u[2] <= Consumed(u[1])}
Total == Cardinality(Taken)

\* Mutant: a hold that nobody could price is not counted.
OverBudgetForgetting ==
    Cardinality({u \in Taken : hold[u[1]] # "unknown"}) + Reservation > Limit

OverBudget == Total + Reservation > Limit

(* One immediate transaction: a replay returns the stored row untouched, a held *)
(* slot or an exhausted budget refuses, and otherwise row, hold and slot are    *)
(* written together.                                                            *)
Admit(t) ==
    LET q == thread[t].on IN
    /\ At(t, "admitting")
    /\ IF row[q].state # "none" \/ slot # None \/ OverBudget
       THEN Goto(t, "idle") /\ UNCHANGED <<row, slot, hold>>
       ELSE /\ row' = [row EXCEPT ![q] = [NoRow EXCEPT !.state = "admitted"]]
            /\ slot' = q
            /\ hold' = [hold EXCEPT ![q] = "reserved"]
            /\ Goto(t, "claiming")
    /\ UNCHANGED <<answers, remote, rest>>

--------------------------------------------------------------------------------
(* Submission. *)

\* Mutant: a claim that somebody holds already is taken as one's own.
ClaimableAgain == slot # None /\ row[slot].state \in {"admitted", "submitting"}

Claimable == slot # None /\ row[slot].state = "admitted"

(* submit_pending up to its claim: the update ADMITTED -> SUBMITTING is atomic, *)
(* and the row is read in the same transaction.                                 *)
ClaimNow(t) ==
    /\ Claimable
    /\ row' = [row EXCEPT ![slot].state = "submitting"]
    /\ Become(t, [Idle EXCEPT !.task = "read", !.pc = "submitting", !.on = slot,
                               !.copy = row'[slot]])
NothingToClaim == (~Claimable \/ May("disabled")) /\ UNCHANGED row

\* The nudge that follows an admission.
Claim(t) ==
    /\ At(t, "claiming")
    /\ ClaimNow(t) \/ (NothingToClaim /\ Goto(t, "listing"))
    /\ UNCHANGED <<slot, hold, answers, remote, rest>>

(* GET of a request that exists, whichever is active: it submits, or without    *)
(* anything to claim it looks for the active request, to poll it.               *)
Read(t) ==
    /\ Serving /\ At(t, "idle")
    /\ \E q \in Requests : row[q].state # "none"
    /\ \/ ClaimNow(t)
       \/ /\ NothingToClaim
          /\ Become(t, [Idle EXCEPT !.task = "read", !.on = slot,
                            !.pc = IF slot = None THEN "listing" ELSE "loading"])
    /\ UNCHANGED <<slot, hold, answers, remote, rest>>

(* provider.submit and what its observation leads to.  The adapter reports every *)
(* failure as FAILED, also when the response was created and only the answer    *)
(* was lost; should the port raise, the submission is unknown.                  *)
Submit(t) ==
    LET q == thread[t].on  copy == thread[t].copy IN
    /\ At(t, "submitting")
    /\ \/ /\ creations' = [creations EXCEPT ![q] = @ + 1]
          /\ remote' = [remote EXCEPT ![q] = "running"]
          /\ \/ WillSave(t, [copy EXCEPT !.state = "running", !.handle = TRUE], "listing")
             \/ May("trouble") /\ \E state \in {"failed", "submission_unknown"} :
                                     WillFinish(t, copy, state)
       \/ /\ May("trouble")
          /\ \E state \in {"failed", "submission_unknown"} : WillFinish(t, copy, state)
          /\ UNCHANGED <<creations, remote>>
    /\ UNCHANGED <<stores, overdue, cancels, faults>>

--------------------------------------------------------------------------------
(* Polling. *)

\* _active_row has read the slot, and reads the row in another transaction.
Load(t) ==
    LET found == row[thread[t].on] IN
    /\ At(t, "loading")
    /\ Become(t, [thread[t] EXCEPT
          !.copy = found,
          !.pc = CASE found.state \in {"admitted", "submitting"} -> "listing"
                   [] found.state = "validating" -> "completing"
                   [] OTHER -> IF found.handle THEN "polling" ELSE "listing"])
    /\ UNCHANGED <<stores, remote, rest>>

\* What a provider that is asked to cancel may have done.
RemoteCancel(q) ==
    remote' = [remote EXCEPT ![q] = IF @ = "running" THEN "cancelled" ELSE @]

\* Mutant: an answer is accepted although its request was cancelled.
AcceptAnyway(t) == WillSave(t, [thread[t].copy EXCEPT !.state = "validating"], "completing")

\* _accept_completion: checkpoint the answer, unless the copy was cancelled.
Accept(t) ==
    LET copy == thread[t].copy IN
    IF copy.cancel THEN WillFinish(t, copy, "cancelled")
                   ELSE WillSave(t, [copy EXCEPT !.state = "validating"], "completing")

(* The deadline, or one provider.poll.  A response that is gone, and to the     *)
(* adapter also one that cannot be reached, is a failure.                       *)
Poll(t) ==
    LET q == thread[t].on  copy == thread[t].copy IN
    /\ At(t, "polling")
    /\ \/ /\ q \in overdue
          /\ RemoteCancel(q) \/ (May("trouble") /\ UNCHANGED remote)
          /\ WillFinish(t, copy, "timeout")
       \/ /\ q \notin overdue
          /\ \/ remote[q] = "running" /\ WillSave(t, copy, "listing")
             \/ remote[q] = "complete" /\ Accept(t)
             \/ remote[q] \in {"ended", "gone"} /\ WillFinish(t, copy, "failed")
             \/ remote[q] = "cancelled" /\ WillFinish(t, copy, "cancelled")
             \/ May("trouble") /\ (WillFinish(t, copy, "failed") \/ Goto(t, "listing"))
          /\ UNCHANGED remote
    /\ UNCHANGED <<stores, rest>>

(* The completion transaction: a bound request is a replay; otherwise document, *)
(* record and binding are written together, and a second document for the same  *)
(* operation violates uq_kronika_documents_operation_id.  When it raises, the   *)
(* copy is saved again for a later retry.                                       *)
CompleteAnswer(t) ==
    LET q == thread[t].on IN
    /\ At(t, "completing")
    /\ \/ /\ row[q].bound
          /\ Goto(t, "reloading")
          /\ UNCHANGED <<row, answers>>
       \/ /\ ~row[q].bound /\ q \notin answers
          /\ answers' = answers \cup {q}
          /\ row' = [row EXCEPT ![q].bound = TRUE]
          /\ Goto(t, "reloading")
       \/ /\ (~row[q].bound /\ q \in answers) \/ May("error")
          /\ WillSave(t, thread[t].copy, "listing")
          /\ UNCHANGED <<row, answers>>
    /\ UNCHANGED <<slot, hold, remote, rest>>

Reload(t) ==
    /\ At(t, "reloading")
    /\ WillFinish(t, row[thread[t].on], "saved")
    /\ UNCHANGED <<stores, remote, rest>>

--------------------------------------------------------------------------------
(* Saving and accounting. *)

Frees(copy) == copy.state \in Terminal

\* Another thread still has the row as it was before it was cancelled.
Contested(t, q) ==
    \E u \in Threads \ {t} :
        \/ /\ thread[u].on = q /\ ~thread[u].copy.cancel
           /\ thread[u].pc \in {"submitting", "polling", "completing", "saving"}
        \/ \E e \in thread[u].page : e.on = q /\ ~e.copy.cancel

(* save(): every mutable column of the copy, and in the same transaction the    *)
(* slot, should the copy be terminal and the request still hold it.             *)
Save(t) ==
    LET q == thread[t].on  copy == thread[t].copy  then == thread[t].then IN
    /\ At(t, "saving")
    /\ row' = [row EXCEPT ![q] = copy]
    /\ slot' = IF Frees(copy) /\ slot = q THEN None ELSE slot
    /\ cancels' = IF then = "cancelling" /\ ~Contested(t, q) THEN cancels \cup {q} ELSE cancels
    /\ Become(t, [thread[t] EXCEPT !.pc = then, !.then = "idle"])
    /\ UNCHANGED <<hold, answers, remote, creations, overdue, faults>>

(* _reconcile, in a transaction of its own: only a reserved hold changes.  A    *)
(* confirmed cancellation is then saved once more.                              *)
Reconcile(t) ==
    LET q == thread[t].on  copy == thread[t].copy IN
    /\ At(t, "reconciling")
    /\ hold' = [hold EXCEPT ![q] =
          IF @ # "reserved" THEN @
          ELSE IF copy.state = "saved" /\ q \in Priced THEN "reconciled" ELSE "unknown"]
    /\ CASE thread[t].task = "recover" -> Goto(t, "idle")
         [] thread[t].task = "cancel" ->
              IF copy.state = "cancelled" THEN WillSave(t, copy, "idle") ELSE Goto(t, "idle")
         [] OTHER -> Goto(t, "listing")
    /\ UNCHANGED <<row, slot, answers, remote, rest>>

--------------------------------------------------------------------------------
(* Cancellation. *)

\* POST cancel of a request that has not ended: ask once, then go to the provider.
StartCancel(t, q) ==
    LET found == row[q]
        local == [Idle EXCEPT !.task = "cancel", !.on = q, !.copy = found] IN
    /\ Serving /\ At(t, "idle")
    /\ found.state \in Active
    /\ Become(t, IF found.cancel
                 THEN [local EXCEPT !.pc = "cancelling"]
                 ELSE [local EXCEPT !.pc = "saving", !.then = "cancelling",
                                    !.copy.state = "cancel_requested", !.copy.cancel = TRUE])
    /\ UNCHANGED <<stores, remote, rest>>

\* Mutant: a cancelled request is not accounted.
CancelUnaccounted(t) ==
    LET q == thread[t].on  copy == thread[t].copy IN
    /\ At(t, "cancelling")
    /\ \/ ~copy.handle /\ Goto(t, "idle") /\ UNCHANGED remote
       \/ /\ copy.handle
          /\ RemoteCancel(q)
          /\ WillSave(t, [copy EXCEPT !.state = "cancelled"], "idle")
    /\ UNCHANGED <<stores, rest>>

(* Without a handle there is nothing to cancel at the provider, and the request *)
(* stays as it is.  Otherwise the provider confirms, or refuses, which fails    *)
(* the request.                                                                 *)
CancelRemote(t) ==
    LET q == thread[t].on  copy == thread[t].copy IN
    /\ At(t, "cancelling")
    /\ \/ ~copy.handle /\ Goto(t, "idle") /\ UNCHANGED remote
       \/ /\ copy.handle /\ remote[q] # "gone"
          /\ RemoteCancel(q)
          /\ WillFinish(t, copy, "cancelled")
       \/ /\ copy.handle /\ (remote[q] # "running" \/ May("trouble"))
          /\ WillFinish(t, copy, "failed")
          /\ UNCHANGED remote
    /\ UNCHANGED <<stores, rest>>

--------------------------------------------------------------------------------
(* release_remote_pending: the page is read once, and every response deleted    *)
(* is saved with the row the page holds.                                        *)

CleanupPending ==
    {q \in Requests :
        row[q].cleanup = "pending" /\ row[q].handle /\ row[q].state \in Terminal}

List(t) ==
    /\ At(t, "listing")
    /\ Become(t, [thread[t] EXCEPT
          !.pc = IF CleanupPending = {} THEN "idle" ELSE "deleting",
          !.page = {[on |-> q, copy |-> row[q]] : q \in CleanupPending}])
    /\ UNCHANGED <<stores, remote, rest>>

Delete(t) ==
    /\ At(t, "deleting")
    /\ \E e \in thread[t].page :
          LET left == thread[t].page \ {e}
              SaveAs(outcome) ==
                  Become(t, [thread[t] EXCEPT
                      !.pc = "saving", !.then = IF left = {} THEN "idle" ELSE "deleting",
                      !.on = e.on, !.copy = [e.copy EXCEPT !.cleanup = outcome],
                      !.page = left]) IN
          \/ remote' = [remote EXCEPT ![e.on] = "gone"] /\ SaveAs("deleted")
          \/ May("trouble") /\ SaveAs("failed") /\ UNCHANGED remote
    /\ UNCHANGED <<stores, rest>>

--------------------------------------------------------------------------------
(* Faults, recovery, the clock and the provider. *)

\* A repository call raises: the handler ends where it is.
CallRaises(t) ==
    /\ May("error") /\ faults < MaxFaults
    /\ thread[t].task \notin {"none", "recover"}
    /\ Become(t, Idle)
    /\ faults' = faults + 1
    /\ UNCHANGED <<stores, remote, creations, overdue, cancels>>

\* The process ends and starts again; before it serves requests it recovers.
ProcessStops ==
    /\ May("stop") /\ faults < MaxFaults
    /\ \E t \in Threads :
          thread' = [[u \in Threads |-> Idle] EXCEPT ![t].task = "recover", ![t].pc = "recovering"]
    /\ faults' = faults + 1
    /\ UNCHANGED <<stores, remote, creations, overdue, cancels>>

\* Mutant: recovery leaves an interrupted submission as it finds it.
RecoverNothing(t) ==
    /\ At(t, "recovering")
    /\ Become(t, Idle)
    /\ UNCHANGED <<stores, remote, rest>>

(* recover(): an interrupted submission is not repeated, its outcome is unknown. *)
Recover(t) ==
    /\ At(t, "recovering")
    /\ IF slot # None /\ row[slot].state = "submitting"
       THEN Become(t, [thread[t] EXCEPT
               !.pc = "saving", !.then = "reconciling", !.on = slot,
               !.copy = Finished(row[slot], "submission_unknown")])
       ELSE Become(t, Idle)
    /\ UNCHANGED <<stores, remote, rest>>

DeadlinePasses(q) ==
    /\ May("late") /\ slot = q /\ q \notin overdue
    /\ overdue' = overdue \cup {q}
    /\ UNCHANGED <<stores, remote, creations, cancels, thread, faults>>

\* The provider finishes its work, with an answer or without one.
RemoteEnds(q) ==
    /\ remote[q] = "running"
    /\ \E outcome \in {"complete", "ended"} : remote' = [remote EXCEPT ![q] = outcome]
    /\ UNCHANGED <<stores, rest, thread>>

--------------------------------------------------------------------------------
\* A step of a handler that has begun.
Step(t) ==
    \/ Admit(t) \/ Claim(t) \/ Submit(t) \/ Load(t) \/ Poll(t)
    \/ CompleteAnswer(t) \/ Reload(t) \/ Save(t) \/ Reconcile(t) \/ CancelRemote(t)
    \/ List(t) \/ Delete(t) \/ Recover(t)

Next ==
    \/ \E t \in Threads :
          \/ Step(t) \/ Read(t) \/ CallRaises(t)
          \/ \E q \in Requests : StartCreate(t, q) \/ StartCancel(t, q)
    \/ \E q \in Requests : DeadlinePasses(q) \/ RemoteEnds(q)
    \/ ProcessStops

Spec == Init /\ [][Next]_vars

(* A handler that runs goes on, time passes, and a client that waits for its    *)
(* answer keeps reading, whatever other handlers are started in between.        *)
Fairness ==
    /\ \A t \in Threads : WF_vars(Step(t))
    /\ \A q \in Requests : WF_vars(DeadlinePasses(q))
    /\ SF_vars(\E t \in Threads : Read(t))

FairSpec == Spec /\ Fairness

--------------------------------------------------------------------------------
(* A request is admitted with its hold, and only admitted requests have         *)
(* anything else.                                                               *)
TypeOK ==
    /\ row \in [Requests -> Rows]
    /\ slot \in Requests \cup {None}
    /\ hold \in [Requests -> {"none", "reserved", "reconciled", "unknown"}]
    /\ answers \subseteq Requests
    /\ remote \in [Requests -> {"none", "running", "complete", "ended", "cancelled", "gone"}]
    /\ creations \in [Requests -> Nat]
    /\ overdue \subseteq Requests /\ cancels \subseteq Requests
    /\ faults \in 0..MaxFaults
    /\ thread \in [Threads ->
          [task : {"none", "create", "read", "cancel", "recover"},
           pc : {"idle", "admitting", "claiming", "submitting", "loading",
                 "polling", "completing", "reloading", "saving", "reconciling",
                 "cancelling", "listing", "deleting", "recovering"},
           on : Requests \cup {None}, copy : Rows,
           then : {"idle", "listing", "completing", "reconciling", "cancelling", "deleting"},
           page : SUBSET [on : Requests, copy : Rows]]]
    /\ \A q \in Requests : (row[q].state = "none") = (hold[q] = "none")

(* "The atomic ADMITTED to SUBMITTING claim guarantees only one winner issues   *)
(* provider creation", and a restart never submits again: however stale the     *)
(* copies that other threads write back, a request is created at most once.     *)
SubmittedOnce == \A q \in Requests : creations[q] <= 1

(* The holds of the day never exceed the limit, also when a request was         *)
(* admitted on an accounting check that another thread made stale.              *)
BudgetRespected == Total <= Limit

(* A request that has ended is accounted, or a thread is about to account it,   *)
(* unless a stop or an error came in between: then admission stays blocked.     *)
Accounted ==
    \A q \in Requests :
        row[q].state \in Terminal /\ hold[q] = "reserved" =>
            faults > 0 \/ \E t \in Threads : At(t, "reconciling") /\ thread[t].on = q

(* A cancellation that commits while no other thread is at work on an older     *)
(* copy of the row prevents the answer for good: whoever polls, whatever the    *)
(* provider does and wherever the process stops after the commit, no save and   *)
(* no recovery takes it back, and _accept_completion refuses the result.  With  *)
(* such a thread at work the code does not keep this promise.                   *)
UncontestedCancelPreventsResult == [][\A q \in answers' \ answers : q \notin cancels]_vars

(* The active request ends, whatever the provider does and wherever the process *)
(* stopped, unless it was cancelled before its handle was known.                *)
EveryRequestFinishes ==
    \A q \in Requests :
        slot = q ~> slot # q \/ (row[q].state = "cancel_requested" /\ ~row[q].handle)

(* poll_once: "Advance the active running or cancelling request."               *)
CancellingAdvances ==
    \A q \in Requests :
        row[q].state = "cancel_requested" ~> row[q].state # "cancel_requested"
================================================================================
