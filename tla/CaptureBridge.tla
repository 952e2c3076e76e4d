----------------------------- MODULE CaptureBridge -----------------------------
(* The capture bridge (kronika_capture/bridge): a client asks for a prompt to   *)
(* be sent on a browser page, a JobManager keeps the job in memory and in a     *)
(* SQLite journal, and a headless runner takes it, asks for the permission to   *)
(* send, clicks, and delivers the answer.                                       *)
(*                                                                              *)
(* The prompt must not be sent twice, whatever replies are lost and whoever     *)
(* stops: every change is committed before it is acknowledged, a commit names   *)
(* the epoch of its manager, and what was in flight when somebody disappeared   *)
(* ends as ambiguous and blocks the service until an administrator resumes it.  *)
(*                                                                              *)
(* Time only appears as what it allows: a deadline may pass, and a connection   *)
(* may be judged lost, at any step.  All of it takes less than the 24 hours     *)
(* after which ended jobs are pruned.                                           *)
EXTENDS Naturals, FiniteSets

CONSTANTS
    Requests,   \* request ids of the clients; each makes at most one job
    Managers,   \* processes that run a JobManager over the one journal
    Runners,    \* runner identities; a runner that stopped never returns
    None,       \* no runner, no job
    MaxFaults   \* bound: crashes, failed commits, lost replies, page troubles

ASSUME CaptureAssumption ==
    /\ None \notin Requests \cup Runners
    /\ MaxFaults \in Nat

VARIABLES
    journal,    \* the durable ledger: jobs and service record
    manager,    \* manager -> whether it is up, its journal usable, the runner
                \* heard of lately, and its copy of the ledger
    runner,     \* runner -> where it is in runJobLoop and executeOffer
    admin,      \* what the administrator read before posting a resume
    ids,        \* uuids drawn so far
    clicks,     \* history: request -> clicks on the page's send control
    promised,   \* history: request -> what was acknowledged
    reviewed,   \* history: uncertain ends an administrator knew when resuming
    faults      \* how many faults happened

vars == <<journal, manager, runner, admin, ids, clicks, promised, reviewed, faults>>
histories == <<clicks, promised, reviewed>>

InFlight == {"offered", "running", "needs_admin"}
Ended == {"done", "failed"}     \* failed stands for cancelled, too

\* A job as create_job makes it; held is admin_started of a queued job, end is
\* how its flight ended: the page's activity stopped, nobody knows, or the limit
\* of waiting was passed when it was resumed.
Fresh == [status |-> "queued", submission |-> "not_started", cancel |-> FALSE,
          held |-> FALSE, issue |-> 0, runner |-> None, end |-> "none"]
Absent == [Fresh EXCEPT !.status = "absent"]

\* The service record: issue is the intervention_id, resume the resume_id.
Blank == [epoch |-> 0, state |-> "new", runner |-> None, issue |-> 0, resume |-> 0]

Away == [pc |-> "off", job |-> None, epoch |-> 0, resume |-> 0,
         outcome |-> "none", stopped |-> FALSE]

Empty == [jobs |-> [j \in Requests |-> Absent], service |-> Blank]
Down == [up |-> FALSE, usable |-> TRUE, heard |-> FALSE, ledger |-> Empty]

Nothing == [job |-> None, issue |-> 0, known |-> {}]

New == ids + 1

Active(L) == {j \in Requests : L.jobs[j].status \in InFlight \cup {"queued"}}
Flying(L) == {j \in Requests : L.jobs[j].status \in InFlight}
Uncertain(L) == {j \in Requests : L.jobs[j].end = "unknown"}

\* Mutant: a pending resume survives a new reason to block.
BlockKeepingResume(service) ==
    [service EXCEPT !.state = "blocked", !.issue = IF @ = 0 THEN New ELSE @]

(* _block: whatever resume was pending no longer opens the service.             *)
Block(service) ==
    [service EXCEPT !.state = "blocked", !.resume = 0,
                    !.issue = IF @ = 0 THEN New ELSE @]

\* _terminal for a job in flight that nobody reports on.
Lost(job) == [job EXCEPT !.status = "failed", !.end = "unknown"]

--------------------------------------------------------------------------------
Init ==
    /\ journal = Empty
    /\ manager = [m \in Managers |-> Down]
    /\ runner = [r \in Runners |-> Away]
    /\ admin = Nothing
    /\ ids = 0
    /\ clicks = [j \in Requests |-> 0]
    /\ promised = [j \in Requests |-> "nothing"]
    /\ reviewed = {}
    /\ faults = 0

Fault == faults < MaxFaults /\ faults' = faults + 1
Pay(free) == IF free THEN UNCHANGED faults ELSE Fault

Ledger(m) == manager[m].ledger
Service(m) == Ledger(m).service
Works(m) == manager[m].up /\ manager[m].usable

\* The journal still carries the epoch of this manager.
Current(m) == journal.service.epoch = Service(m).epoch

(* A handler that needs an identity draws one: the next.                        *)
Named(L) == {L.service.issue, L.service.resume} \cup {L.jobs[j].issue : j \in Requests}
Draw(made) == ids' = IF \E L \in made : New \in Named(L) THEN New ELSE ids

(* _commit: one transaction for the whole ledger; only then does the manager's  *)
(* copy change.                                                                 *)
Commit(m, L) ==
    /\ Works(m) /\ Current(m)
    /\ journal' = L
    /\ manager' = [manager EXCEPT ![m].ledger = L]
    /\ Draw({L})

\* Mutant: an error of the database is reported, and the manager goes on.
CommitFailsLightly(m, before, L) ==
    /\ Works(m)
    /\ \/ /\ ~Current(m)
          /\ manager' = [manager EXCEPT ![m].usable = FALSE]
          /\ UNCHANGED <<journal, ids, faults>>
       \/ /\ Current(m) /\ Fault
          /\ journal' \in {before, L}
          /\ manager' = [manager EXCEPT ![m].ledger = before]
          /\ Draw({before, L})

(* _commit fails: another manager has taken over; or SQLite reports an error,   *)
(* before or after the transaction is durable.  The manager serves no more.     *)
CommitFails(m, before, L) ==
    /\ Works(m)
    /\ \/ /\ ~Current(m)
          /\ manager' = [manager EXCEPT ![m].usable = FALSE]
          /\ UNCHANGED <<journal, ids, faults>>
       \/ /\ Current(m) /\ Fault
          /\ journal' \in {before, L}
          /\ manager' = [manager EXCEPT ![m].usable = FALSE, ![m].ledger = before]
          /\ Draw({before, L})

\* A call whose handler ends by committing L: what the caller becomes when the
\* reply arrives, and when it hears of an error or of nothing.
Call(m, L, free, answered, unanswered) ==
    \/ Commit(m, L) /\ Pay(free) /\ answered
    \/ Commit(m, L) /\ Fault /\ unanswered
    \/ CommitFails(m, Ledger(m), L) /\ unanswered

Refused(unanswered) == unanswered /\ UNCHANGED <<journal, manager, ids, faults>>

Becomes(r, next) == runner' = [runner EXCEPT ![r] = next]

--------------------------------------------------------------------------------
\* Mutant: jobs in flight are queued once more.
RecoveredRequeueing(L, expires) ==
    LET Recover(job) == IF job.status \in InFlight THEN Fresh ELSE job
    IN [jobs |-> [j \in Requests |-> Recover(L.jobs[j])],
        service |-> [epoch |-> L.service.epoch + 1,
                     state |-> IF L.service.state = "blocked" THEN "blocked" ELSE "starting",
                     runner |-> None,
                     issue |-> IF L.service.state = "blocked" THEN New ELSE 0,
                     resume |-> 0]]

(* JobManager.__init__: whatever was in flight ends as E_AMBIGUOUS_SEND.  A     *)
(* queued job is kept unless its time ran out meanwhile.                        *)
Recovered(L, expires) ==
    LET held == \E j \in Requests : L.jobs[j].status = "queued" /\ L.jobs[j].held
        blocked == L.service.state = "blocked" \/ Flying(L) # {} \/ held
        Recover(job) ==
            CASE job.status \in InFlight -> Lost(job)
              [] job.status = "queued" /\ expires ->
                    [job EXCEPT !.status = "failed", !.held = FALSE]
              [] OTHER -> job
    IN [jobs |-> [j \in Requests |-> Recover(L.jobs[j])],
        service |-> [epoch |-> L.service.epoch + 1,
                     state |-> IF blocked THEN "blocked" ELSE "starting",
                     runner |-> None,
                     issue |-> IF blocked THEN New ELSE 0,
                     resume |-> 0]]

(* A manager opens the journal under the writer lock and commits its epoch.  An *)
(* earlier one may still be running.                                            *)
Start(m) ==
    /\ ~manager[m].up
    /\ \E expires \in BOOLEAN :
        LET L == Recovered(journal, expires)
            needless == \E n \in Managers : Works(n) /\ Current(n)
        IN \/ /\ journal' = L
              /\ manager' = [manager EXCEPT ![m] = [Down EXCEPT !.up = TRUE, !.ledger = L]]
              /\ Pay(~needless)
              /\ Draw({L})
           \/ /\ Fault
              /\ journal' = L /\ UNCHANGED manager
              /\ Draw({L})
    /\ UNCHANGED <<runner, admin, histories>>

(* A manager stops: one that serves no more is stopped by its operator.         *)
Stop(m) ==
    /\ manager[m].up
    /\ Pay(~(Works(m) /\ Current(m)))
    /\ manager' = [manager EXCEPT ![m] = Down]
    /\ UNCHANGED <<journal, runner, admin, ids, histories>>

--------------------------------------------------------------------------------

(* create_job: the request id makes it idempotent; a known job is answered from *)
(* memory.                                                                      *)
Create(m, j) ==
    LET L == [Ledger(m) EXCEPT !.jobs[j] = Fresh]
        accepted == promised' = [promised EXCEPT ![j] =
                                    IF @ = "nothing" THEN "admitted" ELSE @]
        known == Ledger(m).jobs[j].status # "absent"
        admits == /\ Works(m)
                  /\ Active(Ledger(m)) = {}
                  /\ Service(m).state = "ready" /\ manager[m].heard
    IN
    /\ manager[m].up
    /\ \/ known /\ accepted /\ UNCHANGED <<journal, manager, ids, faults>>
       \/ ~known /\ admits /\ Call(m, L, TRUE, accepted, UNCHANGED promised)
    /\ UNCHANGED <<runner, admin, clicks, reviewed>>

(* cancel: a queued job ends, a job in flight is asked to.                      *)
Cancel(m, j) ==
    LET job == Ledger(m).jobs[j]
        L == [Ledger(m) EXCEPT !.jobs[j] =
                IF job.status = "queued"
                THEN [job EXCEPT !.status = "failed", !.held = FALSE]
                ELSE [job EXCEPT !.cancel = TRUE]]
    IN
    /\ j \in Active(Ledger(m))
    /\ Call(m, L, TRUE, TRUE, TRUE)
    /\ UNCHANGED <<runner, admin, histories>>

(* watchdog: the grace of a cancel, the limit of an intervention, the deadline  *)
(* or the stall limit has passed; only a queued job ends without a block.       *)
Watchdog(m, j) ==
    LET job == Ledger(m).jobs[j]
        L == IF job.status = "queued"
             THEN [Ledger(m) EXCEPT !.jobs[j].status = "failed", !.jobs[j].held = FALSE]
             ELSE [Ledger(m) EXCEPT !.jobs[j] = Lost(job), !.service = Block(@)]
    IN
    /\ j \in Active(Ledger(m))
    /\ Call(m, L, TRUE, TRUE, TRUE)
    /\ UNCHANGED <<runner, admin, histories>>

--------------------------------------------------------------------------------
\* What an administrator names in a resume: the active job, and its
\* intervention or else the service's.
ActiveJob(L) == IF Active(L) = {} THEN None ELSE CHOOSE j \in Active(L) : TRUE
Issue(L) ==
    LET j == ActiveJob(L)
    IN IF j # None /\ L.jobs[j].issue # 0 THEN L.jobs[j].issue ELSE L.service.issue

(* The administrator reads the status of a blocked service.                     *)
ReadStatus(m) ==
    /\ manager[m].up /\ Service(m).state = "blocked"
    /\ admin' = [job |-> ActiveJob(Ledger(m)), issue |-> Issue(Ledger(m)),
                 known |-> Uncertain(Ledger(m))]
    /\ UNCHANGED <<journal, manager, runner, ids, histories, faults>>

(* resume, posted any time later and perhaps again, for what was read then.     *)
PostResume(m) ==
    LET L == [Ledger(m) EXCEPT !.service.resume = IF @ = 0 THEN New ELSE @] IN
    /\ Service(m).state = "blocked"
    /\ admin.issue # 0 /\ admin.issue = Issue(Ledger(m))
    /\ admin.job = ActiveJob(Ledger(m))
    /\ Call(m, L, TRUE, TRUE, TRUE)
    /\ reviewed' = reviewed \cup admin.known
    /\ UNCHANGED <<runner, admin, clicks, promised>>

--------------------------------------------------------------------------------
(* hello: what the service becomes when a runner that is not ready registers    *)
(* itself.  A queued job waits for the administrator; a pending resume is kept  *)
(* unless this report answers it.                                               *)
NotReady(L, r, resume) ==
    LET kept == IF resume = L.service.resume THEN 0 ELSE L.service.resume
        service == [Block(L.service) EXCEPT !.runner = r, !.resume = kept]
        Hold(job) == [job EXCEPT !.held = TRUE, !.issue = IF job.held THEN @ ELSE New]
    IN IF Active(L) \ Flying(L) = {} THEN [L EXCEPT !.service = service]
       ELSE LET job == Hold(L.jobs[ActiveJob(L)])
            IN [jobs |-> [L.jobs EXCEPT ![ActiveJob(L)] = job],
                service |-> [service EXCEPT !.issue = job.issue]]

(* A ready runner opens a service that starts, or one whose resume it answers   *)
(* while nothing is in flight; unless a queued job has waited too long.         *)
Ready(L, r, resume) ==
    LET opens == \/ L.service.state = "starting"
                 \/ Flying(L) = {} /\ L.service.resume # 0 /\ resume = L.service.resume
        open == [L.service EXCEPT !.state = "ready", !.runner = r, !.issue = 0, !.resume = 0]
        shut == [L.service EXCEPT !.runner = r]
        Free(job) == IF job.status = "queued" THEN [job EXCEPT !.held = FALSE, !.issue = 0]
                     ELSE job
        Expire(job) == IF job.status = "queued" THEN [job EXCEPT !.status = "failed", !.held = FALSE]
                       ELSE job
        held == \E j \in Requests : L.jobs[j].status = "queued" /\ L.jobs[j].held
        freed == [jobs |-> [j \in Requests |-> Free(L.jobs[j])], service |-> open]
        expired == [jobs |-> [j \in Requests |-> Expire(L.jobs[j])], service |-> shut]
    IN IF ~opens THEN {[L EXCEPT !.service = shut]}
       ELSE {freed} \cup (IF held THEN {expired} ELSE {})

Greeted(L, r, ready, resume) ==
    IF ready THEN Ready(L, r, resume) ELSE {NotReady(L, r, resume)}

\* The jobs of a runner that another one replaces are lost.
Dispossessed(L) ==
    IF Flying(L) = {} THEN L
    ELSE [jobs |-> [j \in Requests |-> IF j \in Flying(L) THEN Lost(L.jobs[j]) ELSE L.jobs[j]],
          service |-> Block(L.service)]

Executing == {"offered", "working", "paused", "clicking", "clicked", "observing"}

(* A runner that fails gives up the offer and reports it.  Only the engine can  *)
(* claim that the page's activity stopped, and not between the permission to    *)
(* send and the page's confirmation.                                            *)
Failing(r) ==
    {[runner[r] EXCEPT !.pc = "delivering", !.outcome = "failed", !.stopped = claim] :
        claim \in IF runner[r].pc \in {"working", "paused", "observing"}
                  THEN BOOLEAN ELSE {FALSE}}

\* What an error does to it: the loop starts over, an execution fails.
Recoil(r) ==
    CASE runner[r].pc \in Executing    -> Failing(r)
      [] runner[r].pc = "delivering"   -> {runner[r]}
      [] runner[r].pc = "dead"         -> {runner[r]}
      [] OTHER                         -> {[runner[r] EXCEPT !.pc = "idle"]}

Recoils(r) == \E next \in Recoil(r) : Becomes(r, next)

(* hello, from the idle loop or from an execution that keeps the connection     *)
(* alive.  A runner replaces another only when that one was not heard of        *)
(* lately.                                                                      *)
Hello(r, m, ready) ==
    LET idle == runner[r].pc = "idle"
        resume == IF idle THEN runner[r].resume ELSE 0
        replaces == Service(m).runner \notin {None, r}
        taken == IF replaces THEN Dispossessed(Ledger(m)) ELSE Ledger(m)
        Hear(service) ==
            IF ~idle THEN runner[r]
            ELSE [runner[r] EXCEPT
                    !.epoch = service.epoch, !.resume = service.resume,
                    !.pc = IF ready /\ service.state = "ready" THEN "ready" ELSE "idle"]
    IN
    /\ runner[r].pc \in {"idle"} \cup Executing
    /\ Works(m)
    /\ replaces => ~manager[m].heard
    /\ \/ \E L \in Greeted(taken, r, ready, resume) :
            \/ /\ Current(m)
               /\ journal' = L
               /\ manager' = [manager EXCEPT ![m].ledger = L, ![m].heard = TRUE]
               /\ Draw({taken, L})
               /\ \/ Pay(ready) /\ (IF idle \/ runner[r].epoch = L.service.epoch
                                    THEN Becomes(r, Hear(L.service)) ELSE Recoils(r))
                  \/ Fault /\ Recoils(r)
            \/ CommitFails(m, taken, L) /\ Recoils(r)
       \/ replaces /\ CommitFails(m, Ledger(m), taken) /\ Recoils(r)
    /\ UNCHANGED <<admin, histories>>

\* _runner: the caller is the registered runner, of this epoch, heard of lately.
Fenced(r, m) ==
    /\ manager[m].up /\ manager[m].heard
    /\ Service(m).runner = r /\ Service(m).epoch = runner[r].epoch

(* next_offer: a queued job is offered once.  The long poll of a runner that    *)
(* stopped may still take it.                                                   *)
NextOffer(r, m) ==
    LET j == ActiveJob(Ledger(m))
        L == [Ledger(m) EXCEPT !.jobs[j].status = "offered", !.jobs[j].runner = r]
        due == /\ Service(m).state = "ready" /\ j # None
               /\ Ledger(m).jobs[j].status = "queued" /\ ~Ledger(m).jobs[j].held
    IN
    /\ runner[r].pc \in {"ready", "dead"}
    /\ manager[m].up
    /\ IF Fenced(r, m) /\ Works(m) /\ due
       THEN Call(m, L, runner[r].pc = "ready",
                 IF runner[r].pc = "dead" THEN UNCHANGED runner
                 ELSE Becomes(r, [runner[r] EXCEPT !.pc = "offered", !.job = j]),
                 Recoils(r))
       ELSE Refused(Recoils(r))
    /\ UNCHANGED <<admin, histories>>

\* The job a runner executes, as a manager knows it.
Job(r, m) == Ledger(m).jobs[runner[r].job]
Changed(r, m, job) == [Ledger(m) EXCEPT !.jobs[runner[r].job] = job]

(* append_events with one event: refused to a runner that lost its fence and    *)
(* without effect on a job that ended.                                          *)
Event(r, m, may, L, free, next) ==
    /\ manager[m].up
    /\ IF Fenced(r, m) /\ Works(m) /\ Job(r, m).runner = r
            /\ Job(r, m).status \notin Ended /\ may
       THEN Call(m, L, free, next, Recoils(r))
       ELSE Refused(Recoils(r))
    /\ UNCHANGED <<admin, histories>>

(* accepted; a job whose cancel is already wanted is given up.                  *)
Accept(r, m) ==
    /\ runner[r].pc = "offered"
    /\ Event(r, m, Job(r, m).status = "offered",
             Changed(r, m, [Job(r, m) EXCEPT !.status = "running"]), TRUE,
             IF Job(r, m).cancel THEN Recoils(r)
             ELSE Becomes(r, [runner[r] EXCEPT !.pc = "working"]))

(* needs_admin: the page is not ready, or the service is not.                   *)
Pause(r, m) ==
    LET L == [Changed(r, m, [Job(r, m) EXCEPT !.status = "needs_admin", !.issue = New])
                EXCEPT !.service = [Block(@) EXCEPT !.issue = New]]
    IN
    /\ runner[r].pc \in {"working", "observing"}
    /\ Event(r, m, Job(r, m).status = "running" /\ Job(r, m).submission # "send_intent_persisted",
             L, Service(m).state # "ready",
             Becomes(r, [runner[r] EXCEPT !.pc = "paused"]))

(* resumed: the runner found the page ready after the administrator's resume.   *)
(* Past the limit of waiting the job ends instead, and the resume stays.        *)
Resume(r, m) ==
    LET again == [Changed(r, m, [Job(r, m) EXCEPT !.status = "running", !.issue = 0])
                    EXCEPT !.service.state = "ready", !.service.issue = 0, !.service.resume = 0]
        over == Changed(r, m, [Job(r, m) EXCEPT !.status = "failed", !.end = "limit"])
        pc == IF Job(r, m).submission = "not_started" THEN "working" ELSE "observing"
    IN
    /\ runner[r].pc = "paused"
    /\ \/ Event(r, m, Job(r, m).status = "needs_admin", again, TRUE,
                Becomes(r, [runner[r] EXCEPT !.pc = pc]))
       \/ Event(r, m, Job(r, m).status = "needs_admin", over, TRUE, Recoils(r))
    /\ Service(m).resume # 0 \/ ~Works(m)

(* send_intent: the permission to send, given once.                             *)
Intend(r, m) ==
    /\ runner[r].pc = "working"
    /\ Event(r, m, /\ Job(r, m).status = "running" /\ Job(r, m).submission = "not_started"
                   /\ ~Job(r, m).cancel /\ Service(m).state = "ready",
             Changed(r, m, [Job(r, m) EXCEPT !.submission = "send_intent_persisted"]), TRUE,
             Becomes(r, [runner[r] EXCEPT !.pc = "clicking"]))

(* The runner clicks the page's send control.                                   *)
Click(r) ==
    /\ runner[r].pc = "clicking"
    /\ clicks' = [clicks EXCEPT ![runner[r].job] = @ + 1]
    /\ Becomes(r, [runner[r] EXCEPT !.pc = "clicked"])
    /\ UNCHANGED <<journal, manager, admin, ids, promised, reviewed, faults>>

(* send_confirmed, once the page shows a new answer.                            *)
Confirm(r, m) ==
    /\ runner[r].pc = "clicked"
    /\ Event(r, m, Job(r, m).submission = "send_intent_persisted",
             Changed(r, m, [Job(r, m) EXCEPT !.submission = "send_confirmed"]), TRUE,
             Becomes(r, [runner[r] EXCEPT !.pc = "observing"]))

(* The answer is complete; the page may look busy all the same.                 *)
Answer(r) ==
    /\ runner[r].pc = "observing"
    /\ \E claim \in BOOLEAN :
        Becomes(r, [runner[r] EXCEPT !.pc = "delivering", !.outcome = "done", !.stopped = claim])
    /\ UNCHANGED <<journal, manager, admin, ids, histories, faults>>

(* The page, the connection or a cancel makes the execution fail.               *)
GiveUp(r) ==
    /\ runner[r].pc \in Executing
    /\ Recoils(r)
    /\ UNCHANGED <<journal, manager, admin, ids, histories, faults>>

\* Mutant: a late answer replaces the end that the watchdog wrote.
DeliverLate(r, m) ==
    LET job == [Job(r, m) EXCEPT !.status = runner[r].outcome, !.held = FALSE,
                                 !.end = IF runner[r].stopped THEN "stopped" ELSE "unknown"]
        L == [Changed(r, m, job) EXCEPT !.service = IF runner[r].stopped THEN @ ELSE Block(@)]
        home == Becomes(r, [Away EXCEPT !.pc = "idle", !.epoch = runner[r].epoch,
                                        !.resume = runner[r].resume])
        told == home /\ promised' = [promised EXCEPT ![runner[r].job] = "ended"]
    IN
    /\ runner[r].pc = "delivering"
    /\ Fenced(r, m) /\ Works(m)
    /\ Call(m, L, TRUE, told, UNCHANGED <<runner, promised>>)
    /\ UNCHANGED <<admin, clicks, reviewed>>

(* resolve: delivered until it is answered; a job that ended keeps its end.     *)
Deliver(r, m) ==
    LET job == [Job(r, m) EXCEPT !.status = runner[r].outcome, !.held = FALSE,
                                 !.end = IF runner[r].stopped THEN "stopped" ELSE "unknown"]
        L == [Changed(r, m, job) EXCEPT !.service = IF runner[r].stopped THEN @ ELSE Block(@)]
        home == Becomes(r, [Away EXCEPT !.pc = "idle", !.epoch = runner[r].epoch,
                                        !.resume = runner[r].resume])
        told == home /\ promised' = [promised EXCEPT ![runner[r].job] = "ended"]
        fenced == Fenced(r, m) /\ Job(r, m).runner = r
        ended == Job(r, m).status \in Ended
        proper == runner[r].outcome = "done" => Job(r, m).submission = "send_confirmed"
        untold == UNCHANGED <<runner, promised>>
    IN
    /\ runner[r].pc = "delivering"
    /\ manager[m].up
    /\ \/ ~fenced /\ Refused(home) /\ UNCHANGED promised
       \/ fenced /\ Works(m) /\ ended /\ Refused(told)
       \/ fenced /\ Works(m) /\ ~ended /\ ~proper /\ Refused(home) /\ UNCHANGED promised
       \/ fenced /\ Works(m) /\ ~ended /\ proper /\ Call(m, L, TRUE, told, untold)
    /\ UNCHANGED <<admin, clicks, reviewed>>

--------------------------------------------------------------------------------
(* A runner process starts; a second one is somebody's mistake.                 *)
Launch(r) ==
    /\ runner[r].pc = "off"
    /\ Pay(\A s \in Runners : runner[s].pc \in {"off", "dead"})
    /\ Becomes(r, [runner[r] EXCEPT !.pc = "idle"])
    /\ UNCHANGED <<journal, manager, admin, ids, histories>>

(* A runner stops; one is always left, as a new one has a new identity.         *)
Crash(r) ==
    /\ runner[r].pc \notin {"off", "dead"}
    /\ \E s \in Runners \ {r} : runner[s].pc # "dead"
    /\ Fault
    /\ Becomes(r, [Away EXCEPT !.pc = "dead", !.epoch = runner[r].epoch])
    /\ UNCHANGED <<journal, manager, admin, ids, histories>>

(* Nothing was heard of the runner for the connected window; another one may    *)
(* have been started because it hangs.                                          *)
Lapse(m) ==
    /\ manager[m].up /\ manager[m].heard
    /\ Pay(\E r \in Runners \ {Service(m).runner} : runner[r].pc \notin {"off", "dead"})
    /\ manager' = [manager EXCEPT ![m].heard = FALSE]
    /\ UNCHANGED <<journal, runner, admin, ids, histories>>

--------------------------------------------------------------------------------
Execute(r, m) ==
    \/ Accept(r, m) \/ Pause(r, m) \/ Resume(r, m) \/ Intend(r, m)
    \/ Confirm(r, m) \/ Deliver(r, m)

Next ==
    \/ \E m \in Managers :
        \/ Start(m) \/ Stop(m) \/ Lapse(m)
        \/ ReadStatus(m) \/ PostResume(m)
        \/ \E j \in Requests : Create(m, j) \/ Cancel(m, j) \/ Watchdog(m, j)
        \/ \E r \in Runners :
            \/ \E ready \in BOOLEAN : Hello(r, m, ready)
            \/ NextOffer(r, m) \/ Execute(r, m)
    \/ \E r \in Runners : Launch(r) \/ Crash(r) \/ Click(r) \/ Answer(r) \/ GiveUp(r)

Spec == Init /\ [][Next]_vars

--------------------------------------------------------------------------------
(* Ledgers whose identities are at most n.                                      *)
Jobs(n) == [status : {"absent", "queued"} \cup InFlight \cup Ended,
         submission : {"not_started", "send_intent_persisted", "send_confirmed"},
         cancel : BOOLEAN, held : BOOLEAN, issue : 0..n, runner : Runners \cup {None},
         end : {"none", "stopped", "unknown", "limit"}]

Services(n) == [epoch : Nat, state : {"new", "starting", "ready", "blocked"},
             runner : Runners \cup {None}, issue : 0..n, resume : 0..n]

Ledgers(n) == [jobs : [Requests -> Jobs(n)], service : Services(n)]

RunnerStates(n) ==
    [pc : Executing \cup {"off", "dead", "idle", "ready", "delivering"},
     job : Requests \cup {None}, epoch : Nat, resume : 0..n,
     outcome : {"none", "done", "failed"}, stopped : BOOLEAN]

\* What a job's fields have to do with its status.
Shaped(job) ==
    /\ job.held => job.status = "queued"
    /\ job.status \in InFlight => job.runner # None
    /\ job.end # "none" => job.status \in Ended
    /\ job.status = "absent" => job.submission = "not_started" /\ job.runner = None

(* Types, and the shape of the durable jobs.                                    *)
TypeOK ==
    /\ journal \in Ledgers(ids)
    /\ manager \in [Managers -> [up : BOOLEAN, usable : BOOLEAN, heard : BOOLEAN,
                                 ledger : Ledgers(ids)]]
    /\ runner \in [Runners -> RunnerStates(ids)]
    /\ admin \in [job : Requests \cup {None}, issue : 0..ids, known : SUBSET Requests]
    /\ ids \in Nat
    /\ clicks \in [Requests -> Nat]
    /\ promised \in [Requests -> {"nothing", "admitted", "ended"}]
    /\ reviewed \subseteq Requests
    /\ faults \in 0..MaxFaults
    /\ \A j \in Requests : Shaped(journal.jobs[j])

(* Two managers may run, but one of them at most can commit, and its copy is    *)
(* what the journal holds: no decision is made on a stale or uncertain copy.    *)
CopyIsJournal == \A m \in Managers : Works(m) /\ Current(m) => Ledger(m) = journal

(* A prompt is clicked at most once, and only when the journal says that it may *)
(* have been: whatever replies are lost, managers replaced and runners killed.  *)
SentOnce ==
    \A j \in Requests :
        /\ clicks[j] <= 1
        /\ clicks[j] = 1 => journal.jobs[j].submission # "not_started"

(* The service never holds two jobs at a time.                                  *)
OneFlight == Cardinality(Active(journal)) <= 1

(* What was acknowledged is durable: an admitted job is never forgotten, a      *)
(* delivered end never taken back, also with two managers over one journal.     *)
AcknowledgedKept ==
    \A j \in Requests :
        /\ promised[j] # "nothing" => journal.jobs[j].status # "absent"
        /\ promised[j] = "ended" => journal.jobs[j].status \in Ended

(* The service is open only when an administrator has seen every end of which   *)
(* nobody knows whether the page is still at work, and has asked to resume      *)
(* after that.  (A job resumed past its limit is not counted: its end is        *)
(* "limit", the pending resume survives it, and the service opens.)             *)
OpenIsReviewed ==
    journal.service.state \in {"starting", "ready"} => Uncertain(journal) \subseteq reviewed

(* An end is final: no late answer, restart or second manager rewrites it.      *)
EndsAreFinal ==
    [][\A j \in Requests :
        journal.jobs[j].status \in Ended => journal'.jobs[j] = journal.jobs[j]]_vars

================================================================================
