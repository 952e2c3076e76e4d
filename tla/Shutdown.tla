------------------------------ MODULE Shutdown ------------------------------
(* The end of the server process: systemd's SIGTERM, uvicorn's grace period,   *)
(* the lifespan that shuts its coordinators down in reverse order under one    *)
(* shared deadline, and the tool that the upload validator runs meanwhile in a *)
(* worker thread (SubprocessRunner).  Python cannot stop a thread: a thread    *)
(* takes its steps whatever the event loop does, and the process ends only     *)
(* when its threads have, or when systemd kills it.  A process that is sent    *)
(* SIGKILL counts as gone at once.  One upload is validated; what the other    *)
(* coordinators do is a thread, or for YouTube a task, that is busy or not.    *)
EXTENDS Naturals, Sequences

CONSTANTS
  Working,   \* the coordinators that have work to do
  Contents,  \* what the upload's file may be: good, bad, slow or noisy to probe
  MaxStops   \* bound on the stops of the service

Started == <<"analysis", "catalog", "publication", "validation", "youtube", "x">>
Coordinators == {Started[i] : i \in DOMAIN Started}
HasExecutor(r) == r # "youtube"

ASSUME ShutdownAssumption ==
  /\ Working \subseteq Coordinators
  /\ Contents \subseteq {"good", "bad", "slow", "noisy"} /\ Contents # {}
  /\ MaxStops \in Nat

VARIABLES
  app,      \* the process: serving, graceful, stopping, disposed or gone
  next,     \* the position of the resource being shut down
  phase,    \* how far its shutdown has come
  late,     \* the shared deadline has passed
  coord,    \* each coordinator: told to stop, its runner, its worker thread
  run,      \* the validation thread: its step, why it cleans up, how the run ended
  child,    \* the tool's process group: leader, its exit, a helper, deaf to SIGTERM
  flag,     \* SubprocessRunner's interrupt event
  stopFlag, \* ValidateReceivedUpload's stop event
  content,  \* what the upload's file is
  verdict,  \* the state of the upload's row
  stops     \* stops of the service so far

shutdownVars == <<app, next, phase, late, coord, run, child, flag, stopFlag, content, verdict,
                 stops>>
toolVars == <<run, child>>
loopVars == <<app, next, phase, late>>

NoChild == [leader |-> "none", code |-> "none", helper |-> FALSE, deaf |-> FALSE]
NoRun == [pc |-> "off", why |-> "none", over |-> FALSE]
Asleep == [stopping |-> FALSE, runner |-> "waiting", thread |-> "idle"]

ShutdownInit ==
  /\ app = "serving" /\ next = Len(Started) /\ phase = "interrupt" /\ late = FALSE
  /\ coord = [r \in Coordinators |-> Asleep]
  /\ run = NoRun /\ child = NoChild /\ flag = FALSE /\ stopFlag = FALSE
  /\ content \in Contents /\ verdict = "received" /\ stops = 0

-----------------------------------------------------------------------------
(* The tool's process group.                                                   *)
GroupExists(c) == c.leader = "alive" \/ c.helper
Terminated(c) == IF c.deaf THEN c
                 ELSE [c EXCEPT !.leader = IF @ = "alive" THEN "ended" ELSE @,
                                !.code = IF c.leader = "alive" THEN "signal" ELSE @,
                                !.helper = FALSE]
Killed(c) == Terminated([c EXCEPT !.deaf = FALSE])

\* A mutant's form counts a group as gone when its leader is.
LeaderExists(c) == c.leader = "alive"
StillThere(c) == GroupExists(c)

\* A slow file keeps the tool busy for ever, a noisy one makes it print without end.
LeaderEnds ==
  /\ child.leader = "alive" /\ content \in {"good", "bad"}
  /\ child' = [child EXCEPT !.leader = "ended", !.code = IF content = "good" THEN "ok" ELSE "error"]
  /\ UNCHANGED <<loopVars, coord, run, flag, stopFlag, content, verdict, stops>>

HelperEnds ==
  /\ child.helper
  /\ child' = [child EXCEPT !.helper = FALSE]
  /\ UNCHANGED <<loopVars, coord, run, flag, stopFlag, content, verdict, stops>>

-----------------------------------------------------------------------------
(* The validation thread.                                                      *)
Thread == UNCHANGED <<loopVars, flag, stopFlag, content, stops>>
ThreadGoes(pc) == run' = [run EXCEPT !.pc = pc] /\ UNCHANGED <<child, coord, verdict>>
CleanUp(why) == run' = [run EXCEPT !.pc = "cleaning", !.why = why] /\ UNCHANGED <<child, coord, verdict>>

\* The thread returns to its executor; the row it leaves is state.
Return(state) ==
  /\ run' = NoRun /\ child' = NoChild /\ verdict' = state
  /\ coord' = [coord EXCEPT !["validation"].thread = "idle"]

\* _sha256 looks at the stop event before every chunk.
Hash ==
  /\ run.pc = "hashing" /\ Thread
  /\ \/ stopFlag /\ Return("validating")
     \/ ~stopFlag /\ ThreadGoes("spawning")

Spawn ==
  /\ run.pc = "spawning" /\ Thread
  /\ \/ flag /\ Return("validating")
     \/ ~flag /\ Return("failed")   \* the tool cannot be started
     \/ /\ ~flag
        /\ \E h, d \in BOOLEAN : child' = [leader |-> "alive", code |-> "none", helper |-> h, deaf |-> d]
        /\ run' = [run EXCEPT !.pc = "watching"]
        /\ UNCHANGED <<coord, verdict>>

\* The head of the loop: first the interrupt, then the output.
Watch ==
  /\ run.pc = "watching" /\ Thread
  /\ \/ flag /\ CleanUp("interrupted")
     \/ ~flag /\ content = "noisy"
        /\ run' = [run EXCEPT !.pc = "cleaning", !.why = "overflow", !.over = TRUE]
        /\ UNCHANGED <<child, coord, verdict>>
     \/ ~flag /\ ThreadGoes("polling")

\* The rest of it: has the leader ended, is the time over.
Poll ==
  /\ run.pc = "polling" /\ Thread
  /\ \/ child.leader = "ended" /\ CleanUp("exited")
     \/ child.leader = "alive" /\ content = "slow" /\ CleanUp("timeout")
     \/ child.leader = "alive" /\ ThreadGoes("watching")

\* SIGTERM to what is left of the group, then SIGKILL to what outlived the grace.
Terminate ==
  /\ run.pc = "cleaning" /\ Thread
  /\ child' = IF GroupExists(child) THEN Terminated(child) ELSE child
  /\ run' = [run EXCEPT !.pc = "killing"] /\ UNCHANGED <<coord, verdict>>

Kill ==
  /\ run.pc = "killing" /\ Thread
  /\ child' = IF StillThere(child) THEN Killed(child) ELSE child
  /\ run' = [run EXCEPT !.pc = "reading"] /\ UNCHANGED <<coord, verdict>>

\* How run() ends: the readers reach the end of their pipes when the group is gone.
RunEnd == IF run.why = "interrupted" THEN "interrupted"
          ELSE IF run.over THEN "overflow"
          ELSE IF run.why = "exited" THEN child.code ELSE run.why

\* What the validator makes of it and what is recorded.
FinalizeReaders ==
  /\ run.pc = "reading" /\ Thread
  /\ \/ RunEnd = "interrupted" /\ Return("validating")
     \/ RunEnd \in {"overflow", "timeout", "error", "signal"} /\ Return("rejected")
     \/ RunEnd = "ok" /\ ThreadGoes("rehashing")

Rehash ==
  /\ run.pc = "rehashing" /\ Thread
  /\ \/ stopFlag /\ Return("validating")
     \/ ~stopFlag /\ Return("publish_pending")

ToolSteps == Hash \/ Spawn \/ Watch \/ Poll \/ Terminate \/ Kill \/ FinalizeReaders \/ Rehash

-----------------------------------------------------------------------------
(* The coordinators' runners, tasks on the event loop.                         *)
Serving == app \in {"serving", "graceful", "stopping"}

\* A candidate is found and given to the executor; YouTube awaits its tool itself.
Work(r) ==
  /\ Serving /\ r \in Working
  /\ coord[r].runner = "waiting" /\ ~coord[r].stopping
  /\ r = "validation" => verdict \in {"received", "validating"}
  /\ coord' = [coord EXCEPT ![r].runner = "working", ![r].thread = IF HasExecutor(r) THEN "busy" ELSE "idle"]
  /\ IF r = "validation" THEN verdict' = "validating" /\ run' = [run EXCEPT !.pc = "hashing"]
                         ELSE UNCHANGED <<verdict, run>>
  /\ UNCHANGED <<loopVars, child, flag, stopFlag, content, stops>>

\* The thread of another coordinator has done its operation.
FinishWork(r) ==
  /\ r # "validation" /\ coord[r].thread = "busy"
  /\ coord' = [coord EXCEPT ![r].thread = "idle"]
  /\ UNCHANGED <<loopVars, toolVars, flag, stopFlag, content, verdict, stops>>

\* The awaiting runner goes on; a runner that was told to stop ends.
RunnerResumes(r) ==
  /\ Serving
  /\ \/ coord[r].runner = "working" /\ coord[r].thread = "idle"
     \/ coord[r].runner = "waiting" /\ coord[r].stopping
     \/ coord[r].runner = "ending"
  /\ coord' = [coord EXCEPT ![r].runner = IF coord[r].stopping THEN "done" ELSE "waiting"]
  /\ UNCHANGED <<loopVars, toolVars, flag, stopFlag, content, verdict, stops>>

-----------------------------------------------------------------------------
(* The service manager.  Its signal goes to every process of the unit.         *)
Stop ==
  /\ app = "serving" /\ stops < MaxStops
  /\ app' = "graceful" /\ stops' = stops + 1 /\ child' = Terminated(child)
  /\ UNCHANGED <<next, phase, late, coord, run, flag, stopFlag, content, verdict>>

\* TimeoutStopSec has passed, or the host goes down.
KillService ==
  /\ app \in {"graceful", "stopping", "disposed"}
  /\ app' = "gone" /\ child' = NoChild /\ run' = NoRun
  /\ coord' = [r \in Coordinators |-> Asleep]
  /\ UNCHANGED <<next, phase, late, flag, stopFlag, content, verdict, stops>>

\* The interpreter joins its threads before it ends.
ProcessExits ==
  /\ app = "disposed" /\ \A r \in Coordinators : coord[r].thread = "idle"
  /\ app' = "gone" /\ coord' = [r \in Coordinators |-> Asleep]
  /\ UNCHANGED <<next, phase, late, toolVars, flag, stopFlag, content, verdict, stops>>

Start ==
  /\ app = "gone" /\ app' = "serving"
  /\ next' = Len(Started) /\ phase' = "interrupt" /\ late' = FALSE
  /\ flag' = FALSE /\ stopFlag' = FALSE
  /\ UNCHANGED <<coord, toolVars, content, verdict, stops>>

-----------------------------------------------------------------------------
(* The lifespan's end.                                                         *)
Current == Started[next]
Runner == coord[Current].runner
Only(p) == phase' = p /\ UNCHANGED <<app, next, late>>

\* uvicorn has waited for its connections; the deadline is created.
BeginShutdown ==
  /\ app = "graceful" /\ app' = "stopping"
  /\ UNCHANGED <<next, phase, late, coord, toolVars, flag, stopFlag, content, verdict, stops>>

DeadlinePasses ==
  /\ app = "stopping" /\ ~late /\ late' = TRUE
  /\ UNCHANGED <<app, next, phase, coord, toolVars, flag, stopFlag, content, verdict, stops>>

\* shutdown() of the resource: it stops claiming work; the YouTube runner is cancelled.
Interrupt ==
  /\ app = "stopping" /\ next > 0 /\ phase = "interrupt"
  /\ coord' = [coord EXCEPT ![Current].stopping = TRUE,
                            ![Current].runner = IF Current = "youtube" /\ @ \in {"waiting", "working"}
                                                THEN "ending" ELSE @]
  /\ flag' = (flag \/ Current = "validation")
  /\ Only("signal")
  /\ UNCHANGED <<toolVars, stopFlag, content, verdict, stops>>

\* SubprocessRunner.interrupt signals the group it has registered.
Signal ==
  /\ app = "stopping" /\ next > 0 /\ phase = "signal"
  /\ child' = IF Current = "validation" THEN Terminated(child) ELSE child
  /\ Only("stop")
  /\ UNCHANGED <<coord, run, flag, stopFlag, content, verdict, stops>>

RequestStop ==
  /\ app = "stopping" /\ next > 0 /\ phase = "stop"
  /\ stopFlag' = (stopFlag \/ Current = "validation")
  /\ Only(IF late THEN "settle" ELSE "await")
  /\ UNCHANGED <<coord, toolVars, flag, content, verdict, stops>>

\* wait_for_deadline: the runner ends, or the time does and the runner is cancelled.
Await ==
  /\ app = "stopping" /\ next > 0 /\ phase = "await"
  /\ \/ Runner = "done" /\ UNCHANGED coord
     \/ late /\ coord' = [coord EXCEPT ![Current].runner = "done"]
  /\ Only("settle")
  /\ UNCHANGED <<toolVars, flag, stopFlag, content, verdict, stops>>

\* settle_owned_executor waits for the thread only with settled work and time left.
\* A mutant's form joins the executor whatever the time.
AlwaysWait == TRUE
MayWait == ~late /\ Runner = "done"

Settle ==
  /\ app = "stopping" /\ next > 0 /\ phase = "settle"
  /\ HasExecutor(Current) /\ MayWait => coord[Current].thread = "idle"
  /\ next' = next - 1 /\ phase' = "interrupt"
  /\ UNCHANGED <<app, late, coord, toolVars, flag, stopFlag, content, verdict, stops>>

Dispose ==
  /\ app = "stopping" /\ next = 0 /\ app' = "disposed"
  /\ UNCHANGED <<next, phase, late, coord, toolVars, flag, stopFlag, content, verdict, stops>>

Ending == BeginShutdown \/ Interrupt \/ Signal \/ RequestStop \/ Await \/ Settle \/ Dispose

ShutdownNext ==
  \/ Ending \/ DeadlinePasses \/ ToolSteps \/ LeaderEnds \/ HelperEnds
  \/ Stop \/ KillService \/ ProcessExits \/ Start
  \/ \E r \in Coordinators : Work(r) \/ FinishWork(r) \/ RunnerResumes(r)

\* The event loop runs and time passes; nothing is assumed of threads and tools.
ShutdownFairness == WF_shutdownVars(Ending) /\ WF_shutdownVars(DeadlinePasses)

ShutdownSpec == ShutdownInit /\ [][ShutdownNext]_shutdownVars /\ ShutdownFairness

-----------------------------------------------------------------------------
ShutdownTypeOK ==
  /\ app \in {"serving", "graceful", "stopping", "disposed", "gone"}
  /\ next \in 0..Len(Started) /\ phase \in {"interrupt", "signal", "stop", "await", "settle"}
  /\ coord \in [Coordinators -> [stopping : BOOLEAN,
                                 runner : {"waiting", "working", "ending", "done"},
                                 thread : {"idle", "busy"}]]
  /\ run \in [pc : {"off", "hashing", "spawning", "watching", "polling", "cleaning", "killing",
                    "reading", "rehashing"},
              why : {"none", "interrupted", "overflow", "exited", "timeout"}, over : BOOLEAN]
  /\ child \in [leader : {"none", "alive", "ended"}, code : {"none", "signal", "ok", "error"},
                helper : BOOLEAN, deaf : BOOLEAN]
  /\ late \in BOOLEAN /\ flag \in BOOLEAN /\ stopFlag \in BOOLEAN
  /\ content \in Contents /\ stops \in 0..MaxStops
  /\ verdict \in {"received", "validating", "failed", "rejected", "publish_pending"}

(* The shutdown of the lifespan ends although a tool or a thread never does:   *)
(* "stop waiting for an executor-backed runner without blocking past the       *)
(* deadline" (shutdown_executor_backed_coordinator).                           *)
LifespanEnds == []<>(app \notin {"graceful", "stopping"})

(* When run() has returned nothing of the tool's group is left, whatever       *)
(* ended the run, although a helper may outlive its leader and both may be     *)
(* deaf to SIGTERM (_cleanup_owned_process_group).                             *)
RunLeavesNothing == run.pc \in {"off", "rehashing"} => ~GroupExists(child)

(* A stop of the service decides nothing about an upload: its validation is    *)
(* "interrupted before a durable outcome" (UploadMediaValidationInterrupted-   *)
(* Error) and a file that the tool accepts is never rejected.                  *)
StopIsNoVerdict == content = "good" => verdict # "rejected"

=============================================================================
