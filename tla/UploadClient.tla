---------------------------- MODULE UploadClient ----------------------------
(* The upload cockpit of the web client (app.js): one page at a time, whose    *)
(* handlers are coroutines that wait for answers while others run.  Every     *)
(* coroutine carries the context it was started in; an answer counts only if  *)
(* that context is still the page's.  The server is reduced to what the       *)
(* requests do to a session; UploadTransport and UploadPipeline model it in   *)
(* full.  A request or its answer may be lost, the page may be reloaded, and   *)
(* one upload is remembered across reloads.                                    *)
EXTENDS Naturals, FiniteSets

CONSTANTS
  Uploads,    \* session identifiers the server may give
  Files,      \* file objects the user may pick, all of one size
  Size,       \* number of chunks of a file
  Main,       \* coroutines of the user's actions
  Side,       \* coroutines that only ask for the status
  Missing,
  MaxGen,     \* bound on claimed contexts
  MaxLosses   \* bound on lost requests, lost answers and reloads

VARIABLES
  srv,      \* the server's sessions
  page,     \* uploadState
  stored,   \* the upload remembered in local storage, or Missing
  task,     \* the coroutines
  fenced,   \* per upload, the generation of its last confirmed cancel
  losses

clientVars == <<srv, page, stored, task, fenced, losses>>

Free == [at |-> "free", gen |-> 0, up |-> Missing, file |-> Missing, then |-> "end", offset |-> 0,
         reply |-> "none", snap |-> Missing]

EmptyPage(gen, open) ==
  [gen |-> gen, up |-> Missing, file |-> Missing, snap |-> Missing, act |-> 0, kind |-> "none",
   loop |-> 0, completion |-> 0, paused |-> FALSE, poll |-> Missing, open |-> open]

ClientInit ==
  /\ srv = [u \in Uploads |-> [state |-> "absent", got |-> 0]]
  /\ page = EmptyPage(1, FALSE) /\ stored = Missing
  /\ task = [t \in Main \cup Side |-> Free]
  /\ fenced = [u \in Uploads |-> 0]
  /\ losses = 0

------------------------------------------------------------------------------
(* What the page makes of a snapshot.                                          *)

ByteReceiving(s) == s # Missing /\ s.state = "receiving" /\ s.got < Size
Full(s) == s # Missing /\ s.state = "receiving" /\ s.got = Size
ShouldPoll(s) == s # Missing /\ s.state \in {"received", "validating", "published"}
PollingStops(s) == s # Missing /\ s.state \in {"published", "cataloged", "cancelled", "ended"}
CancelPermitted(s) == s # Missing /\ s.state \in {"receiving", "received"}

(* A record is kept until the upload is published or has ended.               *)
Remembered(s) == IF PollingStops(s) THEN Missing ELSE s.id

------------------------------------------------------------------------------
(* Contexts: who an answer belongs to.                                         *)

Context(p) == [Free EXCEPT !.gen = p.gen, !.up = p.up, !.file = p.file]

Current(c) == page.gen = c.gen /\ page.file = c.file /\ page.up = c.up

(* The loop and the completion have an owner of their own.                    *)
Owner(t) == /\ task[t].at \in {"status", "patch"} => page.loop = task[t].gen
            /\ task[t].at = "complete" => page.completion = task[t].gen
            /\ task[t].at = "poll" => page.poll = t

Invalidated(p) ==
  [p EXCEPT !.gen = @ + 1, !.act = 0, !.kind = "none", !.loop = 0, !.completion = 0,
            !.paused = FALSE, !.poll = Missing]

Claimed(p, kind) == [p EXCEPT !.gen = @ + 1, !.act = p.gen + 1, !.kind = kind, !.poll = Missing]

(* What the coroutine that owns generation g gives up when it ends.           *)
Released(p, g) ==
  [p EXCEPT !.act = IF @ = g THEN 0 ELSE @, !.kind = IF p.act = g THEN "none" ELSE @,
            !.loop = IF @ = g THEN 0 ELSE @, !.completion = IF @ = g THEN 0 ELSE @]

(* applyUploadSnapshot of the answer t has got.                               *)
Shows(t) == [page EXCEPT !.snap = task[t].snap, !.up = task[t].snap.id]
Remember(t) == stored' = Remembered(task[t].snap)

------------------------------------------------------------------------------
(* Steps of a coroutine.                                                       *)

Ask(c, at) == [c EXCEPT !.at = at, !.reply = "none", !.snap = Missing]
Continue(t, c) == task' = [task EXCEPT ![t] = c]
Finish(t, p) == page' = Released(p, task[t].gen) /\ Continue(t, Free)

(* scheduleUploadPolling, at the end of coroutine t: one timer at a time.     *)
EndAndPoll(t, p) ==
  LET q == Released(p, task[t].gen)
      rest == [s \in DOMAIN task |-> IF s = t \/ task[s].at = "timer" THEN Free ELSE task[s]]
  IN IF ShouldPoll(q.snap) /\ q.open
     THEN \E s \in Side :
            /\ rest[s].at = "free" /\ page' = [q EXCEPT !.poll = s]
            /\ task' = [rest EXCEPT ![s] = Ask(Context(q), "timer")]
     ELSE page' = [q EXCEPT !.poll = Missing] /\ task' = rest

(* Mutant: an answer is used without asking whether it is still wanted.       *)
AnsweredLate(t, at) == task[t].at = at /\ task[t].reply # "none"

Answered(t, at) == task[t].at = at /\ task[t].reply # "none" /\ Current(task[t]) /\ Owner(t)
Good(t) == task[t].reply = "ok"

(* The answer belongs to a context that is gone: the coroutine ends.          *)
Stale(t) ==
  /\ task[t].reply # "none" /\ ~(Current(task[t]) /\ Owner(t))
  /\ Finish(t, page)
  /\ UNCHANGED <<srv, stored, fenced, losses>>

(* runUploadLoop asks for the status every time round.                        *)
Loop(t, p, c) ==
  page' = [p EXCEPT !.loop = c.gen, !.paused = FALSE] /\ Continue(t, Ask(c, "status"))

Refresh(t, then) ==
  page' = page /\ Continue(t, Ask([task[t] EXCEPT !.then = then], "refresh")) /\ UNCHANGED stored

Complete(t, p) ==
  IF p.completion = 0
  THEN page' = [p EXCEPT !.completion = task[t].gen] /\ Continue(t, Ask(task[t], "complete"))
  ELSE Finish(t, p)

Created(t) ==
  /\ Answered(t, "create")
  /\ IF Good(t)
     THEN Remember(t) /\ Loop(t, Shows(t), [task[t] EXCEPT !.up = task[t].snap.id])
     ELSE Finish(t, page) /\ UNCHANGED stored
  /\ UNCHANGED <<srv, fenced, losses>>

Resumed(t) ==
  /\ Answered(t, "resume")
  /\ IF ~Good(t) THEN Finish(t, page) /\ UNCHANGED stored
     ELSE /\ Remember(t)
          /\ IF ByteReceiving(task[t].snap) \/ Full(task[t].snap) THEN Loop(t, Shows(t), task[t])
             ELSE EndAndPoll(t, Shows(t))
  /\ UNCHANGED <<srv, fenced, losses>>

StatusSeen(t) ==
  /\ Answered(t, "status")
  /\ LET s == task[t].snap IN
     IF ~Good(t) THEN Finish(t, page) /\ UNCHANGED stored
     ELSE /\ Remember(t)
          /\ CASE (ByteReceiving(s) \/ Full(s)) /\ page.paused -> Finish(t, Shows(t))
               [] ByteReceiving(s) /\ ~page.paused ->
                    /\ page' = Shows(t)
                    /\ Continue(t, Ask([task[t] EXCEPT !.offset = s.got], "patch"))
               [] Full(s) /\ ~page.paused -> Complete(t, Shows(t))
               [] OTHER -> EndAndPoll(t, Shows(t))
  /\ UNCHANGED <<srv, fenced, losses>>

(* A refusal that names the server's offset goes on from there.               *)
Patched(t) ==
  /\ Answered(t, "patch")
  /\ CASE task[t].reply = "offset" -> Refresh(t, "loop")
       [] task[t].reply \in {"refused", "lost"} -> Refresh(t, "end")
       [] OTHER ->
            /\ Remember(t)
            /\ IF page.paused THEN Finish(t, Shows(t))
               ELSE IF Full(task[t].snap) THEN Complete(t, Shows(t))
               ELSE page' = Shows(t) /\ Continue(t, Ask(task[t], "status"))
  /\ UNCHANGED <<srv, fenced, losses>>

(* After a refusal the page polls again; after silence it only looks once.    *)
Completed(t) ==
  /\ Answered(t, "complete")
  /\ CASE task[t].reply = "refused" -> Refresh(t, "poll")
       [] task[t].reply = "lost" -> Refresh(t, "end")
       [] OTHER -> Remember(t) /\ EndAndPoll(t, Shows(t))
  /\ UNCHANGED <<srv, fenced, losses>>

Deleted(t) ==
  /\ Answered(t, "delete")
  /\ CASE task[t].reply = "refused" -> Refresh(t, "poll")
       [] task[t].reply = "lost" -> Refresh(t, "end")
       [] OTHER -> Remember(t) /\ Finish(t, Shows(t))
  /\ UNCHANGED <<srv, fenced, losses>>

Resolved(t) ==
  /\ Answered(t, "resolve")
  /\ IF Good(t) THEN Remember(t) /\ EndAndPoll(t, Shows(t)) ELSE Refresh(t, "end")
  /\ UNCHANGED <<srv, fenced, losses>>

Refreshed(t) ==
  /\ Answered(t, "refresh")
  /\ LET p == IF Good(t) THEN Shows(t) ELSE page IN
     /\ IF Good(t) THEN Remember(t) ELSE UNCHANGED stored
     /\ CASE task[t].then = "loop" /\ p.loop = task[t].gen ->
                page' = p /\ Continue(t, Ask(task[t], "status"))
          [] task[t].then = "poll" -> EndAndPoll(t, p)
          [] OTHER -> Finish(t, p)
  /\ UNCHANGED <<srv, fenced, losses>>

(* pollUploadStatus keeps polling through lost requests.                      *)
Polled(t) ==
  /\ Answered(t, "poll")
  /\ IF Good(t) THEN Remember(t) /\ EndAndPoll(t, Shows(t))
     ELSE EndAndPoll(t, page) /\ UNCHANGED stored
  /\ UNCHANGED <<srv, fenced, losses>>

(* The status asked for when the dialog is opened or a record is restored.    *)
Looked(t) ==
  /\ Answered(t, "look")
  /\ IF Good(t) THEN Remember(t) /\ EndAndPoll(t, Shows(t)) ELSE Finish(t, page) /\ UNCHANGED stored
  /\ UNCHANGED <<srv, fenced, losses>>

TimerFires(t) ==
  /\ task[t].at = "timer"
  /\ Continue(t, IF Current(task[t]) /\ page.poll = t THEN Ask(task[t], "poll") ELSE Free)
  /\ UNCHANGED <<srv, page, stored, fenced, losses>>

------------------------------------------------------------------------------
(* The user.                                                                   *)

Room == page.gen < MaxGen

(* A new coroutine; asking for the status uses Side.                          *)
Launch(group, p, at, c) ==
  \E t \in group : /\ task[t].at = "free" /\ page' = p
                   /\ task' = [task EXCEPT ![t] = Ask(c, at)]

Select(f) ==
  /\ Room
  /\ LET s == page.snap
         fresh == [EmptyPage(page.gen + 1, page.open) EXCEPT !.file = f]
     IN \/ /\ s = Missing \/ PollingStops(s)
           /\ page' = fresh /\ stored' = Missing /\ UNCHANGED task
        \/ /\ ByteReceiving(s)
           /\ page' = [Invalidated(page) EXCEPT !.file = f]
           /\ stored' = Remembered(s) /\ UNCHANGED task
        \/ /\ s # Missing /\ ~PollingStops(s) /\ ~ByteReceiving(s)
           /\ LET p == [Invalidated(page) EXCEPT !.file = Missing] IN
              IF ShouldPoll(s) /\ p.open
              THEN \E t \in Side : /\ task[t].at = "free" /\ page' = [p EXCEPT !.poll = t]
                                   /\ task' = [task EXCEPT ![t] = Ask(Context(p), "timer")]
              ELSE page' = p /\ UNCHANGED task
           /\ UNCHANGED stored
  /\ UNCHANGED <<srv, fenced, losses>>

Start ==
  /\ Room /\ page.file # Missing /\ page.snap = Missing /\ page.act = 0
  /\ LET p == [Claimed(page, "start") EXCEPT !.paused = FALSE]
     IN Launch(Main, p, "create", [Context(p) EXCEPT !.up = Missing])
  /\ UNCHANGED <<srv, stored, fenced, losses>>

Pause ==
  /\ page.loop # 0 /\ ~page.paused /\ ByteReceiving(page.snap)
  /\ page' = [page EXCEPT !.paused = TRUE]
  /\ UNCHANGED <<srv, stored, task, fenced, losses>>

Resume ==
  /\ Room /\ ByteReceiving(page.snap) /\ page.act = 0 /\ page.file # Missing
  /\ LET p == Claimed(page, "resume") IN Launch(Main, p, "resume", Context(p))
  /\ UNCHANGED <<srv, stored, fenced, losses>>

(* Cancelling supersedes what the page is doing.                              *)
Cancel ==
  /\ Room /\ CancelPermitted(page.snap) /\ page.kind # "cancel" /\ page.completion = 0
  /\ LET p == [Claimed(page, "cancel") EXCEPT !.loop = 0, !.completion = 0, !.paused = FALSE]
     IN /\ Launch(Main, p, "delete", Context(p))
        /\ fenced' = [fenced EXCEPT ![page.up] = p.gen]
  /\ UNCHANGED <<srv, stored, losses>>

Resolve(how) ==
  /\ Room /\ page.snap # Missing /\ page.snap.state = "duplicate" /\ page.act = 0
  /\ LET p == Claimed(page, how)
     IN Launch(Main, p, "resolve", [Context(p) EXCEPT !.then = how])
  /\ UNCHANGED <<srv, stored, fenced, losses>>

(* restoreUploadRecovery, on a page that holds no upload.                     *)
RestoreUpload(p) ==
  LET q == [Invalidated(p) EXCEPT !.up = stored]
  IN Launch(Side, q, "look", [Context(q) EXCEPT !.file = Missing])

OpenDialog ==
  /\ ~page.open
  /\ LET p == [page EXCEPT !.open = TRUE] IN
     CASE page.up # Missing -> Launch(Side, p, "look", Context(p))
       [] page.up = Missing /\ stored # Missing -> Room /\ RestoreUpload(p)
       [] OTHER -> page' = p /\ UNCHANGED task
  /\ UNCHANGED <<srv, stored, fenced, losses>>

CloseDialog ==
  /\ page.open
  /\ page' = [page EXCEPT !.open = FALSE, !.poll = IF ShouldPoll(page.snap) THEN Missing ELSE @]
  /\ UNCHANGED <<srv, stored, task, fenced, losses>>

(* The coroutines of the old page are gone, what they asked may still arrive. *)
ReloadPage ==
  /\ Room /\ losses < MaxLosses /\ losses' = losses + 1
  /\ stored' = IF page.snap = Missing THEN stored ELSE Remembered(page.snap)
  /\ LET p == EmptyPage(page.gen + 1, FALSE) IN
     IF stored' = Missing THEN page' = p /\ UNCHANGED task
     ELSE LET q == [p EXCEPT !.up = stored'] IN Launch(Side, q, "look", Context(q))
  /\ UNCHANGED <<srv, fenced>>

------------------------------------------------------------------------------
(* The network and the server.                                                 *)

Reply(t, how, snap) == [task EXCEPT ![t].reply = how, ![t].snap = snap]

(* What the server takes a request for, and the session after it.             *)
Permitted(c, s) ==
  CASE c.at = "patch" -> s.state = "receiving" /\ s.got = c.offset
    [] c.at = "complete" -> s.state = "received" \/ (s.state = "receiving" /\ s.got = Size)
    [] c.at = "delete" -> s.state \in {"receiving", "received", "cancelled"}
    [] c.at = "resolve" -> s.state = "duplicate"
    [] OTHER -> TRUE
Effect(c, s) ==
  CASE c.at = "create" -> [s EXCEPT !.state = "receiving"]
    [] c.at = "patch" -> [s EXCEPT !.got = @ + 1]
    [] c.at = "complete" -> [s EXCEPT !.state = "received"]
    [] c.at = "delete" -> [s EXCEPT !.state = "cancelled"]
    [] c.at = "resolve" -> [s EXCEPT !.state = IF c.then = "keep" THEN "validating" ELSE "cancelled"]
    [] OTHER -> s

(* The session after the request, and the answer.                             *)
Outcome(t, u) ==
  LET c == task[t]  s == srv[u] IN
  IF Permitted(c, s) THEN [session |-> Effect(c, s), reply |-> "ok"]
  ELSE [session |-> s,
        reply |-> IF c.at = "patch" /\ s.state = "receiving" THEN "offset" ELSE "refused"]

Fresh == {u \in Uploads : srv[u].state = "absent"}

(* One new identifier is as good as another.                                  *)
Target(t) == IF task[t].at # "create" THEN {task[t].up}
             ELSE IF Fresh = {} THEN {} ELSE {CHOOSE u \in Fresh : TRUE}

Asked(t) == task[t].at \notin {"free", "timer"} /\ task[t].reply = "none"

Serve(t) ==
  /\ Asked(t)
  /\ \E u \in Target(t) :
       LET o == Outcome(t, u) IN
       /\ srv' = [srv EXCEPT ![u] = o.session]
       /\ \/ /\ task' = Reply(t, o.reply, [id |-> u, state |-> o.session.state, got |-> o.session.got])
             /\ UNCHANGED losses
          \/ /\ task' = Reply(t, "lost", Missing) /\ losses < MaxLosses /\ losses' = losses + 1
  /\ UNCHANGED <<page, stored, fenced>>

(* No session is left to give, or the request does not arrive.                *)
Lose(t) ==
  /\ Asked(t) /\ task' = Reply(t, "lost", Missing)
  /\ IF Target(t) = {} THEN UNCHANGED losses ELSE losses < MaxLosses /\ losses' = losses + 1
  /\ UNCHANGED <<srv, page, stored, fenced>>

Onward == [receiving |-> {"ended"}, received |-> {"validating"},
           validating |-> {"duplicate", "published", "ended"}, published |-> {"cataloged"}]

Progress(u) ==
  /\ srv[u].state \in DOMAIN Onward
  /\ \E later \in Onward[srv[u].state] : srv' = [srv EXCEPT ![u].state = later]
  /\ UNCHANGED <<page, stored, task, fenced, losses>>

Handle(t) ==
  \/ Stale(t) \/ Created(t) \/ Resumed(t) \/ StatusSeen(t) \/ Patched(t) \/ Completed(t)
  \/ Deleted(t) \/ Resolved(t) \/ Refreshed(t) \/ Polled(t) \/ Looked(t)

ClientNext ==
  \/ \E t \in Main \cup Side : Handle(t) \/ TimerFires(t) \/ Serve(t) \/ Lose(t)
  \/ \E f \in Files : Select(f)
  \/ Start \/ Pause \/ Resume \/ Cancel \/ \E how \in {"keep", "discard"} : Resolve(how)
  \/ OpenDialog \/ CloseDialog \/ ReloadPage
  \/ \E u \in Uploads : Progress(u)

ClientSpec == ClientInit /\ [][ClientNext]_clientVars

------------------------------------------------------------------------------

(* Once the user has confirmed a cancel, the page sends no further bytes and  *)
(* no completion for that upload unless the user asks anew.                   *)
FencedAfterCancel ==
  [][\A t \in Main :
       task'[t].at \in {"patch", "complete"} /\ task'[t].at # task[t].at =>
         task'[t].gen > fenced[task'[t].up]]_clientVars
==============================================================================
