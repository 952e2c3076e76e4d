----------------------------- MODULE Deployment -----------------------------
(* The two helpers that change the production host from an operator's          *)
(* workstation: framenest_release.py (deploy and rollback of the web release)  *)
(* and production_ai_deploy.py (the AI credential, its systemd drop-in and the *)
(* provider configuration).  Each is a fixed list of ssh commands.  A command  *)
(* is refused, succeeds, or, as a counted fault, never arrives or takes effect *)
(* with its answer lost; the switch of the release link may stop between its   *)
(* two halves and a workstation may go away at any point.  The helpers share   *)
(* framenest.service, which systemd restarts when it crashes.                  *)
EXTENDS Naturals, Sequences, FiniteSets

CONSTANTS
  Operators,    \* the workstations, each running one command at a time
  Releases,     \* commits that may be deployed
  First,        \* the release in service at the start
  Compatible,   \* the releases whose packaged head is the database's revision
  Sound,        \* the releases whose service becomes healthy
  Providers,    \* AI providers, each with a credential identity of its own
  Versions,     \* values a credential may have
  FirstProvider, FirstVersion,  \* the keys in place at the start
  Nothing,      \* absent
  MaxCommands,  \* bound on the commands given
  MaxBreaks     \* bound on the faults

(* The files of the keys: the credentials, the drop-in, the configuration. *)
KeyFiles == [credential: [Providers -> Versions \cup {Nothing}], dropin: Providers,
             config: Providers]

ASSUME DeploymentAssumption ==
  /\ First \in Releases \cap Compatible \cap Sound
  /\ Compatible \subseteq Releases /\ Sound \subseteq Releases
  /\ FirstProvider \in Providers /\ FirstVersion \in Versions
  /\ Nothing \notin Releases \cup Providers \cup Versions \cup KeyFiles
  /\ MaxCommands \in Nat /\ MaxBreaks \in Nat

VARIABLES
  doing,      \* what each workstation is doing: command, argument, step, verdict
  installed,  \* what the release trees under /opt/framenest/releases hold, as pairs
  staging,    \* the same for the trees being prepared
  current,    \* what /opt/framenest/current names
  next,       \* what a left-over /opt/framenest/current.next names
  stray,      \* links created inside a release by ln on a left-over current.next
  lock,       \* the deploy directory exists
  previous,   \* the release recorded for rollback in the deploy directory
  service,    \* framenest.service: its state, the release and the keys it runs with
  keys,       \* credential files, the drop-in and the provider configuration
  unit,       \* the drop-in systemd has loaded
  saved,      \* the recovery material: None or the keys it holds
  commands, breaks

webVars == <<installed, staging, current, next, stray, lock, previous>>
keyVars == <<keys, unit, saved>>
deploymentVars == <<doing, webVars, service, keyVars, commands, breaks>>

NoCommand == [cmd |-> "none", arg |-> Nothing, at |-> "idle", from |-> Nothing, verdict |-> "none"]

DeploySteps == <<"lock", "absent", "transfer", "directory", "source", "runtime", "relocated",
                 "marked", "publish", "schema", "checkpoint", "capture", "ready", "switch",
                 "restart", "verify", "clean", "unlock">>
RollbackSteps == <<"exists", "lock", "capture", "ready", "switch", "restart", "verify",
                   "clean", "unlock">>
KeySteps == <<"save", "credential", "dropin", "configure", "accept", "restart", "answer",
              "cleanup">>
UndoWithoutReload == <<"restore", "undo_restart", "undo_answer", "cleanup">>
UndoSteps == <<"restore", "reload", "undo_restart", "undo_answer", "cleanup">>
BackSteps == <<"back", "back_ready", "back_restart", "back_verify">>

StepsOf == [deploy |-> DeploySteps, rollback |-> RollbackSteps, credential |-> KeySteps]

(* The step that follows s when it succeeds. *)
After(steps, s) ==
  LET i == CHOOSE j \in DOMAIN steps : steps[j] = s
  IN IF i = Len(steps) THEN "idle" ELSE steps[i + 1]
InSteps(s, steps) == \E i \in DOMAIN steps : steps[i] = s

(* What a release tree is made of, in the order of its preparation.           *)
TreeParts == {"directory", "source", "runtime", "relocated", "marked"}
Trees(area) == {pair[1] : pair \in area}
Published == Trees(installed)

ServiceKeys == [drop |-> unit,
                secret |-> IF unit = Nothing THEN Nothing ELSE keys.credential[unit],
                config |-> keys.config]
Starting == [state |-> "starting", release |-> current, keys |-> ServiceKeys]

DeploymentInit ==
  /\ doing = [o \in Operators |-> NoCommand]
  /\ installed = {First} \X TreeParts /\ staging = {}
  /\ current = First /\ next = Nothing /\ stray = {}
  /\ lock = FALSE /\ previous = Nothing
  /\ keys = [credential |-> [p \in Providers |-> IF p = FirstProvider THEN FirstVersion ELSE Nothing],
             dropin |-> FirstProvider, config |-> FirstProvider]
  /\ unit = FirstProvider
  /\ service = [state |-> "active", release |-> First,
                keys |-> [drop |-> FirstProvider, secret |-> FirstVersion, config |-> FirstProvider]]
  /\ saved = Nothing
  /\ commands = 0 /\ breaks = 0

------------------------------------------------------------------------------
(* Progress of a command.                                                      *)

Fault == breaks < MaxBreaks /\ breaks' = breaks + 1

End(o, verdict) == doing' = [doing EXCEPT ![o] = [NoCommand EXCEPT !.verdict = verdict]]
Goto(o, s) == doing' = [doing EXCEPT ![o].at = s]
Judge(o, s, verdict) == doing' = [doing EXCEPT ![o].at = s, ![o].verdict = verdict]

InBack(o) == InSteps(doing[o].at, BackSteps)
InUndo(o) == InSteps(doing[o].at, UndoSteps) /\ doing[o].verdict = "undoing"

(* The step succeeded. *)
Advance(o) ==
  LET a == doing[o] IN
  CASE a.at = "back_verify" /\ a.cmd = "deploy" -> End(o, "restored")
    [] a.at = "back_verify" /\ a.cmd = "rollback" -> Judge(o, "clean", "restored")
    [] InBack(o) /\ a.at # "back_verify" -> Goto(o, After(BackSteps, a.at))
    [] InUndo(o) /\ a.at # "cleanup" -> Goto(o, After(UndoSteps, a.at))
    [] a.at = "cleanup" -> End(o, IF InUndo(o) THEN "restored" ELSE "done")
    [] a.at = "verify" -> Judge(o, "clean", "done")
    [] a.at = "unlock" -> End(o, a.verdict)
    [] OTHER -> Goto(o, After(StepsOf[a.cmd], a.at))

(* _cmd_deploy: an error from the readiness gate to the verification is       *)
(* rolled back; any other ends the command, and the deploy directory stays.   *)
FailDeploy(o) ==
  LET a == doing[o] IN
  CASE a.at \in {"ready", "switch", "restart", "verify"} -> Goto(o, "back")
    [] InBack(o) -> End(o, "stuck")
    [] OTHER -> End(o, "failed")

(* _cmd_rollback: the same, but the finally clause always removes the record  *)
(* and the directory once the directory was made.                             *)
FailRollback(o) ==
  LET a == doing[o] IN
  CASE a.at \in {"ready", "switch", "restart", "verify"} -> Goto(o, "back")
    [] InBack(o) -> Judge(o, "clean", "stuck")
    [] a.at = "capture" -> Judge(o, "clean", "failed")
    [] OTHER -> End(o, "failed")

(* deploy of production_ai_deploy.py: once the recovery material is complete  *)
(* an error restores it; an error of the restoration or of the cleanup leaves *)
(* the material for the operator.                                             *)
FailCredential(o) ==
  LET a == doing[o] IN
  CASE a.at = "save" \/ a.at = "cleanup" -> End(o, "failed")
    [] InUndo(o) /\ a.at # "cleanup" -> End(o, "stuck")
    [] OTHER -> Judge(o, "restore", "undoing")

Fail(o) ==
  CASE doing[o].cmd = "deploy" -> FailDeploy(o)
    [] doing[o].cmd = "rollback" -> FailRollback(o)
    [] OTHER -> FailCredential(o)

(* One ssh command: it is refused when it cannot be done, and a fault keeps   *)
(* it from arriving or loses its answer.                                      *)
Call(o, s, can, effect, same) ==
  /\ doing[o].at = s
  /\ \/ can /\ effect /\ Advance(o) /\ UNCHANGED breaks
     \/ can /\ effect /\ Fail(o) /\ Fault
     \/ can /\ same /\ Fail(o) /\ Fault
     \/ ~can /\ same /\ Fail(o) /\ UNCHANGED breaks
  /\ UNCHANGED commands

(* A command that only looks. *)
Look(o, s, holds) ==
  Call(o, s, holds, TRUE, TRUE) /\ UNCHANGED <<webVars, service, keyVars>>

------------------------------------------------------------------------------
(* Release commands.                                                           *)

(* The check gates come before the command has changed anything.              *)
Deploy(o, r) ==
  /\ doing[o].at = "idle" /\ commands < MaxCommands
  /\ doing' = [doing EXCEPT ![o] =
                [NoCommand EXCEPT !.cmd = "deploy", !.arg = r, !.at = "lock"]]
  /\ commands' = commands + 1
  /\ UNCHANGED <<webVars, service, keyVars, breaks>>

Rollback(o, r) ==
  /\ doing[o].at = "idle" /\ commands < MaxCommands
  /\ doing' = [doing EXCEPT ![o] =
                [NoCommand EXCEPT !.cmd = "rollback", !.arg = r, !.at = "exists"]]
  /\ commands' = commands + 1
  /\ UNCHANGED <<webVars, service, keyVars, breaks>>

MakeDirectory(o) ==
  /\ Call(o, "lock", ~lock, lock' = TRUE, UNCHANGED lock)
  /\ UNCHANGED <<installed, staging, current, next, stray, previous, service, keyVars>>

TargetAbsent(o) == Look(o, "absent", doing[o].arg \notin Published \cup Trees(staging))
TargetExists(o) ==
  Look(o, "exists", {doing[o].arg} \X {"runtime", "marked"} \subseteq installed)

(* The engine and the archives, each verified by its digest.                  *)
Transfer(o) == Look(o, "transfer", TRUE)

(* A part of the staging tree; whatever fails leaves the tree behind.         *)
Prepare(o, part) ==
  /\ Call(o, part, TRUE, staging' = staging \cup {<<doing[o].arg, part>>}, UNCHANGED staging)
  /\ UNCHANGED <<installed, current, next, stray, lock, previous, service, keyVars>>

MakeStaging(o) == Prepare(o, "directory")
Extract(o) == Prepare(o, "source")
InstallRuntime(o) == Prepare(o, "runtime")
Relocate(o) == Prepare(o, "relocated")
WriteMarkers(o) == Prepare(o, "marked")

Publish(o) ==
  LET tree == {pair \in staging : pair[1] = doing[o].arg} IN
  /\ Call(o, "publish", TRUE, installed' = installed \cup tree /\ staging' = staging \ tree,
          UNCHANGED <<installed, staging>>)
  /\ UNCHANGED <<current, next, stray, lock, previous, service, keyVars>>

DatabaseReady(r) == r \in Compatible

SameSchema(o) == Look(o, "schema", doing[o].arg \in Compatible)
Checkpoint(o) == Look(o, "checkpoint", TRUE)
CheckReady(o) == Look(o, "ready", DatabaseReady(doing[o].arg))

CapturePrevious(o) ==
  /\ doing[o].at = "capture"
  /\ \/ /\ doing' = [doing EXCEPT ![o].from = current, ![o].at = "ready"]
        /\ previous' = current /\ UNCHANGED breaks
     \/ Fail(o) /\ Fault /\ previous' \in {previous, current}
  /\ UNCHANGED <<installed, staging, current, next, stray, lock, service, keyVars, commands>>

(* ln -s target current.next; mv -T current.next current.  When current.next  *)
(* is left over, ln follows it, makes its link inside that release, and mv    *)
(* moves the old link.                                                        *)
CanLink(r) == next = Nothing \/ <<next, r>> \notin stray
SwitchTo(r) ==
  /\ current' = (IF next = Nothing THEN r ELSE next)
  /\ stray' = (IF next = Nothing THEN stray ELSE stray \cup {<<next, r>>})
  /\ next' = Nothing

Switch(o) ==
  LET r == IF doing[o].at = "back" THEN previous ELSE doing[o].arg IN
  /\ doing[o].at \in {"switch", "back"}
  /\ \/ Call(o, doing[o].at, CanLink(r), SwitchTo(r), UNCHANGED <<current, next, stray>>)
     \/ /\ next = Nothing /\ next' = r /\ Fail(o) /\ Fault
        /\ UNCHANGED <<current, stray, commands>>
  /\ UNCHANGED <<installed, staging, lock, previous, service, keyVars>>

Restart(o) ==
  /\ doing[o].at \in {"restart", "back_restart", "undo_restart"}
  /\ Call(o, doing[o].at, TRUE, service' = Starting, UNCHANGED service)
  /\ UNCHANGED <<webVars, keyVars>>

(* A service that cannot come up is seen by the deadline of _wait_ready, which *)
(* is the only thing that ends the wait.                                      *)
CanStart == service.release \in Sound \cap Compatible
              /\ (service.keys.drop = Nothing \/ service.keys.secret # Nothing)

WaitReady(o) ==
  \/ service.state = "active" /\ Advance(o) /\ UNCHANGED breaks
  \/ ~CanStart /\ Fail(o) /\ UNCHANGED breaks
  \/ Fail(o) /\ Fault

VerifyHealthOnly(o) ==
  doing[o].at = "verify" /\ WaitReady(o) /\ UNCHANGED <<webVars, service, keyVars, commands>>
Verify(o) ==
  /\ doing[o].at = "verify"
  /\ IF current = doing[o].arg THEN WaitReady(o) ELSE Fail(o) /\ UNCHANGED breaks
  /\ UNCHANGED <<webVars, service, keyVars, commands>>

BackReady(o) == Look(o, "back_ready", DatabaseReady(previous))
BackVerify(o) ==
  /\ doing[o].at = "back_verify"
  /\ IF current = previous THEN WaitReady(o) ELSE Fail(o) /\ UNCHANGED breaks
  /\ UNCHANGED <<webVars, service, keyVars, commands>>

RemoveRecord(o) ==
  /\ Call(o, "clean", TRUE, previous' = Nothing, UNCHANGED previous)
  /\ UNCHANGED <<installed, staging, current, next, stray, lock, service, keyVars>>

RemoveDirectory(o) ==
  /\ Call(o, "unlock", previous = Nothing, lock' = FALSE, UNCHANGED lock)
  /\ UNCHANGED <<installed, staging, current, next, stray, previous, service, keyVars>>

------------------------------------------------------------------------------
(* The credential command.                                                     *)

Credential(o, p, v) ==
  /\ doing[o].at = "idle" /\ commands < MaxCommands
  /\ doing' = [doing EXCEPT ![o] =
                [NoCommand EXCEPT !.cmd = "credential", !.arg = <<p, v>>, !.at = "save"]]
  /\ commands' = commands + 1
  /\ UNCHANGED <<webVars, service, keyVars, breaks>>

Provider(o) == doing[o].arg[1]

(* mkdir is the lock; an error after it leaves material, complete or not, that *)
(* this helper never reads again.                                             *)
SaveKeys(o) ==
  /\ doing[o].at = "save"
  /\ \/ saved = Nothing /\ saved' = keys /\ Advance(o) /\ UNCHANGED breaks
     \/ saved = Nothing /\ Fail(o) /\ Fault
          /\ saved' \in {Nothing, keys}
     \/ saved # Nothing /\ Fail(o) /\ UNCHANGED <<saved, breaks>>
  /\ UNCHANGED <<webVars, service, keys, unit, commands>>

InstallCredential(o) ==
  /\ Call(o, "credential", TRUE, keys' = [keys EXCEPT !.credential[Provider(o)] = doing[o].arg[2]],
          UNCHANGED keys)
  /\ UNCHANGED <<webVars, service, unit, saved>>

InstallDropin(o) ==
  /\ Call(o, "dropin", TRUE, keys' = [keys EXCEPT !.dropin = Provider(o)], UNCHANGED keys)
  /\ UNCHANGED <<webVars, service, unit, saved>>

ConfigureAI(o) ==
  /\ Call(o, "configure", TRUE, keys' = [keys EXCEPT !.config = Provider(o)], UNCHANGED keys)
  /\ UNCHANGED <<webVars, service, unit, saved>>

(* daemon-reload, and the checks that systemd has loaded this drop-in.        *)
Accept(o) ==
  /\ Call(o, "accept", keys.dropin = Provider(o), unit' = keys.dropin, UNCHANGED unit)
  /\ UNCHANGED <<webVars, service, keys, saved>>

(* Health, then the capability endpoint: the selected provider is configured  *)
(* and its credential available to the running service.                       *)
Capable(p) == service.keys.config = p /\ service.keys.drop = p /\ service.keys.secret # Nothing

Answer(o) ==
  /\ doing[o].at \in {"answer", "undo_answer"}
  /\ \/ /\ doing[o].at = "answer" /\ ~Capable(Provider(o)) /\ service.state = "active"
        /\ Fail(o) /\ UNCHANGED breaks
     \/ (doing[o].at = "answer" => Capable(Provider(o))) /\ WaitReady(o)
  /\ UNCHANGED <<webVars, service, keyVars, commands>>

(* _remote_restore puts back the credential, then the drop-in, then the       *)
(* configuration; an error may come after any of them.                        *)
Restore(o) ==
  LET first == [keys EXCEPT !.credential[Provider(o)] = saved.credential[Provider(o)]]
      second == [first EXCEPT !.dropin = saved.dropin]
      third == [second EXCEPT !.config = saved.config]
  IN /\ doing[o].at = "restore"
     /\ \/ keys' = third /\ Advance(o) /\ UNCHANGED breaks
        \/ keys' \in {keys, first, second, third} /\ Fail(o) /\ Fault
     /\ UNCHANGED <<webVars, service, unit, saved, commands>>

Reload(o) ==
  /\ Call(o, "reload", TRUE, unit' = keys.dropin, UNCHANGED unit)
  /\ UNCHANGED <<webVars, service, keys, saved>>

Cleanup(o) ==
  /\ Call(o, "cleanup", TRUE, saved' = Nothing, UNCHANGED saved)
  /\ UNCHANGED <<webVars, service, keys, unit>>

------------------------------------------------------------------------------
(* The service, and what an operator does by hand.                             *)

(* ExecStartPre checks the database, systemd loads the credential.            *)
Come ==
  /\ service.state = "starting" /\ CanStart
  /\ service' = [service EXCEPT !.state = "active"]
  /\ UNCHANGED <<doing, webVars, keyVars, commands, breaks>>

(* Restart=on-failure: systemd starts it again from what is in place then.    *)
ComeAgain ==
  /\ service.state = "starting" /\ ~CanStart
  /\ service # Starting /\ service' = Starting
  /\ UNCHANGED <<doing, webVars, keyVars, commands, breaks>>

Crash ==
  /\ service.state = "active" /\ Fault /\ service' = Starting
  /\ UNCHANGED <<doing, webVars, keyVars, commands>>

Interrupt(o) ==
  /\ doing[o].at # "idle" /\ Fault /\ End(o, "gone")
  /\ UNCHANGED <<webVars, service, keyVars, commands>>

(* When no release command runs, an operator removes what one left behind.    *)
Tidy ==
  /\ \A o \in Operators : doing[o].cmd \notin {"deploy", "rollback"}
  /\ lock
  /\ lock' = FALSE /\ previous' = Nothing /\ staging' = {}
  /\ UNCHANGED <<doing, installed, current, next, stray, service, keyVars, commands, breaks>>

Step(o) ==
  \/ MakeDirectory(o) \/ TargetAbsent(o) \/ TargetExists(o) \/ Transfer(o)
  \/ MakeStaging(o) \/ Extract(o) \/ InstallRuntime(o) \/ Relocate(o) \/ WriteMarkers(o)
  \/ Publish(o)
  \/ SameSchema(o) \/ Checkpoint(o) \/ CheckReady(o) \/ CapturePrevious(o) \/ Switch(o)
  \/ Restart(o) \/ Verify(o) \/ BackReady(o) \/ BackVerify(o)
  \/ RemoveRecord(o) \/ RemoveDirectory(o)
  \/ SaveKeys(o) \/ InstallCredential(o) \/ InstallDropin(o) \/ ConfigureAI(o) \/ Accept(o)
  \/ Answer(o) \/ Restore(o) \/ Reload(o) \/ Cleanup(o)

DeploymentNext ==
  \/ \E o \in Operators :
       \/ \E r \in Releases : Deploy(o, r) \/ Rollback(o, r)
       \/ \E p \in Providers, v \in Versions : Credential(o, p, v)
       \/ Step(o) \/ Interrupt(o)
  \/ Come \/ ComeAgain \/ Crash \/ Tidy

DeploymentSpec == DeploymentInit /\ [][DeploymentNext]_deploymentVars

------------------------------------------------------------------------------

(* What a release command reports is so: when it reports success the link and *)
(* the running service are the release it was given, and when it reports that *)
(* the previous release was restored they are the release it had found.       *)
ReportsAreTrue ==
  \A o \in Operators :
    LET a == doing[o] IN
    a.cmd \in {"deploy", "rollback"} /\ a.at \in {"clean", "unlock"} =>
      /\ a.verdict = "done" => current = a.arg /\ service.release = a.arg
      /\ a.verdict = "restored" => current = a.from /\ service.release = a.from

Installed(old, p, v) ==
  [old EXCEPT !.credential[p] = v, !.dropin = p, !.config = p]

(* Recovery material goes away only when nothing is left half-changed: the    *)
(* files are all as they were or all as asked for, systemd has loaded the     *)
(* drop-in that is there, and the service runs with these keys.               *)
KeysAllOrNothing ==
  [][saved # Nothing /\ saved' = Nothing =>
       /\ \/ keys' = saved
          \/ \E p \in Providers, v \in Versions : keys' = Installed(saved, p, v)
       /\ unit' = keys'.dropin
       /\ service'.keys = ServiceKeys']_deploymentVars
==============================================================================
