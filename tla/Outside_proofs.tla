--------------------------- MODULE Outside_proofs ---------------------------
(******************************************************************************)
(* Proofs about what works on the service from outside it.  The backups of    *)
(* the catalogue: for any number of attempts, copies, pulls, versions and     *)
(* faults, and any floor of the retention.  The deployment helpers: for any   *)
(* workstations, releases, AI providers and credentials, and any number of    *)
(* commands and faults.  The upload cockpit of the web client: for any        *)
(* uploads, files, coroutines, contexts and lost messages.                    *)
(******************************************************************************)
EXTENDS CatalogBackup, Deployment, UploadClient, FiniteSetTheorems, TLAPS

-----------------------------------------------------------------------------
(* The operators.                                                             *)

LEMMA MaximumOfThree ==
  ASSUME NEW a \in Nat, NEW b \in Nat, NEW c \in Nat
  PROVE  LET n == Maximum({a, b, c})
         IN  n \in Nat /\ n >= a /\ n >= b /\ n >= c
<1>1. \E n \in {a, b, c} : \A k \in {a, b, c} : k <= n
  BY SMT
<1>2. LET n == Maximum({a, b, c})
      IN  n \in {a, b, c} /\ \A k \in {a, b, c} : k <= n
  BY <1>1, Zenon DEF Maximum
<1>3. PICK n : n = Maximum({a, b, c})
  OBVIOUS
<1>4. n \in {a, b, c} /\ \A k \in {a, b, c} : k <= n
  BY <1>2, <1>3
<1>5. n \in Nat /\ n >= a /\ n >= b /\ n >= c
  BY <1>4
<1> QED
  BY <1>3, <1>5

LEMMA MaximumOfTwo ==
  ASSUME NEW a \in Nat, NEW b \in Nat
  PROVE  Maximum({a, b}) \in Nat
<1>1. {a, b} = {a, b, b}
  OBVIOUS
<1> QED
  BY <1>1, MaximumOfThree

LEMMA BundlesTyped == Automatic \subseteq Nat /\ Automatic \subseteq Bundles /\ Pinned \in Bundles
                      /\ Pinned \notin Automatic /\ Bundles \subseteq Nat
BY BackupAssumption DEF Automatic, Bundles, Pinned

(* An allotted number is above every number the status file keeps.            *)
LEMMA SeqIsAllotted ==
  ASSUME TypeOK
  PROVE  /\ AllocateScheduledSeq \in Nat
         /\ AllocateScheduledSeq > AttemptOf(status.success)
         /\ AttemptOf(status.success) \in Nat
<1>1. AttemptOf(status.success) \in Nat /\ status.seq \in Nat /\ status.attempt.seq \in Nat
  BY DEF TypeOK, StatusFiles, Attempts, AttemptOf
<1>2. PICK a \in Nat, b \in Nat, c \in Nat :
        a = status.seq /\ b = status.attempt.seq /\ c = AttemptOf(status.success)
  BY <1>1
<1>3. PICK n : n = Maximum({a, b, c})
  OBVIOUS
<1>4. n \in Nat /\ n >= c
  BY <1>3, MaximumOfThree
<1>5. AllocateScheduledSeq = n + 1
  BY <1>2, <1>3 DEF AllocateScheduledSeq
<1> QED
  BY <1>2, <1>4, <1>5

LEMMA OffdeviceSeqTyped ==
  ASSUME TypeOK
  PROVE  AllocateOffdeviceSeq \in Nat
<1>1. AttemptOf(status.offSuccess) \in Nat /\ status.offSeq \in Nat /\ status.offAttempt.seq \in Nat
  BY DEF TypeOK, StatusFiles, Attempts, AttemptOf
<1>2. PICK a \in Nat, b \in Nat, c \in Nat :
        a = status.offSeq /\ b = status.offAttempt.seq /\ c = AttemptOf(status.offSuccess)
  BY <1>1
<1>3. PICK n : n = Maximum({a, b, c})
  OBVIOUS
<1>4. n \in Nat
  BY <1>3, MaximumOfThree
<1> QED
  BY <1>2, <1>3, <1>4 DEF AllocateOffdeviceSeq

-----------------------------------------------------------------------------
(* The inductive invariant.                                                   *)

(* The operation that holds the lock is at one of its own steps.              *)
StepsFit ==
    /\ op.at = "idle" => op.kind = "none"
    /\ op.at \in {"snapshot", "publish"} => op.kind = "run-scheduled"
    /\ op.at \in {"restore", "record"} => op.kind \in {"run-scheduled", "verify-restore", "run-offdevice"}
    /\ op.at \in {"plan", "expire", "delete", "unledger"} => op.kind \in {"run-scheduled", "expire"}
    /\ op.at \in {"select", "copy"} => op.kind = "run-offdevice"
    /\ op.at \in {"stream", "reselect"} => op.kind = "export"

(* A daily attempt that has not recorded its end has a number above every     *)
(* success, and a bundle that no attempt has proved.                          *)
MakingFits ==
    op.kind = "run-scheduled" /\ op.at \in {"snapshot", "publish", "restore", "record"} =>
        /\ op.seq > AttemptOf(status.success)
        /\ op.bundle \in Automatic \ proved
        /\ status.attempt = [state |-> "running", seq |-> op.seq]
        /\ op.at # "snapshot" => content[op.bundle] \in Nat

(* A step that fails after the end was recorded does not unsay it.            *)
KeepingFits ==
    op.kind = "run-scheduled" /\ op.at \in {"plan", "expire", "delete", "unledger"} =>
        known = "proved"

(* What is copied is proved; what is restored from the volume is there.       *)
CopyingFits ==
    op.kind = "run-offdevice" /\ op.at \in {"copy", "restore", "record"} =>
        /\ op.bundle \in proved
        /\ op.at # "copy" => copies[op.bundle] # None

(* The manifest goes first, of a bundle of the daily attempts.                *)
DeletingFits ==
    op.at = "delete" => "manifest" \notin has[op.bundle] /\ op.bundle \in Automatic

PullFits ==
    /\ op.at = "stream" => op.bundle \in proved
    /\ op.at = "reselect" => pull.at = "eof"
    /\ pull.at # "idle" => pull.bundle \in proved
    /\ pull.at \in {"eof", "staged"} => pull.bytes = content[pull.bundle]

(* The content of a proved bundle is fixed, and only it leaves the server.    *)
BundlesFit ==
    /\ has[Pinned] = Parts
    /\ \A b \in proved : content[b] \in Nat
    /\ \A b \in Bundles :
          /\ copies[b] # None => b \in proved /\ (copies[b] = content[b] \/ Rot("volume", b))
          /\ snapshots[b] # None => b \in proved /\ (snapshots[b] = content[b] \/ Rot("workstation", b))

(* What the status file says was done was done.                               *)
StatusFits ==
    /\ status.ledger \subseteq proved
    /\ status.success # None => status.success.bundle \in proved
    /\ status.offSuccess # None => copies[status.offSuccess.bundle] # None
    /\ status.attempt.state = "none" => status.success = None
    /\ status.attempt.state = "succeeded" => known = "proved"
    /\ status.attempt.state = "failed" /\ status.success # None =>
          known = "proved" \/ status.attempt.seq > status.success.seq

OpFits == StepsFit /\ MakingFits /\ KeepingFits /\ CopyingFits /\ DeletingFits

IInv == TypeOK /\ OpFits /\ PullFits /\ BundlesFit /\ StatusFits

LEMMA IdleTyped == Idle \in Operations /\ NoPull \in [at : {"idle", "receiving", "eof", "staged"},
                                                     bundle : Automatic \cup {None},
                                                     bytes : Nat \cup {None, Rotten}]
BY DEF Idle, Operations, NoPull

LEMMA InitIInv == Init => IInv
<1> SUFFICES ASSUME Init PROVE IInv
  OBVIOUS
<1>1. /\ content \in [Bundles -> Nat \cup {None}] /\ made \in [Bundles -> Nat]
      /\ has \in [Bundles -> SUBSET Parts] /\ has[Pinned] = Parts
      /\ copies \in Stored /\ snapshots \in Stored
      /\ \A b \in Bundles : copies[b] = None /\ snapshots[b] = None
  BY BundlesTyped DEF Init, Stored
<1>2. status \in StatusFiles
  BY DEF Init, StatusFiles, NoAttempt, Attempts
<1>3. TypeOK
  BY <1>1, <1>2, IdleTyped DEF Init, TypeOK
<1>4. OpFits
  BY DEF Init, OpFits, StepsFit, MakingFits, KeepingFits, CopyingFits, DeletingFits, Idle
<1>5. PullFits
  BY DEF Init, PullFits, NoPull, Idle
<1>6. BundlesFit
  BY <1>1 DEF Init, BundlesFit
<1>7. StatusFits
  BY DEF Init, StatusFits, NoAttempt
<1> QED
  BY <1>3, <1>4, <1>5, <1>6, <1>7 DEF IInv

-----------------------------------------------------------------------------
(* What a step leaves alone.                                                  *)

LEMMA IdleFits == op' = Idle => OpFits'
BY DEF OpFits, StepsFit, MakingFits, KeepingFits, CopyingFits, DeletingFits, Idle

LEMMA OpRests ==
  ASSUME OpFits, UNCHANGED <<op, status, has, content, copies, known, proved>>
  PROVE  OpFits'
BY DEF OpFits, StepsFit, MakingFits, KeepingFits, CopyingFits, DeletingFits

LEMMA PullRests ==
  ASSUME PullFits, UNCHANGED <<pull, content, proved>>, op' = op \/ op'.at \notin {"stream", "reselect"}
  PROVE  PullFits'
BY DEF PullFits

LEMMA BundlesRest ==
  ASSUME BundlesFit, UNCHANGED <<has, content, copies, snapshots, damaged, proved>>
  PROVE  BundlesFit'
BY DEF BundlesFit, Rot

LEMMA StatusRests ==
  ASSUME StatusFits, UNCHANGED <<status, copies, known, proved>>
  PROVE  StatusFits'
BY DEF StatusFits

(* Only the status file and the operation move.                               *)
LEMMA FilesRest ==
  ASSUME TypeOK, op' \in Operations, status' \in StatusFiles, known' \in {"none", "failed", "proved"},
         UNCHANGED <<version, clock, has, content, made, damaged, copies, snapshots, mounted, pull,
                     proved, pulls, back>>, faults' \in Nat
  PROVE  TypeOK'
BY DEF TypeOK, Stored

-----------------------------------------------------------------------------
(* The daily pipeline.                                                        *)

LEMMA FreshIsNew ==
  ASSUME IInv, \E b \in Automatic : content[b] = None
  PROVE  FreshName \in Automatic /\ FreshName \notin proved
<1>1. FreshName \in Automatic /\ content[FreshName] = None
  BY Zenon DEF FreshName
<1> QED
  BY <1>1, BackupAssumption DEF IInv, BundlesFit

LEMMA StartScheduledIInv ==
  ASSUME IInv, StartScheduled
  PROVE  IInv'
<1>1. PICK n \in Nat : n = AllocateScheduledSeq /\ n > AttemptOf(status.success)
  BY SeqIsAllotted DEF IInv
<1>2. PICK b \in Automatic : b = FreshName /\ b \notin proved
  BY FreshIsNew DEF StartScheduled
<1>3. /\ status' = [status EXCEPT !.seq = n, !.current = "run-scheduled",
                               !.attempt = [state |-> "running", seq |-> n]]
      /\ op' = [Idle EXCEPT !.kind = "run-scheduled", !.at = "snapshot", !.bundle = b, !.seq = n]
      /\ UNCHANGED <<version, clock, has, content, made, damaged, pull, copies, snapshots, mounted,
                     known, pulls, faults, back, proved>>
  BY <1>1, <1>2 DEF StartScheduled, disk, elsewhere, counters
<1>4. status \in StatusFiles /\ TypeOK
  BY DEF IInv, TypeOK
<1>5. /\ status' \in StatusFiles
      /\ status'.attempt = [state |-> "running", seq |-> n] /\ status'.success = status.success
      /\ status'.ledger = status.ledger /\ status'.offSuccess = status.offSuccess
  BY <1>3, <1>4 DEF StatusFiles, Attempts
<1>6. /\ op' \in Operations /\ op'.kind = "run-scheduled" /\ op'.at = "snapshot"
      /\ op'.bundle = b /\ op'.seq = n
  BY <1>3, BundlesTyped DEF Operations, Idle
<1>7. TypeOK'
  BY <1>3, <1>4, <1>5, <1>6, FilesRest DEF TypeOK
<1>8. OpFits'
  <2>1. StepsFit' /\ KeepingFits' /\ CopyingFits' /\ DeletingFits'
    BY <1>6 DEF StepsFit, KeepingFits, CopyingFits, DeletingFits
  <2>2. MakingFits'
    BY <1>1, <1>2, <1>3, <1>5, <1>6 DEF MakingFits, AttemptOf
  <2> QED
    BY <2>1, <2>2 DEF OpFits
<1>9. PullFits' /\ BundlesFit'
  BY <1>3, <1>6, PullRests, BundlesRest DEF IInv
<1>10. StatusFits'
  BY <1>3, <1>5 DEF IInv, StatusFits
<1> QED
  BY <1>7, <1>8, <1>9, <1>10 DEF IInv

LEMMA SnapshotIInv ==
  ASSUME IInv, Snapshot
  PROVE  IInv'
<1>1. TypeOK /\ op \in Operations /\ op.at = "snapshot" /\ op.kind = "run-scheduled"
  BY DEF IInv, TypeOK, Snapshot, OpFits, StepsFit
<1>2. PICK b \in Automatic : b = op.bundle /\ b \notin proved /\ b \in Bundles
  BY <1>1, BundlesTyped DEF IInv, OpFits, MakingFits
<1>3. /\ clock' = clock + 1 /\ content' = [content EXCEPT ![b] = version]
      /\ made' = [made EXCEPT ![b] = clock] /\ op' = [op EXCEPT !.at = "publish"]
      /\ UNCHANGED <<version, has, damaged, status, pull, copies, snapshots, mounted, known, pulls,
                     faults, back, proved>>
  BY <1>2 DEF Snapshot, elsewhere, counters
<1>4. /\ op' \in Operations /\ op'.at = "publish" /\ op'.kind = op.kind /\ op'.bundle = b
      /\ op'.seq = op.seq
  BY <1>1, <1>2, <1>3 DEF Operations
<1>5. /\ content' \in [Bundles -> Nat \cup {None}] /\ content'[b] \in Nat
      /\ \A a \in Bundles : a # b => content'[a] = content[a]
  BY <1>1, <1>2, <1>3 DEF TypeOK
<1>6. TypeOK'
  <2>1. made' \in [Bundles -> Nat] /\ clock' \in Nat
    BY <1>1, <1>2, <1>3 DEF TypeOK
  <2> QED
    BY <1>1, <1>3, <1>4, <1>5, <2>1 DEF TypeOK, Stored
<1>7. OpFits'
  <2>1. StepsFit' /\ KeepingFits' /\ CopyingFits' /\ DeletingFits'
    BY <1>1, <1>4 DEF StepsFit, KeepingFits, CopyingFits, DeletingFits
  <2>2. MakingFits'
    BY <1>1, <1>2, <1>3, <1>4, <1>5 DEF IInv, OpFits, MakingFits, AttemptOf
  <2> QED
    BY <2>1, <2>2 DEF OpFits
<1>8. \A a \in proved : a \in Bundles /\ content'[a] = content[a]
  BY <1>1, <1>2, <1>5, BundlesTyped DEF TypeOK
<1>9. PullFits'
  BY <1>3, <1>4, <1>8 DEF IInv, PullFits
<1>10. BundlesFit'
  BY <1>3, <1>8 DEF IInv, BundlesFit, Rot
<1>11. StatusFits'
  BY <1>3, StatusRests DEF IInv
<1> QED
  BY <1>6, <1>7, <1>9, <1>10, <1>11 DEF IInv

LEMMA PublishPartIInv ==
  ASSUME IInv, PublishPart
  PROVE  IInv'
<1>1. TypeOK /\ op \in Operations /\ op.at = "publish" /\ op.kind = "run-scheduled"
  BY DEF IInv, TypeOK, PublishPart, OpFits, StepsFit
<1>2. PICK b \in Automatic : b = op.bundle /\ b \notin proved /\ b \in Bundles /\ b # Pinned
  BY <1>1, BundlesTyped DEF IInv, OpFits, MakingFits
<1>3. PICK part \in Parts : part = NextPart(b)
  BY DEF NextPart, Parts
<1>4. PICK at \in {"restore", "publish"} : at = (IF part = "catalog" THEN "restore" ELSE "publish")
  OBVIOUS
<1>5. /\ has' = [has EXCEPT ![b] = @ \cup {part}] /\ op' = [op EXCEPT !.at = at]
      /\ UNCHANGED <<version, clock, content, made, damaged, status, pull, copies, snapshots,
                     mounted, known, pulls, faults, back, proved>>
  BY <1>2, <1>3, <1>4 DEF PublishPart, elsewhere, counters
<1>6. /\ op' \in Operations /\ op'.at = at /\ op'.kind = op.kind /\ op'.bundle = b
      /\ op'.seq = op.seq
  BY <1>1, <1>2, <1>4, <1>5 DEF Operations
<1>7. has' \in [Bundles -> SUBSET Parts] /\ has'[Pinned] = has[Pinned]
  BY <1>1, <1>2, <1>3, <1>5, BundlesTyped DEF TypeOK
<1>8. TypeOK'
  BY <1>1, <1>5, <1>6, <1>7 DEF TypeOK, Stored
<1>9. OpFits'
  <2>1. StepsFit' /\ KeepingFits' /\ CopyingFits' /\ DeletingFits'
    BY <1>1, <1>4, <1>6 DEF StepsFit, KeepingFits, CopyingFits, DeletingFits
  <2>2. MakingFits'
    BY <1>1, <1>2, <1>5, <1>6 DEF IInv, OpFits, MakingFits, AttemptOf
  <2> QED
    BY <2>1, <2>2 DEF OpFits
<1>10. PullFits' /\ StatusFits'
  BY <1>4, <1>5, <1>6, PullRests, StatusRests DEF IInv
<1>11. BundlesFit'
  BY <1>5, <1>7 DEF IInv, BundlesFit, Rot
<1> QED
  BY <1>8, <1>9, <1>10, <1>11 DEF IInv

(* A failure is recorded under the number of its attempt.                     *)
LEMMA GiveUpFits ==
  ASSUME IInv, GiveUp, UNCHANGED <<copies, proved>>
  PROVE  /\ op' = Idle /\ op' \in Operations /\ status' \in StatusFiles
         /\ known' \in {"none", "failed", "proved"} /\ OpFits' /\ StatusFits'
<1>1. status \in StatusFiles /\ op \in Operations /\ known \in {"none", "failed", "proved"}
  BY DEF IInv, TypeOK
<1>2. op' = Idle /\ op' \in Operations /\ OpFits' /\ known' \in {"none", "failed", "proved"}
  BY <1>1, IdleTyped, IdleFits DEF GiveUp
<1>3. CASE op.kind = "run-scheduled"
  <2>1. PICK n \in Nat : n = Maximum({status.seq, op.seq})
    <3>1. PICK a \in Nat, b \in Nat : a = status.seq /\ b = op.seq
      BY <1>1 DEF StatusFiles, Operations
    <3> QED
      BY <3>1, MaximumOfTwo
  <2>2. status' = [status EXCEPT !.attempt = [state |-> "failed", seq |-> op.seq], !.seq = n,
                                 !.current = None]
    BY <1>3, <2>1 DEF GiveUp, FailedStatus, ScheduledFailure
  <2>3. /\ status' \in StatusFiles /\ status'.attempt = [state |-> "failed", seq |-> op.seq]
        /\ status'.success = status.success /\ status'.ledger = status.ledger
        /\ status'.offSuccess = status.offSuccess
    BY <1>1, <2>2 DEF StatusFiles, Attempts, Operations
  <2>4. CASE op.at \in {"snapshot", "publish", "restore", "record"}
    <3>1. op.seq > AttemptOf(status.success)
      BY <1>3, <2>4 DEF IInv, OpFits, MakingFits
    <3> QED
      BY <1>2, <2>3, <3>1 DEF IInv, StatusFits, AttemptOf
  <2>5. CASE op.at \notin {"snapshot", "publish", "restore", "record"}
    <3>1. known = "proved"
      BY <1>1, <1>3, <2>5 DEF IInv, OpFits, StepsFit, KeepingFits, Operations
    <3>2. known' = "proved"
      BY <2>5, <3>1 DEF GiveUp, KnownFailure
    <3> QED
      BY <1>2, <2>3, <3>2 DEF IInv, StatusFits
  <2> QED
    BY <2>4, <2>5
<1>4. CASE op.kind # "run-scheduled"
  <2>1. known' = known
    BY <1>4 DEF GiveUp, KnownFailure
  <2>2. PICK n \in Nat : n = Maximum({status.offSeq, op.seq})
    <3>1. PICK a \in Nat, b \in Nat : a = status.offSeq /\ b = op.seq
      BY <1>1 DEF StatusFiles, Operations
    <3> QED
      BY <3>1, MaximumOfTwo
  <2>3. \/ status' = [status EXCEPT !.offAttempt = [state |-> "failed", seq |-> op.seq],
                                    !.offSeq = n, !.current = None]
        \/ status' = [status EXCEPT !.current = None]
        \/ status' = status
    BY <1>4, <2>2 DEF GiveUp, FailedStatus, OffdeviceFailure
  <2>4. /\ status' \in StatusFiles /\ status'.attempt = status.attempt
        /\ status'.success = status.success /\ status'.ledger = status.ledger
        /\ status'.offSuccess = status.offSuccess
    <3>1. [state |-> "failed", seq |-> op.seq] \in Attempts
      BY <1>1 DEF Attempts, Operations
    <3>2. ASSUME NEW attempt \in Attempts,
                 status' = [status EXCEPT !.offAttempt = attempt, !.offSeq = n, !.current = None]
          PROVE  /\ status' \in StatusFiles /\ status'.attempt = status.attempt
                 /\ status'.success = status.success /\ status'.ledger = status.ledger
                 /\ status'.offSuccess = status.offSuccess
      BY <1>1, <3>2 DEF StatusFiles
    <3>3. ASSUME status' = [status EXCEPT !.current = None]
          PROVE  /\ status' \in StatusFiles /\ status'.attempt = status.attempt
                 /\ status'.success = status.success /\ status'.ledger = status.ledger
                 /\ status'.offSuccess = status.offSuccess
      BY <1>1, <3>3 DEF StatusFiles
    <3>4. CASE status' = status
      BY <1>1, <3>4
    <3>5. PICK attempt \in Attempts : attempt = [state |-> "failed", seq |-> op.seq]
      BY <3>1
    <3> QED
      BY <2>3, <3>2, <3>3, <3>4, <3>5
  <2> QED
    BY <1>2, <2>1, <2>4 DEF IInv, StatusFits
<1> QED
  BY <1>3, <1>4

LEMMA StepFailsIInv ==
  ASSUME IInv, StepFails
  PROVE  IInv'
<1>1. /\ GiveUp /\ faults' = faults + 1
      /\ UNCHANGED <<version, clock, content, made, damaged, pull, copies, snapshots, mounted,
                     pulls, back, proved>>
  BY DEF StepFails, elsewhere
<1>2. /\ op' = Idle /\ op' \in Operations /\ status' \in StatusFiles
      /\ known' \in {"none", "failed", "proved"} /\ OpFits' /\ StatusFits'
  BY <1>1, GiveUpFits
<1>3. has' \in [Bundles -> SUBSET Parts] /\ has'[Pinned] = has[Pinned]
  <2>1. CASE op.at = "publish"
    <3>1. PICK b \in Automatic : b = op.bundle
      BY <2>1 DEF IInv, OpFits, StepsFit, MakingFits
    <3>2. has' = [has EXCEPT ![b] = {}] /\ b # Pinned /\ Pinned \in Bundles
      BY <2>1, <3>1, BundlesTyped DEF StepFails
    <3> QED
      BY <3>2 DEF IInv, TypeOK
  <2>2. CASE op.at # "publish"
    BY <2>2 DEF StepFails, IInv, TypeOK
  <2> QED
    BY <2>1, <2>2
<1>4. TypeOK'
  BY <1>1, <1>2, <1>3 DEF IInv, TypeOK, Stored
<1>5. PullFits'
  BY <1>1, <1>2, PullRests DEF IInv, Idle
<1>6. BundlesFit'
  BY <1>1, <1>3 DEF IInv, BundlesFit, Rot
<1> QED
  BY <1>2, <1>4, <1>5, <1>6 DEF IInv

(* A step that gives up, and touches no file.                                 *)
LEMMA GiveUpIInv ==
  ASSUME IInv, GiveUp,
         UNCHANGED <<version, clock, disk, damaged, pull, elsewhere, counters, proved>>
  PROVE  IInv'
<1>1. UNCHANGED <<version, clock, has, content, made, damaged, pull, copies, snapshots, mounted,
                  pulls, faults, back, proved>>
  BY DEF disk, elsewhere, counters
<1>2. /\ op' = Idle /\ op' \in Operations /\ status' \in StatusFiles
      /\ known' \in {"none", "failed", "proved"} /\ OpFits' /\ StatusFits'
  BY <1>1, GiveUpFits
<1>3. TypeOK'
  BY <1>1, <1>2, FilesRest DEF IInv, TypeOK
<1>4. PullFits' /\ BundlesFit'
  BY <1>1, <1>2, PullRests, BundlesRest DEF IInv, Idle
<1> QED
  BY <1>2, <1>3, <1>4 DEF IInv

LEMMA RestoreAndSemanticIInv ==
  ASSUME IInv, RestoreAndSemantic
  PROVE  IInv'
<1>1. CASE Restorable
  <2>1. op \in Operations /\ op.at = "restore"
    BY DEF IInv, TypeOK, RestoreAndSemantic
  <2>2. /\ op' = [op EXCEPT !.at = "record"]
        /\ UNCHANGED <<version, clock, has, content, made, damaged, status, pull, copies, snapshots,
                       mounted, known, pulls, faults, back, proved>>
    BY <1>1 DEF RestoreAndSemantic, disk, elsewhere, counters
  <2>3. /\ op' \in Operations /\ op'.at = "record" /\ op'.kind = op.kind
        /\ op'.bundle = op.bundle /\ op'.seq = op.seq
    BY <2>1, <2>2 DEF Operations
  <2>4. TypeOK'
    BY <2>2, <2>3, FilesRest DEF IInv, TypeOK
  <2>5. OpFits'
    BY <2>1, <2>2, <2>3 DEF IInv, OpFits, StepsFit, MakingFits, KeepingFits, CopyingFits,
                            DeletingFits, AttemptOf
  <2>6. PullFits' /\ BundlesFit' /\ StatusFits'
    BY <2>2, <2>3, PullRests, BundlesRest, StatusRests DEF IInv
  <2> QED
    BY <2>4, <2>5, <2>6 DEF IInv
<1>2. CASE ~Restorable
  BY <1>2, GiveUpIInv DEF RestoreAndSemantic
<1> QED
  BY <1>1, <1>2

LEMMA RecordScheduledSuccessIInv ==
  ASSUME IInv, NEW left \in BOOLEAN, RecordScheduledSuccess(left)
  PROVE  IInv'
<1>1. TypeOK /\ op \in Operations /\ status \in StatusFiles /\ op.at = "record"
      /\ op.kind = "run-scheduled"
  BY DEF IInv, TypeOK, RecordScheduledSuccess
<1>2. PICK b \in Automatic : b = op.bundle /\ content[b] \in Nat /\ b \in Bundles
  BY <1>1, BundlesTyped DEF IInv, OpFits, MakingFits
<1>3. PICK c \in Nat, n \in Nat : c = content[b] /\ n = op.seq
  BY <1>1, <1>2 DEF Operations
<1>4. PICK rest \in Bundles \cup {None} : rest = PendingCleanup(left)
  BY <1>2 DEF PendingCleanup
<1>5. /\ status' = [status EXCEPT
             !.attempt = [state |-> "succeeded", seq |-> n], !.seq = n,
             !.success = [bundle |-> b, seq |-> n, content |-> c],
             !.pending = rest, !.ledger = @ \cup {b}]
      /\ known' = "proved" /\ proved' = proved \cup {b} /\ op' = [op EXCEPT !.at = "plan"]
      /\ faults' \in Nat
      /\ UNCHANGED <<version, clock, has, content, made, damaged, pull, copies, snapshots, mounted,
                     pulls, back>>
  BY <1>1, <1>2, <1>3, <1>4 DEF RecordScheduledSuccess, disk, elsewhere, TypeOK
<1>6. /\ status' \in StatusFiles /\ status'.attempt.state = "succeeded"
      /\ status'.success = [bundle |-> b, seq |-> n, content |-> c]
      /\ status'.ledger = status.ledger \cup {b} /\ status'.offSuccess = status.offSuccess
  <2>1. [state |-> "succeeded", seq |-> n] \in Attempts
    BY DEF Attempts
  <2>2. PICK attempt \in Attempts : attempt = [state |-> "succeeded", seq |-> n]
    BY <2>1
  <2>3. PICK success \in [bundle : Automatic, seq : Nat, content : Nat] :
          success = [bundle |-> b, seq |-> n, content |-> c]
    OBVIOUS
  <2>4. status' = [status EXCEPT !.attempt = attempt, !.seq = n, !.success = success,
                                 !.pending = rest, !.ledger = @ \cup {b}]
    BY <1>5, <2>2, <2>3
  <2>5. /\ status' \in StatusFiles /\ status'.attempt = attempt /\ status'.success = success
        /\ status'.ledger = status.ledger \cup {b} /\ status'.offSuccess = status.offSuccess
    BY <1>1, <2>4 DEF StatusFiles
  <2> QED
    BY <2>2, <2>3, <2>5
<1>7. op' \in Operations /\ op'.at = "plan" /\ op'.kind = op.kind
  BY <1>1, <1>5 DEF Operations
<1>8. TypeOK'
  BY <1>1, <1>5, <1>6, <1>7 DEF TypeOK, Stored
<1>9. OpFits'
  BY <1>1, <1>5, <1>7 DEF OpFits, StepsFit, MakingFits, KeepingFits, CopyingFits, DeletingFits
<1>10. PullFits'
  BY <1>5, <1>7 DEF IInv, PullFits
<1>11. BundlesFit'
  BY <1>2, <1>5 DEF IInv, BundlesFit, Rot
<1>12. StatusFits'
  BY <1>5, <1>6 DEF IInv, StatusFits
<1> QED
  BY <1>8, <1>9, <1>10, <1>11, <1>12 DEF IInv

-----------------------------------------------------------------------------
(* Retention.                                                                 *)

LEMMA PlanTyped == Plan \in SUBSET Automatic
BY DEF Plan, AutomaticVerified

(* Only the operation moves.                                                  *)
LEMMA OperationMoves ==
  ASSUME IInv, op' \in Operations, OpFits', op'.at \notin {"stream", "reselect"},
         UNCHANGED <<version, clock, disk, damaged, status, pull, elsewhere, known, counters, proved>>
  PROVE  IInv'
<1>1. UNCHANGED <<version, clock, has, content, made, damaged, status, pull, copies, snapshots,
                  mounted, known, pulls, faults, back, proved>>
  BY DEF disk, elsewhere, counters
<1>2. TypeOK'
  BY <1>1, FilesRest DEF IInv, TypeOK
<1>3. PullFits' /\ BundlesFit' /\ StatusFits'
  BY <1>1, PullRests, BundlesRest, StatusRests DEF IInv
<1> QED
  BY <1>2, <1>3 DEF IInv

LEMMA StartExpireIInv ==
  ASSUME IInv, StartExpire
  PROVE  IInv'
<1>1. op' \in Operations /\ op'.kind = "expire" /\ op'.at = "plan"
  BY DEF StartExpire, Idle, Operations
<1>2. OpFits'
  BY <1>1 DEF OpFits, StepsFit, MakingFits, KeepingFits, CopyingFits, DeletingFits
<1> QED
  BY <1>1, <1>2, OperationMoves DEF StartExpire

LEMMA BuildRetentionPlanIInv ==
  ASSUME IInv, BuildRetentionPlan
  PROVE  IInv'
<1>1. PICK todo \in SUBSET Automatic : todo = Plan
  BY PlanTyped
<1>2. op \in Operations /\ op.at = "plan" /\ op' = [op EXCEPT !.at = "expire", !.todo = todo]
  BY <1>1 DEF BuildRetentionPlan, IInv, TypeOK
<1>3. op' \in Operations /\ op'.kind = op.kind /\ op'.at = "expire"
  BY <1>2 DEF Operations
<1>4. known' = known
  BY DEF BuildRetentionPlan
<1>5. OpFits'
  BY <1>2, <1>3, <1>4 DEF IInv, OpFits, StepsFit, MakingFits, KeepingFits, CopyingFits, DeletingFits
<1> QED
  BY <1>3, <1>5, OperationMoves DEF BuildRetentionPlan

(* A part of a bundle of the daily attempts is unlinked.                      *)
LEMMA PartGoes ==
  ASSUME IInv, NEW b \in Automatic, has' = [has EXCEPT ![b] = @ \ {DeletedPart(b)}],
         op' \in Operations, OpFits', op'.at \notin {"stream", "reselect"},
         UNCHANGED <<version, clock, content, made, damaged, status, pull, elsewhere, known,
                     counters, proved>>
  PROVE  IInv'
<1>1. UNCHANGED <<version, clock, content, made, damaged, status, pull, copies, snapshots,
                  mounted, known, pulls, faults, back, proved>>
  BY DEF elsewhere, counters
<1>2. has' \in [Bundles -> SUBSET Parts] /\ has'[Pinned] = has[Pinned]
  <2>1. has \in [Bundles -> SUBSET Parts] /\ b # Pinned /\ b \in Bundles
    BY BundlesTyped DEF IInv, TypeOK
  <2> QED
    BY <2>1, BundlesTyped
<1>3. TypeOK'
  BY <1>1, <1>2 DEF IInv, TypeOK, Stored
<1>4. PullFits' /\ StatusFits'
  BY <1>1, PullRests, StatusRests DEF IInv
<1>5. BundlesFit'
  BY <1>1, <1>2 DEF IInv, BundlesFit, Rot
<1> QED
  BY <1>3, <1>4, <1>5 DEF IInv

(* What a retention deletes is whole, and the manifest goes first.            *)
LEMMA ManifestGoesFirst ==
  ASSUME IInv, NEW b, StillPlanned(b), has' = [has EXCEPT ![b] = @ \ {DeletedPart(b)}]
  PROVE  /\ b \in Automatic /\ b \in status.ledger
         /\ has'[b] = {"dir", "catalog"}
         /\ \A a \in Bundles : a # b => has'[a] = has[a]
<1>1. b \in Automatic /\ b \in status.ledger /\ has[b] = Parts
  BY DEF StillPlanned, Plan, AutomaticVerified, VerificationEligible, Whole
<1>2. DeletedPart(b) = "manifest"
  BY <1>1 DEF DeletedPart, Parts
<1>3. has \in [Bundles -> SUBSET Parts] /\ b \in Bundles
  BY <1>1, BundlesTyped DEF IInv, TypeOK
<1> QED
  BY <1>1, <1>2, <1>3 DEF Parts

LEMMA RevalidateAndDeleteIInv ==
  ASSUME IInv, RevalidateAndDelete
  PROVE  IInv'
<1>1. op \in Operations /\ op.at = "expire"
  BY DEF RevalidateAndDelete, IInv, TypeOK
<1>2. PICK b : b = Newest(op.todo)
  OBVIOUS
<1>3. CASE StillPlanned(b)
  <2>1. /\ has' = [has EXCEPT ![b] = @ \ {DeletedPart(b)}]
        /\ op' = [op EXCEPT !.at = "delete", !.bundle = b]
        /\ UNCHANGED <<version, clock, content, made, damaged, status, pull, elsewhere, known,
                       counters, proved>>
    BY <1>2, <1>3 DEF RevalidateAndDelete
  <2>2. b \in Automatic /\ b \in Bundles /\ has'[b] = {"dir", "catalog"}
    BY <1>3, <2>1, ManifestGoesFirst, BundlesTyped
  <2>3. op' \in Operations /\ op'.kind = op.kind /\ op'.at = "delete" /\ op'.bundle = b
    BY <1>1, <2>1, <2>2 DEF Operations
  <2>4. OpFits'
    BY <1>1, <2>1, <2>2, <2>3 DEF IInv, OpFits, StepsFit, MakingFits, KeepingFits, CopyingFits,
                                  DeletingFits
  <2> QED
    BY <2>1, <2>2, <2>3, <2>4, PartGoes
<1>4. CASE ~StillPlanned(b)
  <2>1. op' = [op EXCEPT !.todo = @ \ {b}] /\ has' = has /\ known' = known
    BY <1>2, <1>4 DEF RevalidateAndDelete
  <2>2. op' \in Operations /\ op'.kind = op.kind /\ op'.at = "expire"
    BY <1>1, <2>1 DEF Operations
  <2>3. OpFits'
    BY <1>1, <2>1, <2>2 DEF IInv, OpFits, StepsFit, MakingFits, KeepingFits, CopyingFits,
                            DeletingFits
  <2> QED
    BY <2>1, <2>2, <2>3, OperationMoves DEF RevalidateAndDelete, disk
<1> QED
  BY <1>3, <1>4

LEMMA DeletePartIInv ==
  ASSUME IInv, DeletePart
  PROVE  IInv'
<1>1. op \in Operations /\ op.at = "delete" /\ has \in [Bundles -> SUBSET Parts]
  BY DEF DeletePart, IInv, TypeOK
<1>2. PICK b \in Automatic : b = op.bundle /\ b \in Bundles /\ "manifest" \notin has[b]
  BY <1>1, BundlesTyped DEF IInv, OpFits, DeletingFits
<1>3. PICK at \in {"unledger", "delete"} : at = (IF has'[b] = {} THEN "unledger" ELSE "delete")
  OBVIOUS
<1>4. /\ has' = [has EXCEPT ![b] = @ \ {DeletedPart(b)}] /\ op' = [op EXCEPT !.at = at]
      /\ UNCHANGED <<version, clock, content, made, damaged, status, pull, elsewhere, known,
                     counters, proved>>
  BY <1>2, <1>3 DEF DeletePart
<1>5. op' \in Operations /\ op'.kind = op.kind /\ op'.at = at /\ op'.bundle = b
  BY <1>1, <1>2, <1>4 DEF Operations
<1>6. "manifest" \notin has'[b]
  BY <1>1, <1>2, <1>4
<1>7. OpFits'
  BY <1>1, <1>4, <1>5, <1>6 DEF IInv, OpFits, StepsFit, MakingFits, KeepingFits, CopyingFits,
                                DeletingFits
<1> QED
  BY <1>4, <1>5, <1>7, PartGoes

LEMMA RemoveLedgerEntryIInv ==
  ASSUME IInv, RemoveLedgerEntry
  PROVE  IInv'
<1>1. op \in Operations /\ op.at = "unledger" /\ status \in StatusFiles
  BY DEF RemoveLedgerEntry, IInv, TypeOK
<1>2. /\ status' = [status EXCEPT !.ledger = @ \ {op.bundle}]
      /\ op' = [op EXCEPT !.at = "expire", !.todo = @ \ {op.bundle}]
      /\ UNCHANGED <<version, clock, has, content, made, damaged, pull, copies, snapshots, mounted,
                     known, pulls, faults, back, proved>>
  BY DEF RemoveLedgerEntry, disk, elsewhere, counters
<1>3. /\ status' \in StatusFiles /\ status'.ledger = status.ledger \ {op.bundle}
      /\ status'.attempt = status.attempt /\ status'.success = status.success
      /\ status'.offSuccess = status.offSuccess
  BY <1>1, <1>2 DEF StatusFiles
<1>4. op' \in Operations /\ op'.kind = op.kind /\ op'.at = "expire"
  BY <1>1, <1>2 DEF Operations
<1>5. TypeOK'
  BY <1>2, <1>3, <1>4, FilesRest DEF IInv, TypeOK
<1>6. OpFits'
  BY <1>1, <1>2, <1>4 DEF IInv, OpFits, StepsFit, MakingFits, KeepingFits, CopyingFits, DeletingFits
<1>7. PullFits' /\ BundlesFit'
  BY <1>2, <1>4, PullRests, BundlesRest DEF IInv
<1>8. StatusFits'
  BY <1>2, <1>3 DEF IInv, StatusFits
<1> QED
  BY <1>5, <1>6, <1>7, <1>8 DEF IInv

LEMMA FinishRetentionIInv ==
  ASSUME IInv, FinishRetention
  PROVE  IInv'
<1>1. /\ op' = Idle /\ status \in StatusFiles
      /\ status' = [status EXCEPT !.current = None] \/ status' = status
      /\ UNCHANGED <<version, clock, has, content, made, damaged, pull, copies, snapshots, mounted,
                     known, pulls, faults, back, proved>>
  BY DEF FinishRetention, disk, elsewhere, counters, IInv, TypeOK
<1>2. /\ status' \in StatusFiles /\ status'.ledger = status.ledger
      /\ status'.attempt = status.attempt /\ status'.success = status.success
      /\ status'.offSuccess = status.offSuccess
  BY <1>1 DEF StatusFiles
<1>3. TypeOK'
  BY <1>1, <1>2, IdleTyped, FilesRest DEF IInv, TypeOK
<1>4. OpFits' /\ PullFits' /\ BundlesFit'
  BY <1>1, IdleFits, PullRests, BundlesRest DEF IInv, Idle
<1>5. StatusFits'
  BY <1>1, <1>2 DEF IInv, StatusFits
<1> QED
  BY <1>3, <1>4, <1>5 DEF IInv

-----------------------------------------------------------------------------
(* A manual verification, and the copy that leaves the server.                *)

(* Of the status file, only what no step reads again moves.                   *)
LEMMA OperationAndStatusMove ==
  ASSUME IInv, op' \in Operations, OpFits', op'.at \notin {"stream", "reselect"}, status' \in StatusFiles,
         status'.ledger = status.ledger, status'.attempt = status.attempt,
         status'.success = status.success, status'.offSuccess = status.offSuccess,
         faults' \in Nat,
         UNCHANGED <<version, clock, disk, damaged, pull, elsewhere, known, pulls, back, proved>>
  PROVE  IInv'
<1>1. UNCHANGED <<version, clock, has, content, made, damaged, pull, copies, snapshots,
                  mounted, known, pulls, back, proved>>
  BY DEF disk, elsewhere
<1>2. TypeOK'
  BY <1>1, FilesRest DEF IInv, TypeOK
<1>3. PullFits' /\ BundlesFit'
  BY <1>1, PullRests, BundlesRest DEF IInv
<1>4. StatusFits'
  BY <1>1 DEF IInv, StatusFits
<1> QED
  BY <1>2, <1>3, <1>4 DEF IInv

LEMMA StartVerifyRestoreIInv ==
  ASSUME IInv, NEW b \in Bundles, StartVerifyRestore(b)
  PROVE  IInv'
<1>1. status \in StatusFiles /\ faults \in Nat
  BY DEF IInv, TypeOK
<1>2. /\ status' \in StatusFiles /\ status'.ledger = status.ledger
      /\ status'.attempt = status.attempt /\ status'.success = status.success
      /\ status'.offSuccess = status.offSuccess
  BY <1>1 DEF StartVerifyRestore, StatusFiles
<1>3. op' \in Operations /\ op'.kind = "verify-restore" /\ op'.at = "restore"
  BY DEF StartVerifyRestore, Idle, Operations
<1>4. OpFits'
  BY <1>3 DEF OpFits, StepsFit, MakingFits, KeepingFits, CopyingFits, DeletingFits
<1>5. faults' \in Nat
      /\ UNCHANGED <<version, clock, disk, damaged, pull, elsewhere, known, pulls, back, proved>>
  BY <1>1 DEF StartVerifyRestore, counters
<1> QED
  BY <1>2, <1>3, <1>4, <1>5, OperationAndStatusMove

LEMMA RecordManualVerificationIInv ==
  ASSUME IInv, NEW left \in BOOLEAN, RecordManualVerification(left)
  PROVE  IInv'
<1>1. status \in StatusFiles /\ faults \in Nat /\ op \in Operations
  BY DEF IInv, TypeOK
<1>2. PICK rest \in Bundles \cup {None} :
        rest = (IF left \/ status.pending = op.bundle THEN PendingCleanup(left) ELSE status.pending)
  BY <1>1 DEF PendingCleanup, Operations, StatusFiles
<1>3. status' = [status EXCEPT !.current = None, !.pending = rest]
  BY <1>2 DEF RecordManualVerification
<1>4. /\ status' \in StatusFiles /\ status'.ledger = status.ledger
      /\ status'.attempt = status.attempt /\ status'.success = status.success
      /\ status'.offSuccess = status.offSuccess
  BY <1>1, <1>3 DEF StatusFiles
<1>5. op' \in Operations /\ OpFits' /\ op'.at \notin {"stream", "reselect"}
  BY IdleTyped, IdleFits DEF RecordManualVerification, Idle
<1>6. faults' \in Nat
      /\ UNCHANGED <<version, clock, disk, damaged, pull, elsewhere, known, pulls, back, proved>>
  BY <1>1 DEF RecordManualVerification
<1> QED
  BY <1>4, <1>5, <1>6, OperationAndStatusMove

LEMMA StartOffdeviceIInv ==
  ASSUME IInv, StartOffdevice
  PROVE  IInv'
<1>1. status \in StatusFiles /\ faults \in Nat
  BY DEF IInv, TypeOK
<1>2. PICK n \in Nat : n = AllocateOffdeviceSeq
  BY OffdeviceSeqTyped DEF IInv
<1>3. PICK attempt \in Attempts : attempt = [state |-> "running", seq |-> n]
  BY DEF Attempts
<1>4. /\ status' = [status EXCEPT !.current = "run-offdevice", !.offAttempt = attempt]
      /\ op' = [Idle EXCEPT !.kind = "run-offdevice", !.at = "select", !.seq = n]
  BY <1>2, <1>3 DEF StartOffdevice
<1>5. /\ status' \in StatusFiles /\ status'.ledger = status.ledger
      /\ status'.attempt = status.attempt /\ status'.success = status.success
      /\ status'.offSuccess = status.offSuccess
  BY <1>1, <1>4 DEF StatusFiles
<1>6. op' \in Operations /\ op'.kind = "run-offdevice" /\ op'.at = "select"
  BY <1>4 DEF Idle, Operations
<1>7. OpFits'
  BY <1>6 DEF OpFits, StepsFit, MakingFits, KeepingFits, CopyingFits, DeletingFits
<1>8. faults' \in Nat
      /\ UNCHANGED <<version, clock, disk, damaged, pull, elsewhere, known, pulls, back, proved>>
  BY <1>1 DEF StartOffdevice, counters
<1> QED
  BY <1>5, <1>6, <1>7, <1>8, OperationAndStatusMove

(* The recovery point is a bundle that was proved.                            *)
LEMMA SelectedIsProved ==
  ASSUME IInv, Selectable
  PROVE  status.success.bundle \in Automatic /\ status.success.bundle \in proved
BY DEF IInv, StatusFits, Selectable, TypeOK

LEMMA SelectForCopyIInv ==
  ASSUME IInv, SelectForCopy
  PROVE  IInv'
<1>1. CASE Selectable /\ mounted
  <2>1. PICK b \in Automatic : b = status.success.bundle /\ b \in proved /\ b \in Bundles
    BY <1>1, SelectedIsProved, BundlesTyped
  <2>2. op \in Operations /\ op.at = "select" /\ op.kind = "run-offdevice"
    BY DEF IInv, TypeOK, SelectForCopy, OpFits, StepsFit
  <2>3. op' = [op EXCEPT !.at = "copy", !.bundle = b] /\ UNCHANGED <<status, known, proved, counters>>
    BY <1>1, <2>1 DEF SelectForCopy
  <2>4. op' \in Operations /\ op'.kind = op.kind /\ op'.at = "copy" /\ op'.bundle = b
    BY <2>1, <2>2, <2>3 DEF Operations
  <2>5. OpFits'
    BY <2>1, <2>2, <2>3, <2>4 DEF OpFits, StepsFit, MakingFits, KeepingFits, CopyingFits, DeletingFits
  <2> QED
    BY <2>3, <2>4, <2>5, OperationMoves DEF SelectForCopy
<1>2. CASE ~(Selectable /\ mounted)
  BY <1>2, GiveUpIInv DEF SelectForCopy
<1> QED
  BY <1>1, <1>2

LEMMA PublishOrReuseIInv ==
  ASSUME IInv, PublishOrReuse
  PROVE  IInv'
<1>1. TypeOK /\ op \in Operations /\ op.at = "copy" /\ op.kind = "run-offdevice"
  BY DEF IInv, TypeOK, PublishOrReuse, OpFits, StepsFit
<1>2. PICK b \in Automatic : b = op.bundle /\ b \in proved /\ b \in Bundles /\ content[b] \in Nat
  BY <1>1, BundlesTyped DEF IInv, OpFits, CopyingFits, BundlesFit, TypeOK
<1>3. PICK bytes : bytes = (IF Rot("server", b) THEN Rotten ELSE content[b])
  OBVIOUS
<1> DEFINE Copied == mounted /\ (IF copies[b] # None THEN CopyWhole(b) ELSE CopiesExactly(b))
<1>4. CASE Copied
  <2>1. /\ copies' = [copies EXCEPT ![b] = IF @ = None THEN bytes ELSE @]
        /\ op' = [op EXCEPT !.at = "restore"]
        /\ UNCHANGED <<version, clock, has, content, made, damaged, status, pull, snapshots, mounted,
                       known, pulls, faults, back, proved>>
    BY <1>2, <1>3, <1>4 DEF PublishOrReuse, disk, counters
  <2>2. copies \in [Bundles -> Nat \cup {None, Rotten}]
    BY <1>1 DEF TypeOK, Stored
  <2>3. copies[b] = None => bytes = content[b]
    BY <1>3, <1>4 DEF CopiesExactly, Whole, Rot
  <2>4. copies'[b] # None /\ copies'[b] \in Nat \cup {Rotten} /\ (copies'[b] = content[b] \/ copies'[b] = copies[b])
    BY <1>2, <2>1, <2>2, <2>3, BackupAssumption
  <2>5. \A a \in Bundles : a # b => copies'[a] = copies[a]
    BY <2>1, <2>2
  <2>6. op' \in Operations /\ op'.kind = op.kind /\ op'.at = "restore" /\ op'.bundle = b
    BY <1>1, <1>2, <2>1 DEF Operations
  <2>7. TypeOK'
    <3>1. copies' \in Stored
      BY <2>1, <2>2, <2>4, <1>2 DEF Stored
    <3> QED
      BY <1>1, <2>1, <2>6, <3>1 DEF TypeOK
  <2>8. OpFits'
    BY <1>1, <1>2, <2>1, <2>4, <2>6 DEF OpFits, StepsFit, MakingFits, KeepingFits, CopyingFits,
                                        DeletingFits
  <2>9. PullFits'
    BY <2>1, <2>6, PullRests DEF IInv
  <2>10. BundlesFit'
    <3>1. ASSUME NEW a \in Bundles, copies'[a] # None
          PROVE  a \in proved /\ (copies'[a] = content[a] \/ Rot("volume", a))
      <4>1. CASE a = b
        BY <1>2, <2>3, <2>4, <4>1, <2>1, <1>4 DEF IInv, BundlesFit, CopyWhole
      <4>2. CASE a # b
        BY <2>5, <3>1, <4>2 DEF IInv, BundlesFit
      <4> QED
        BY <4>1, <4>2
    <3> QED
      BY <2>1, <3>1 DEF IInv, BundlesFit, Rot
  <2>11. StatusFits'
    <3>1. ASSUME status.offSuccess # None
          PROVE  copies'[status.offSuccess.bundle] # None
      <4>1. status.offSuccess.bundle \in Bundles
        BY <1>1, <3>1, BundlesTyped DEF TypeOK, StatusFiles
      <4> QED
        BY <2>4, <2>5, <3>1, <4>1 DEF IInv, StatusFits
    <3> QED
      BY <2>1, <3>1 DEF IInv, StatusFits
  <2> QED
    BY <2>7, <2>8, <2>9, <2>10, <2>11 DEF IInv
<1>5. CASE ~Copied
  <2>1. GiveUp /\ UNCHANGED copies
    BY <1>2, <1>5 DEF PublishOrReuse
  <2> QED
    BY <2>1, GiveUpIInv DEF PublishOrReuse, elsewhere
<1> QED
  BY <1>4, <1>5

LEMMA RecordOffdeviceSuccessIInv ==
  ASSUME IInv, RecordOffdeviceSuccess
  PROVE  IInv'
<1>1. TypeOK /\ op \in Operations /\ status \in StatusFiles
  BY DEF IInv, TypeOK
<1>2. PICK b \in Automatic : b = op.bundle /\ copies[b] # None
  BY DEF RecordOffdeviceSuccess, IInv, OpFits, CopyingFits, TypeOK
<1>3. PICK n \in Nat : n = op.seq
  BY <1>1 DEF Operations
<1>4. PICK attempt \in Attempts : attempt = [state |-> "succeeded", seq |-> n]
  BY DEF Attempts
<1>5. PICK success \in [bundle : Automatic, seq : Nat] : success = [bundle |-> b, seq |-> n]
  OBVIOUS
<1>6. /\ status' = [status EXCEPT !.offAttempt = attempt, !.offSeq = n, !.offSuccess = success,
                                  !.current = None]
      /\ op' = Idle
      /\ UNCHANGED <<version, clock, has, content, made, damaged, pull, copies, snapshots, mounted,
                     known, pulls, faults, back, proved>>
  BY <1>2, <1>3, <1>4, <1>5 DEF RecordOffdeviceSuccess, disk, elsewhere, counters
<1>7. /\ status' \in StatusFiles /\ status'.ledger = status.ledger
      /\ status'.attempt = status.attempt /\ status'.success = status.success
      /\ status'.offSuccess = success
  BY <1>1, <1>6 DEF StatusFiles
<1>8. TypeOK'
  BY <1>1, <1>6, <1>7, IdleTyped, FilesRest DEF TypeOK
<1>9. OpFits' /\ PullFits' /\ BundlesFit'
  BY <1>6, IdleFits, PullRests, BundlesRest DEF IInv, Idle
<1>10. StatusFits'
  BY <1>2, <1>5, <1>6, <1>7 DEF IInv, StatusFits
<1> QED
  BY <1>8, <1>9, <1>10 DEF IInv

-----------------------------------------------------------------------------
(* The pull of a workstation.                                                 *)

(* Only the operation and the pull move.                                      *)
LEMMA PullMoves ==
  ASSUME IInv, op' \in Operations, OpFits', PullFits', pulls' \in Nat, faults' \in Nat,
         pull' \in [at : {"idle", "receiving", "eof", "staged"}, bundle : Automatic \cup {None},
                    bytes : Nat \cup {None, Rotten}],
         UNCHANGED <<version, clock, disk, damaged, status, elsewhere, known, back, proved>>
  PROVE  IInv'
<1>1. UNCHANGED <<version, clock, has, content, made, damaged, status, copies, snapshots,
                  mounted, known, back, proved>>
  BY DEF disk, elsewhere
<1>2. TypeOK'
  BY <1>1 DEF IInv, TypeOK, Stored
<1>3. BundlesFit' /\ StatusFits'
  BY <1>1, BundlesRest, StatusRests DEF IInv
<1> QED
  BY <1>2, <1>3 DEF IInv

LEMMA StartPullIInv ==
  ASSUME IInv, StartPull
  PROVE  IInv'
<1>1. PICK b \in Automatic : b = status.success.bundle /\ b \in proved /\ b \in Bundles
  BY SelectedIsProved, BundlesTyped DEF StartPull
<1>2. /\ op' = [Idle EXCEPT !.kind = "export", !.at = "stream", !.bundle = b]
      /\ pull' = [NoPull EXCEPT !.at = "receiving", !.bundle = b]
      /\ pulls' \in Nat /\ faults' \in Nat
      /\ UNCHANGED <<version, clock, disk, damaged, status, elsewhere, known, back, proved>>
  BY <1>1 DEF StartPull, IInv, TypeOK
<1>3. op' \in Operations /\ op'.kind = "export" /\ op'.at = "stream" /\ op'.bundle = b
  BY <1>1, <1>2 DEF Idle, Operations
<1>4. OpFits'
  BY <1>3 DEF OpFits, StepsFit, MakingFits, KeepingFits, CopyingFits, DeletingFits
<1>5. /\ pull' \in [at : {"idle", "receiving", "eof", "staged"}, bundle : Automatic \cup {None},
                    bytes : Nat \cup {None, Rotten}]
      /\ pull'.at = "receiving" /\ pull'.bundle = b
  BY <1>2 DEF NoPull
<1>6. PullFits'
  BY <1>1, <1>2, <1>3, <1>5 DEF PullFits
<1> QED
  BY <1>2, <1>3, <1>4, <1>5, <1>6, PullMoves

LEMMA StreamIInv ==
  ASSUME IInv, Stream
  PROVE  IInv'
<1>1. op \in Operations /\ op.at = "stream" /\ op.kind = "export" /\ pull.at = "receiving"
      /\ pull \in [at : {"idle", "receiving", "eof", "staged"}, bundle : Automatic \cup {None},
                   bytes : Nat \cup {None, Rotten}]
  BY DEF Stream, IInv, TypeOK, OpFits, StepsFit
<1>2. PICK b \in Bundles : b = pull.bundle /\ b \in proved /\ content[b] \in Nat
  BY <1>1, BundlesTyped DEF IInv, PullFits, BundlesFit, TypeOK
<1>3. PICK bytes : bytes = (IF Rot("server", op.bundle) THEN Rotten ELSE content[op.bundle])
  OBVIOUS
<1>4. /\ pulls' \in Nat /\ faults' \in Nat
      /\ UNCHANGED <<version, clock, disk, damaged, status, elsewhere, known, back, proved>>
      /\ UNCHANGED content
  BY DEF Stream, counters, disk, IInv, TypeOK
<1>5. CASE ReceivedExactly(bytes)
  <2>1. PICK n \in Nat : n = bytes /\ n = content[b]
    BY <1>2, <1>5 DEF ReceivedExactly
  <2>2. op' = [op EXCEPT !.at = "reselect"] /\ pull' = [pull EXCEPT !.at = "eof", !.bytes = n]
    BY <1>3, <1>5, <2>1 DEF Stream
  <2>3. op' \in Operations /\ op'.kind = "export" /\ op'.at = "reselect"
    BY <1>1, <2>2 DEF Operations
  <2>4. OpFits'
    BY <2>3 DEF OpFits, StepsFit, MakingFits, KeepingFits, CopyingFits, DeletingFits
  <2>5. /\ pull' \in [at : {"idle", "receiving", "eof", "staged"}, bundle : Automatic \cup {None},
                      bytes : Nat \cup {None, Rotten}]
        /\ pull'.at = "eof" /\ pull'.bundle = b /\ pull'.bytes = n
    BY <1>1, <1>2, <2>2
  <2>6. PullFits'
    BY <1>2, <1>4, <2>1, <2>3, <2>5 DEF PullFits
  <2> QED
    BY <1>4, <2>3, <2>4, <2>5, <2>6, PullMoves
<1>6. CASE ~ReceivedExactly(bytes)
  <2>1. op' = Idle /\ pull' = NoPull
    BY <1>3, <1>6 DEF Stream
  <2>2. OpFits' /\ PullFits'
    BY <2>1, IdleFits DEF PullFits, Idle, NoPull
  <2> QED
    BY <1>4, <2>1, <2>2, IdleTyped, PullMoves
<1> QED
  BY <1>5, <1>6

LEMMA EndExportIInv ==
  ASSUME IInv, EndExport
  PROVE  IInv'
<1>1. /\ op' = Idle /\ pulls' \in Nat /\ faults' \in Nat
      /\ UNCHANGED <<version, clock, disk, damaged, status, elsewhere, known, back, proved>>
      /\ UNCHANGED content
      /\ pull.at = "eof"
      /\ pull \in [at : {"idle", "receiving", "eof", "staged"}, bundle : Automatic \cup {None},
                   bytes : Nat \cup {None, Rotten}]
      /\ pull' = [pull EXCEPT !.at = "staged"] \/ pull' = NoPull
  BY DEF EndExport, counters, disk, IInv, TypeOK, PullFits
<1>2. OpFits' /\ op' \in Operations
  BY <1>1, IdleFits, IdleTyped
<1>3. /\ pull' \in [at : {"idle", "receiving", "eof", "staged"}, bundle : Automatic \cup {None},
                    bytes : Nat \cup {None, Rotten}]
      /\ pull'.at = "idle" \/ (pull'.at = "staged" /\ pull'.bundle = pull.bundle /\ pull'.bytes = pull.bytes)
  BY <1>1, IdleTyped DEF NoPull
<1>4. PullFits'
  BY <1>1, <1>3 DEF IInv, PullFits, Idle
<1> QED
  BY <1>1, <1>2, <1>3, <1>4, PullMoves

LEMMA PublishSnapshotIInv ==
  ASSUME IInv, PublishSnapshot
  PROVE  IInv'
<1>1. PICK b \in Bundles : b = pull.bundle /\ b \in proved /\ content[b] \in Nat /\ pull.bytes = content[b]
  BY BundlesTyped DEF PublishSnapshot, IInv, PullFits, BundlesFit, TypeOK
<1>2. PICK n \in Nat : n = content[b]
  BY <1>1
<1>3. /\ snapshots' = [snapshots EXCEPT ![b] = IF @ = None THEN n ELSE @]
      /\ pull' = NoPull
      /\ UNCHANGED <<version, clock, has, content, made, damaged, status, op, copies, mounted, known,
                     pulls, faults, back, proved>>
  BY <1>1, <1>2 DEF PublishSnapshot, disk, counters
<1>4. snapshots \in [Bundles -> Nat \cup {None, Rotten}]
  BY DEF IInv, TypeOK, Stored
<1>5. /\ snapshots' \in [Bundles -> Nat \cup {None, Rotten}]
      /\ snapshots'[b] = (IF snapshots[b] = None THEN n ELSE snapshots[b])
      /\ \A a \in Bundles : a # b => snapshots'[a] = snapshots[a]
  BY <1>3, <1>4
<1>6. TypeOK'
  BY <1>3, <1>5, IdleTyped DEF IInv, TypeOK, Stored
<1>7. OpFits' /\ StatusFits'
  BY <1>3, OpRests, StatusRests DEF IInv
<1>8. PullFits'
  <2>1. op.at # "reselect"
    BY DEF PublishSnapshot, IInv, PullFits
  <2> QED
    BY <1>3, <2>1 DEF IInv, PullFits, NoPull
<1>9. BundlesFit'
  <2>1. ASSUME NEW a \in Bundles, snapshots'[a] # None
        PROVE  a \in proved /\ (snapshots'[a] = content[a] \/ Rot("workstation", a))
    <3>1. CASE a = b
      BY <1>1, <1>2, <1>5, <3>1 DEF IInv, BundlesFit
    <3>2. CASE a # b
      BY <1>5, <2>1, <3>2 DEF IInv, BundlesFit
    <3> QED
      BY <3>1, <3>2
  <2> QED
    BY <1>3, <2>1 DEF IInv, BundlesFit, Rot
<1> QED
  BY <1>6, <1>7, <1>8, <1>9 DEF IInv

-----------------------------------------------------------------------------
(* Around the server.                                                         *)

(* Nothing moves that the invariant relates, but the disks.                   *)
LEMMA AroundIInv ==
  ASSUME IInv, version' \in Nat, clock' \in Nat, faults' \in Nat, back' \in Nat, mounted' \in BOOLEAN,
         damaged \subseteq damaged', damaged' \in SUBSET ({"server", "volume", "workstation"} \X Bundles),
         UNCHANGED <<has, content, made, status, op, pull, copies, snapshots, known, pulls, proved>>
  PROVE  IInv'
<1>1. TypeOK'
  BY DEF IInv, TypeOK, Stored
<1>2. OpFits' /\ PullFits' /\ StatusFits'
  BY OpRests, PullRests, StatusRests DEF IInv
<1>3. BundlesFit'
  BY DEF IInv, BundlesFit, Rot
<1> QED
  BY <1>1, <1>2, <1>3 DEF IInv

LEMMA WorldIInv ==
  ASSUME IInv, WriteCatalogue \/ SetClockBack \/ Unmount \/ Mount
               \/ \E place \in {"server", "volume", "workstation"}, b \in Bundles : Damage(place, b)
  PROVE  IInv'
<1>1. version \in Nat /\ clock \in Nat /\ faults \in Nat /\ back \in Nat /\ mounted \in BOOLEAN
      /\ damaged \in SUBSET ({"server", "volume", "workstation"} \X Bundles)
  BY DEF IInv, TypeOK
<1>2. CASE WriteCatalogue
  BY <1>1, <1>2, AroundIInv DEF WriteCatalogue, disk, elsewhere, counters
<1>3. CASE SetClockBack
  BY <1>1, <1>3, AroundIInv DEF SetClockBack, disk, elsewhere
<1>4. CASE Unmount
  <2>1. /\ mounted' = FALSE /\ faults' = faults + 1
        /\ UNCHANGED <<version, clock, has, content, made, damaged, status, op, pull, copies, snapshots,
                       known, pulls, back, proved>>
    BY <1>4 DEF Unmount, disk
  <2>2. version' \in Nat /\ clock' \in Nat /\ faults' \in Nat /\ back' \in Nat
    BY <1>1, <2>1
  <2>3. mounted' \in BOOLEAN /\ damaged \subseteq damaged'
        /\ damaged' \in SUBSET ({"server", "volume", "workstation"} \X Bundles)
    BY <1>1, <2>1, Zenon
  <2>4. UNCHANGED <<has, content, made, status, op, pull, copies, snapshots, known, pulls, proved>>
    BY <2>1
  <2> QED
    BY <2>2, <2>3, <2>4, AroundIInv
<1>5. CASE Mount
  BY <1>1, <1>5, AroundIInv DEF Mount, disk, counters
<1>6. ASSUME NEW place \in {"server", "volume", "workstation"}, NEW b \in Bundles, Damage(place, b)
      PROVE  IInv'
  <2>1. /\ damaged' = damaged \cup {<<place, b>>} /\ faults' = faults + 1
        /\ UNCHANGED <<version, clock, has, content, made, status, op, pull, copies, snapshots, mounted,
                       known, pulls, back, proved>>
    BY <1>6 DEF Damage, disk, elsewhere
  <2> QED
    BY <1>1, <2>1, AroundIInv
<1> QED
  BY <1>2, <1>3, <1>4, <1>5, <1>6

LEMMA KilledIInv ==
  ASSUME IInv, Killed \/ PullEnds
  PROVE  IInv'
<1>1. /\ pulls' \in Nat /\ faults' \in Nat
      /\ UNCHANGED <<version, clock, disk, damaged, status, elsewhere, known, back, proved>>
      /\ UNCHANGED <<has, content, copies>>
  BY DEF Killed, PullEnds, disk, elsewhere, IInv, TypeOK
<1>2. pull' = pull \/ pull' = NoPull
  BY DEF Killed, PullEnds
<1>3. op' = Idle \/ (op' = op /\ op.kind # "export")
  BY DEF Killed, PullEnds
<1>4. op' \in Operations
  BY <1>3, IdleTyped DEF IInv, TypeOK
<1>5. OpFits'
  BY <1>1, <1>3, IdleFits, OpRests DEF IInv
<1>6. pull' \in [at : {"idle", "receiving", "eof", "staged"}, bundle : Automatic \cup {None},
                 bytes : Nat \cup {None, Rotten}]
  BY <1>2, IdleTyped DEF IInv, TypeOK
<1>7. op'.at \notin {"stream", "reselect"}
  BY <1>3 DEF IInv, OpFits, StepsFit, Idle
<1>8. PullFits'
  BY <1>1, <1>2, <1>7 DEF IInv, PullFits, NoPull
<1> QED
  BY <1>1, <1>4, <1>5, <1>6, <1>8, PullMoves

-----------------------------------------------------------------------------
(* Every step.                                                                *)

LEMMA NextIInv ==
  ASSUME IInv, [Next]_vars
  PROVE  IInv'
<1>1. CASE Pipeline
  BY <1>1, StartScheduledIInv, SnapshotIInv, PublishPartIInv, RestoreAndSemanticIInv,
     RecordScheduledSuccessIInv, StepFailsIInv DEF Pipeline
<1>2. CASE Retention
  BY <1>2, StartExpireIInv, BuildRetentionPlanIInv, RevalidateAndDeleteIInv, DeletePartIInv,
     RemoveLedgerEntryIInv, FinishRetentionIInv DEF Retention
<1>3. CASE Verification
  BY <1>3, StartVerifyRestoreIInv, RecordManualVerificationIInv DEF Verification
<1>4. CASE Copying
  BY <1>4, StartOffdeviceIInv, SelectForCopyIInv, PublishOrReuseIInv, RecordOffdeviceSuccessIInv
     DEF Copying
<1>5. CASE Pulling
  BY <1>5, StartPullIInv, StreamIInv, EndExportIInv, PublishSnapshotIInv DEF Pulling
<1>6. CASE Surroundings
  BY <1>6, WorldIInv, KilledIInv DEF Surroundings
<1>7. CASE UNCHANGED vars
  <2>1. UNCHANGED <<has, content, made, status, op, pull, copies, snapshots, known, pulls, proved,
                    version, clock, faults, back, mounted, damaged>>
    BY <1>7 DEF vars, disk, elsewhere, counters
  <2>2. version \in Nat /\ clock \in Nat /\ faults \in Nat /\ back \in Nat /\ mounted \in BOOLEAN
        /\ damaged \in SUBSET ({"server", "volume", "workstation"} \X Bundles)
    BY DEF IInv, TypeOK
  <2> QED
    BY <2>1, <2>2, AroundIInv
<1> QED
  BY <1>1, <1>2, <1>3, <1>4, <1>5, <1>6, <1>7 DEF Next

(* Every reachable state satisfies the inductive invariant.                   *)
THEOREM BackupInvariant == Spec => []IInv
<1>1. Init => IInv
  BY InitIInv
<1>2. IInv /\ [Next]_vars => IInv'
  BY NextIInv
<1> QED
  BY <1>1, <1>2, PTL DEF Spec

(* The bundles, the status file, the operation that holds the lock and the    *)
(* copies keep their types (catalog_backup_ops.py).                           *)
THEOREM BackupTypeCorrect == Spec => []TypeOK
<1>1. IInv => TypeOK
  BY DEF IInv
<1> QED
  BY <1>1, BackupInvariant, PTL

(* derive_restore_readiness never says ready over a failure that was          *)
(* recorded, unless an attempt that was cut off hides it.                     *)
THEOREM ReadinessIsAlwaysHonest == Spec => []ReadinessIsHonest
<1>1. IInv => ReadinessIsHonest
  <2> SUFFICES ASSUME IInv, Readiness = "ready"
               PROVE  known = "proved" \/ status.attempt.state = "running"
    BY DEF ReadinessIsHonest
  <2>1. /\ status.success # None
        /\ ~(status.attempt.state = "failed" /\ AttemptAfterSuccess)
    BY DEF Readiness
  <2>2. status.attempt.state \in {"none", "running", "failed", "succeeded"}
    BY DEF IInv, TypeOK, StatusFiles, Attempts
  <2> QED
    BY <2>1, <2>2 DEF IInv, StatusFits, AttemptAfterSuccess
<1> QED
  BY <1>1, BackupInvariant, PTL

(* What the volume and the workstation list is, byte for byte, a bundle that  *)
(* a daily attempt restored (publish_or_reuse_offdevice_bundle and the pull   *)
(* of catalog_backup_workstation.py), unless that disk has damaged it.        *)
THEOREM CopiesAreAlwaysProved == Spec => []CopiesAreProved
<1>1. IInv => CopiesAreProved
  <2> SUFFICES ASSUME IInv PROVE CopiesAreProved
    OBVIOUS
  <2>1. ASSUME NEW b \in Bundles
        PROVE  /\ copies[b] # None => b \in proved /\ (CopyWhole(b) \/ Rot("volume", b))
               /\ snapshots[b] # None => b \in proved /\ (SnapshotWhole(b) \/ Rot("workstation", b))
    BY DEF IInv, BundlesFit, CopyWhole, SnapshotWhole
  <2>2. OffdeviceReadiness = "ready" => copies[status.offSuccess.bundle] # None
    BY DEF IInv, StatusFits, OffdeviceReadiness
  <2> QED
    BY <2>1, <2>2 DEF CopiesAreProved
<1> QED
  BY <1>1, BackupInvariant, PTL

-----------------------------------------------------------------------------
(* The floor of the retention.                                                *)

(* A bundle of the ledger loses its manifest to nobody but a retention that   *)
(* has just found it in its plan.                                             *)
LEMMA OnlyRetentionUnlinks ==
  ASSUME IInv, [Next]_vars, NEW b \in status.ledger, "manifest" \in has[b], "manifest" \notin has'[b]
  PROVE  RevalidateAndDelete /\ b = Newest(op.todo) /\ StillPlanned(b)
<1>1. has' # has /\ b \in proved /\ b \in Automatic /\ b \in Bundles
  BY BundlesTyped DEF IInv, StatusFits, TypeOK
<1>2. has \in [Bundles -> SUBSET Parts]
  BY DEF IInv, TypeOK
<1>3. PublishPart \/ StepFails \/ RevalidateAndDelete \/ DeletePart
  <2>1. CASE Pipeline
    BY <1>1, <2>1 DEF Pipeline, StartScheduled, Snapshot, RestoreAndSemantic, RecordScheduledSuccess, disk
  <2>2. CASE Retention
    BY <1>1, <2>2 DEF Retention, StartExpire, BuildRetentionPlan, RemoveLedgerEntry, FinishRetention, disk
  <2>3. CASE Verification
    BY <1>1, <2>3 DEF Verification, StartVerifyRestore, RecordManualVerification, disk
  <2>4. CASE Copying
    BY <1>1, <2>4 DEF Copying, StartOffdevice, SelectForCopy, PublishOrReuse, RecordOffdeviceSuccess, disk
  <2>5. CASE Pulling
    BY <1>1, <2>5 DEF Pulling, StartPull, Stream, EndExport, PublishSnapshot, disk
  <2>6. CASE Surroundings
    BY <1>1, <2>6 DEF Surroundings, WriteCatalogue, SetClockBack, Killed, PullEnds, Unmount, Mount,
                      Damage, disk
  <2>7. CASE UNCHANGED vars
    BY <1>1, <2>7 DEF vars, disk
  <2> QED
    BY <2>1, <2>2, <2>3, <2>4, <2>5, <2>6, <2>7 DEF Next
<1>4. ~PublishPart
  <2> SUFFICES ASSUME PublishPart PROVE "manifest" \in has'[b]
    OBVIOUS
  <2>1. PICK part : part = NextPart(op.bundle)
    OBVIOUS
  <2>2. has' = [has EXCEPT ![op.bundle] = @ \cup {part}]
    BY <2>1 DEF PublishPart
  <2> QED
    BY <1>1, <1>2, <2>2
<1>5. ~StepFails
  <2> SUFFICES ASSUME StepFails PROVE has'[b] = has[b]
    OBVIOUS
  <2>1. CASE op.at = "publish"
    <3>1. op.bundle # b /\ has' = [has EXCEPT ![op.bundle] = {}]
      BY <1>1, <2>1 DEF IInv, OpFits, StepsFit, MakingFits, StepFails
    <3> QED
      BY <1>1, <1>2, <3>1
  <2>2. CASE op.at # "publish"
    BY <2>2 DEF StepFails
  <2> QED
    BY <2>1, <2>2
<1>6. ~DeletePart
  <2> SUFFICES ASSUME DeletePart PROVE has'[b] = has[b]
    OBVIOUS
  <2>1. op.bundle # b
    BY DEF DeletePart, IInv, OpFits, DeletingFits
  <2>2. has' = [has EXCEPT ![op.bundle] = @ \ {DeletedPart(op.bundle)}]
    BY DEF DeletePart
  <2> QED
    BY <1>1, <1>2, <2>1, <2>2
<1>7. RevalidateAndDelete
  BY <1>3, <1>4, <1>5, <1>6
<1>8. PICK a : a = Newest(op.todo)
  OBVIOUS
<1>9. StillPlanned(a)
  BY <1>1, <1>7, <1>8 DEF RevalidateAndDelete
<1>10. has' = [has EXCEPT ![a] = @ \ {DeletedPart(a)}]
  BY <1>7, <1>8, <1>9 DEF RevalidateAndDelete
<1>11. a = b
  BY <1>1, <1>9, <1>10, ManifestGoesFirst
<1> QED
  BY <1>7, <1>8, <1>9, <1>11

LEMMA AutomaticIsFinite == IsFiniteSet(Automatic)
<1>1. 1 \in Int /\ MaxAttempts \in Int
  BY BackupAssumption
<1>2. IsFiniteSet(1..MaxAttempts)
  BY <1>1, FS_Interval, Zenon
<1> QED
  BY <1>2 DEF Automatic

(* The newer bundles by which the plan counts stay whole.                     *)
LEMMA EnoughAreLeft ==
  ASSUME IInv, IInv', RevalidateAndDelete, NEW b, b = Newest(op.todo), StillPlanned(b)
  PROVE  Cardinality(Restorables') >= MinKeep
<1> DEFINE Kept == {a \in AutomaticVerified : Newer(a, b)}
<1>1. /\ has' = [has EXCEPT ![b] = @ \ {DeletedPart(b)}]
      /\ UNCHANGED <<status, damaged>>
  BY DEF RevalidateAndDelete
<1>2. /\ b \in Automatic /\ \A a \in Bundles : a # b => has'[a] = has[a]
  BY <1>1, ManifestGoesFirst
<1>3. ~Newer(b, b)
  BY <1>2, BundlesTyped DEF IInv, TypeOK, Newer
<1>4. ASSUME NEW a \in Kept PROVE a \in Restorables'
  <2>1. a \in status.ledger \cap Automatic /\ Whole(a) /\ a # b /\ a \in Bundles
    BY <1>3, BundlesTyped DEF AutomaticVerified, VerificationEligible
  <2> QED
    BY <1>1, <1>2, <2>1 DEF Restorables, Whole
<1>5. IsFiniteSet(Restorables')
  <2>1. IsFiniteSet(Automatic)
    BY AutomaticIsFinite
  <2>2. Restorables' \in SUBSET Automatic
    BY DEF Restorables
  <2> QED
    BY <2>1, <2>2, FS_Subset
<1>6. PICK R : R = Restorables'
  OBVIOUS
<1>7. PICK K : K = Kept
  OBVIOUS
<1>8. K \in SUBSET R /\ IsFiniteSet(R)
  BY <1>4, <1>5, <1>6, <1>7
<1>9. Cardinality(K) <= Cardinality(R) /\ Cardinality(K) \in Nat /\ Cardinality(R) \in Nat
  BY <1>8, FS_Subset, FS_CardinalityType
<1>10. Cardinality(K) >= KeepAuto
  BY <1>7 DEF StillPlanned, Plan
<1>11. Cardinality(R) >= MinKeep
  BY <1>9, <1>10, BackupAssumption
<1> QED
  BY <1>6, <1>11

(* A retention that begins to delete a bundle leaves at least MIN_KEEP_AUTO   *)
(* others that can be restored (build_retention_plan, the plan made again by  *)
(* expire_automatic_backups), and no operator's bundle is ever touched.       *)
THEOREM FloorIsAlwaysKept == Spec => FloorIsKept
<1>1. IInv /\ IInv' /\ [Next]_vars =>
         [/\ \A b \in status.ledger :
                "manifest" \in has[b] /\ "manifest" \notin has'[b] => Cardinality(Restorables') >= MinKeep
          /\ has'[Pinned] = Parts]_vars
  <2> SUFFICES ASSUME IInv, IInv', [Next]_vars
               PROVE  /\ \A b \in status.ledger :
                            "manifest" \in has[b] /\ "manifest" \notin has'[b] =>
                               Cardinality(Restorables') >= MinKeep
                      /\ has'[Pinned] = Parts
    OBVIOUS
  <2>1. ASSUME NEW b \in status.ledger, "manifest" \in has[b], "manifest" \notin has'[b]
        PROVE  Cardinality(Restorables') >= MinKeep
    BY <2>1, OnlyRetentionUnlinks, EnoughAreLeft
  <2>2. has'[Pinned] = Parts
    BY DEF IInv, BundlesFit
  <2> QED
    BY <2>1, <2>2
<1> QED
  BY <1>1, BackupInvariant, PTL DEF Spec, FloorIsKept

-----------------------------------------------------------------------------
(* Deployment: the steps of the commands.                                    *)

LEMMA AfterIs ==
  ASSUME NEW steps, NEW n \in Nat, DOMAIN steps = 1..n, Len(steps) = n,
         \A i, j \in 1..n : steps[i] = steps[j] => i = j,
         NEW k \in 1..n
  PROVE  After(steps, steps[k]) = IF k = n THEN "idle" ELSE steps[k + 1]
<1>1. (CHOOSE j \in DOMAIN steps : steps[j] = steps[k]) = k
  OBVIOUS
<1> QED
  BY <1>1, Zenon DEF After

\* The step that follows in each of the five lists.
AfterDeploy == [lock |-> "absent", absent |-> "transfer", transfer |-> "directory",
                directory |-> "source", source |-> "runtime", runtime |-> "relocated",
                relocated |-> "marked", marked |-> "publish", publish |-> "schema",
                schema |-> "checkpoint", checkpoint |-> "capture", capture |-> "ready",
                ready |-> "switch", switch |-> "restart", restart |-> "verify"]
AfterRollback == [exists |-> "lock", lock |-> "capture", capture |-> "ready",
                  ready |-> "switch", switch |-> "restart", restart |-> "verify"]

LEMMA DeployGoesOn ==
  /\ \A s \in DOMAIN AfterDeploy : After(DeploySteps, s) = AfterDeploy[s]
  /\ After(DeploySteps, "clean") = "unlock"
<1> DEFINE D == DeploySteps
<1>1. DOMAIN D = 1..18 /\ Len(D) = 18
  BY DEF DeploySteps
<1>2. \A i, j \in 1..18 : D[i] = D[j] => i = j
  BY SMTT(60) DEF DeploySteps
<1>3. \A k \in 1..18 : After(D, D[k]) = IF k = 18 THEN "idle" ELSE D[k + 1]
  BY <1>1, <1>2, AfterIs
<1>4. \A k \in 1..17 : After(D, D[k]) = D[k + 1]
  BY <1>3
<1> QED
  BY <1>4, SMTT(60) DEF DeploySteps, AfterDeploy

LEMMA RollbackGoesOn ==
  /\ \A s \in DOMAIN AfterRollback : After(RollbackSteps, s) = AfterRollback[s]
  /\ After(RollbackSteps, "clean") = "unlock"
<1> DEFINE D == RollbackSteps
<1>1. DOMAIN D = 1..9 /\ Len(D) = 9
  BY DEF RollbackSteps
<1>2. \A i, j \in 1..9 : D[i] = D[j] => i = j
  BY SMTT(60) DEF RollbackSteps
<1>3. \A k \in 1..9 : After(D, D[k]) = IF k = 9 THEN "idle" ELSE D[k + 1]
  BY <1>1, <1>2, AfterIs
<1>4. \A k \in 1..8 : After(D, D[k]) = D[k + 1]
  BY <1>3
<1> QED
  BY <1>4, SMTT(60) DEF RollbackSteps, AfterRollback

AfterKey == [save |-> "credential", credential |-> "dropin", dropin |-> "configure",
             configure |-> "accept", accept |-> "restart", restart |-> "answer",
             answer |-> "cleanup"]
AfterUndo == [restore |-> "reload", reload |-> "undo_restart",
              undo_restart |-> "undo_answer", undo_answer |-> "cleanup"]
AfterBack == [back |-> "back_ready", back_ready |-> "back_restart",
              back_restart |-> "back_verify"]

LEMMA KeysGoOn == \A s \in DOMAIN AfterKey : After(KeySteps, s) = AfterKey[s]
<1> DEFINE D == KeySteps
<1>1. DOMAIN D = 1..8 /\ Len(D) = 8
  BY DEF KeySteps
<1>2. \A i, j \in 1..8 : D[i] = D[j] => i = j
  BY SMTT(60) DEF KeySteps
<1>3. \A k \in 1..8 : After(D, D[k]) = IF k = 8 THEN "idle" ELSE D[k + 1]
  BY <1>1, <1>2, AfterIs
<1>4. \A k \in 1..7 : After(D, D[k]) = D[k + 1]
  BY <1>3
<1> QED
  BY <1>4, SMTT(60) DEF KeySteps, AfterKey

LEMMA UndoGoesOn ==
  /\ \A s \in DOMAIN AfterUndo : After(UndoSteps, s) = AfterUndo[s]
  /\ \A s : InSteps(s, UndoSteps) <=> s \in DOMAIN AfterUndo \cup {"cleanup"}
<1> DEFINE D == UndoSteps
<1>1. DOMAIN D = 1..5 /\ Len(D) = 5
  BY DEF UndoSteps
<1>2. \A i, j \in 1..5 : D[i] = D[j] => i = j
  BY SMTT(60) DEF UndoSteps
<1>3. \A k \in 1..5 : After(D, D[k]) = IF k = 5 THEN "idle" ELSE D[k + 1]
  BY <1>1, <1>2, AfterIs
<1>4. \A k \in 1..4 : After(D, D[k]) = D[k + 1]
  BY <1>3
<1>5. \A s \in DOMAIN AfterUndo : After(UndoSteps, s) = AfterUndo[s]
  BY <1>4, SMTT(60) DEF UndoSteps, AfterUndo
<1>6. \A s : InSteps(s, UndoSteps) <=> s \in DOMAIN AfterUndo \cup {"cleanup"}
  BY <1>1, SMTT(60) DEF UndoSteps, AfterUndo, InSteps
<1> QED
  BY <1>5, <1>6

LEMMA BackGoesOn ==
  /\ \A s \in DOMAIN AfterBack : After(BackSteps, s) = AfterBack[s]
  /\ \A s : InSteps(s, BackSteps) <=> s \in DOMAIN AfterBack \cup {"back_verify"}
<1> DEFINE D == BackSteps
<1>1. DOMAIN D = 1..4 /\ Len(D) = 4
  BY DEF BackSteps
<1>2. \A i, j \in 1..4 : D[i] = D[j] => i = j
  BY SMTT(60) DEF BackSteps
<1>3. \A k \in 1..4 : After(D, D[k]) = IF k = 4 THEN "idle" ELSE D[k + 1]
  BY <1>1, <1>2, AfterIs
<1>4. \A k \in 1..3 : After(D, D[k]) = D[k + 1]
  BY <1>3
<1>5. \A s \in DOMAIN AfterBack : After(BackSteps, s) = AfterBack[s]
  BY <1>4, SMTT(60) DEF BackSteps, AfterBack
<1>6. \A s : InSteps(s, BackSteps) <=> s \in DOMAIN AfterBack \cup {"back_verify"}
  BY <1>1, SMTT(60) DEF BackSteps, AfterBack, InSteps
<1> QED
  BY <1>5, <1>6

-----------------------------------------------------------------------------
(* The invariant.                                                            *)

Early == {"absent", "transfer", "directory", "source", "runtime", "relocated", "marked",
          "publish", "schema", "checkpoint", "capture"}
Switching == {"ready", "switch", "restart", "verify"}
Back == {"back", "back_ready", "back_restart", "back_verify"}
Closing == {"clean", "unlock"}
ReleasePlaces == {"exists", "lock"} \cup Early \cup Switching \cup Back \cup Closing
Changing == {"save", "credential", "dropin", "configure", "accept", "restart", "answer"}
Undoing == {"restore", "reload", "undo_restart", "undo_answer"}
Verdicts == {"none", "done", "restored", "stuck", "failed", "gone", "undoing"}

CommandRows ==
    [cmd : {"none", "deploy", "rollback", "credential"},
     arg : Releases \cup (Providers \X Versions) \cup {Nothing},
     at : {"idle", "cleanup"} \cup ReleasePlaces \cup Changing \cup Undoing,
     from : Releases \cup {Nothing}, verdict : Verdicts]

\* What each command goes with.
Placed(c) ==
    /\ c.cmd = "none" => c.at = "idle"
    /\ c.cmd = "deploy" => c.at \in ReleasePlaces \ {"exists"} /\ c.arg \in Releases
    /\ c.cmd = "rollback" =>
         c.at \in (ReleasePlaces \ Early) \cup {"capture"} /\ c.arg \in Releases
    /\ c.cmd = "credential" =>
         /\ c.at \in Changing \cup Undoing \cup {"cleanup"}
         /\ c.arg \in Providers \X Versions
         /\ c.at \in Changing => c.verdict = "none"
         /\ c.at \in Undoing => c.verdict = "undoing"
         /\ c.at = "cleanup" => c.verdict \in {"none", "undoing"}

TreeTypes ==
    /\ doing \in [Operators -> CommandRows]
    /\ current \in Releases /\ next \in Releases \cup {Nothing}
    /\ previous \in Releases \cup {Nothing} /\ lock \in BOOLEAN
KeyTypes ==
    /\ keys \in KeyFiles /\ saved \in KeyFiles \cup {Nothing} /\ unit \in Providers
    /\ service \in [state : {"starting", "active"}, release : Releases,
                    keys : [drop : Providers, secret : Versions \cup {Nothing}, config : Providers]]

\* A release command that has made the deploy directory.
Deploys(c) == c.cmd \in {"deploy", "rollback"} /\ c.at \notin {"lock", "exists"}
OneDeploys ==
    /\ \A o \in Operators : Deploys(doing[o]) => lock
    /\ \A o, p \in Operators : Deploys(doing[o]) /\ Deploys(doing[p]) => o = p

\* What a release command has established where it is.
ReleaseFits(c) ==
    Deploys(c) =>
      /\ c.at \in Switching \cup Back => c.from \in Releases /\ previous = c.from
      /\ \/ c.at \in {"verify", "back_verify"}
         \/ c.at \in Closing /\ c.verdict \in {"done", "restored"}
         => service.release = current
      /\ c.at \in Closing /\ c.verdict = "done" => current = c.arg
      /\ c.at \in Closing /\ c.verdict = "restored" => current = c.from

\* A credential command that has saved the keys.
Changes(c) == c.cmd = "credential" /\ c.at # "save"
OneChanges ==
    /\ \A o \in Operators : Changes(doing[o]) => saved # Nothing
    /\ \A o, p \in Operators : Changes(doing[o]) /\ Changes(doing[p]) => o = p

\* The files after the first step of an installation and after the second.
WithSecret(old, p, v) == [old EXCEPT !.credential[p] = v]
WithDropin(old, p, v) == [WithSecret(old, p, v) EXCEPT !.dropin = p]

\* What a credential command has established where it is.
KeysFit(c) ==
    LET p == c.arg[1]
        v == c.arg[2]
        asked == c.at \in {"accept", "restart", "answer"} \/ (c.at = "cleanup" /\ c.verdict = "none")
        undone == c.at \in Undoing \ {"restore"} \/ (c.at = "cleanup" /\ c.verdict = "undoing")
    IN  Changes(c) =>
          /\ c.at = "credential" => keys = saved
          /\ c.at = "dropin" => keys = WithSecret(saved, p, v)
          /\ c.at = "configure" => keys = WithDropin(saved, p, v)
          /\ asked => keys = Installed(saved, p, v)
          /\ undone => keys = saved
          /\ c.at = "restore" => \A q \in Providers \ {p} : keys.credential[q] = saved.credential[q]
          /\ c.at \in {"restart", "answer", "undo_restart", "undo_answer", "cleanup"}
               => unit = keys.dropin
          /\ c.at \in {"answer", "undo_answer", "cleanup"} => service.keys = ServiceKeys

DeploymentInv ==
    /\ TreeTypes /\ KeyTypes
    /\ OneDeploys /\ OneChanges
    /\ \A o \in Operators : /\ Placed(doing[o])
                            /\ ReleaseFits(doing[o])
                            /\ KeysFit(doing[o])

-----------------------------------------------------------------------------
(* How a command goes on.                                                    *)

Gone == {[NoCommand EXCEPT !.verdict = v] : v \in Verdicts}

Follows(c) ==
    IF c.at \in DOMAIN AfterBack THEN AfterBack[c.at]
    ELSE IF c.at = "clean" THEN "unlock"
    ELSE IF c.at \in DOMAIN AfterUndo THEN AfterUndo[c.at]
    ELSE IF c.cmd = "deploy" THEN AfterDeploy[c.at]
    ELSE IF c.cmd = "rollback" THEN AfterRollback[c.at]
    ELSE AfterKey[c.at]

Lasts == {"verify", "back_verify", "unlock", "cleanup"}

Advanced(c, d) ==
    \/ c.at \in Lasts \ {"verify"} /\ d \in Gone
    \/ c.at = "verify" /\ d = [c EXCEPT !.at = "clean", !.verdict = "done"]
    \/ c.at = "back_verify" /\ d = [c EXCEPT !.at = "clean", !.verdict = "restored"]
    \/ c.at \notin Lasts /\ d = [c EXCEPT !.at = Follows(c)]

Failed(c, d) ==
    \/ d \in Gone
    \/ c.cmd # "credential" /\ c.at \in Switching /\ d = [c EXCEPT !.at = "back"]
    \/ /\ c.cmd = "rollback"
       /\ \/ c.at \in Back /\ d = [c EXCEPT !.at = "clean", !.verdict = "stuck"]
          \/ c.at = "capture" /\ d = [c EXCEPT !.at = "clean", !.verdict = "failed"]
    \/ /\ c.cmd = "credential" /\ c.at \in Changing \ {"save"}
       /\ d = [c EXCEPT !.at = "restore", !.verdict = "undoing"]

LEMMA GoneIsRow ==
  \A d \in Gone : d \in CommandRows /\ d.cmd = "none" /\ Placed(d) /\ \A c : Failed(c, d)
BY DEF Gone, NoCommand, CommandRows, Placed, Failed

LEMMA FailGoes ==
  ASSUME doing \in [Operators -> CommandRows], NEW o \in Operators, NEW c \in CommandRows,
         c = doing[o], c.cmd # "none", Placed(c), Fail(o)
  PROVE  \E d \in CommandRows :
           Placed(d) /\ Failed(c, d) /\ doing' = [doing EXCEPT ![o] = d]
<1> DEFINE Goes(d) == doing' = [doing EXCEPT ![o] = d]
<1> DEFINE Ends == \E d \in Gone : Goes(d)
<1>1. InBack(o) <=> c.at \in Back
  BY BackGoesOn DEF InBack, AfterBack, Back
<1>2. InUndo(o) <=> c.at \in Undoing \cup {"cleanup"} /\ c.verdict = "undoing"
  BY UndoGoesOn DEF InUndo, AfterUndo, Undoing
<1>3. CASE c.cmd = "deploy"
  <2>1. FailDeploy(o)
    BY <1>3 DEF Fail
  <2>2. (c.at \in Switching /\ Goto(o, "back")) \/ End(o, "stuck") \/ End(o, "failed")
    BY <2>1, <1>1 DEF FailDeploy, Switching, Back
  <2>3. (c.at \in Switching /\ Goes([c EXCEPT !.at = "back"])) \/ Ends
    BY <2>2 DEF End, Goto, Judge, Gone, Verdicts
  <2>4. CASE c.at \in Switching /\ Goes([c EXCEPT !.at = "back"])
    <3> DEFINE d == [c EXCEPT !.at = "back"]
    <3>1. d \in CommandRows /\ Placed(d)
      BY <1>3 DEF CommandRows, ReleasePlaces, Back, Placed
    <3>2. Failed(c, d)
      BY <2>4, <1>3 DEF Failed
    <3> QED
      BY <3>1, <3>2, <2>4
  <2>5. ASSUME Ends
        PROVE  \E d \in CommandRows : Placed(d) /\ Failed(c, d) /\ Goes(d)
    BY <2>5, GoneIsRow, Zenon
  <2> QED
    BY <2>3, <2>4, <2>5, Zenon
<1>4. CASE c.cmd = "rollback"
  <2>1. FailRollback(o)
    BY <1>4 DEF Fail
  <2>2. \/ c.at \in Switching /\ Goto(o, "back")
        \/ c.at \in Back /\ Judge(o, "clean", "stuck")
        \/ c.at = "capture" /\ Judge(o, "clean", "failed")
        \/ End(o, "failed")
    BY <2>1, <1>1 DEF FailRollback, Switching, Back
  <2>3. \/ c.at \in Switching /\ Goes([c EXCEPT !.at = "back"])
        \/ c.at \in Back /\ Goes([c EXCEPT !.at = "clean", !.verdict = "stuck"])
        \/ c.at = "capture" /\ Goes([c EXCEPT !.at = "clean", !.verdict = "failed"])
        \/ Ends
    BY <2>2 DEF End, Goto, Judge, Gone, Verdicts
  <2>4. ASSUME NEW d, \/ c.at \in Switching /\ d = [c EXCEPT !.at = "back"]
                      \/ c.at \in Back /\ d = [c EXCEPT !.at = "clean", !.verdict = "stuck"]
                      \/ c.at = "capture" /\ d = [c EXCEPT !.at = "clean", !.verdict = "failed"]
        PROVE  d \in CommandRows /\ Placed(d) /\ Failed(c, d)
    <3>1. d \in CommandRows
      BY <1>4, <2>4, ZenonT(40) DEF CommandRows, ReleasePlaces, Back, Closing, Verdicts
    <3>2. d.cmd = "rollback" /\ d.at \in {"back", "clean"} /\ d.arg = c.arg
      BY <1>4, <2>4 DEF CommandRows
    <3>3. c.arg \in Releases
      BY <1>4 DEF Placed
    <3>4. Placed(d)
      BY <3>2, <3>3 DEF Placed, ReleasePlaces, Back, Closing, Early
    <3>5. Failed(c, d)
      BY <1>4, <2>4 DEF Failed
    <3> QED
      BY <3>1, <3>4, <3>5
  <2>5. ASSUME Ends
        PROVE  \E d \in CommandRows : Placed(d) /\ Failed(c, d) /\ Goes(d)
    BY <2>5, GoneIsRow, Zenon
  <2> QED
    BY <2>3, <2>4, <2>5, Zenon
<1>5. CASE c.cmd = "credential"
  <2>1. FailCredential(o)
    BY <1>5 DEF Fail
  <2>2. \/ c.at \in Changing \ {"save"} /\ Judge(o, "restore", "undoing")
        \/ End(o, "stuck") \/ End(o, "failed")
    <3>1. c.at \in Changing \cup Undoing \cup {"cleanup"}
      BY <1>5 DEF Placed
    <3>2. c.at \in Undoing => c.verdict = "undoing"
      BY <1>5 DEF Placed
    <3> QED
      BY <2>1, <1>2, <3>1, <3>2 DEF FailCredential, Changing, Undoing
  <2>3. \/ c.at \in Changing \ {"save"} /\ Goes([c EXCEPT !.at = "restore", !.verdict = "undoing"])
        \/ Ends
    BY <2>2 DEF End, Goto, Judge, Gone, Verdicts
  <2>4. CASE /\ c.at \in Changing \ {"save"}
             /\ Goes([c EXCEPT !.at = "restore", !.verdict = "undoing"])
    <3> DEFINE d == [c EXCEPT !.at = "restore", !.verdict = "undoing"]
    <3>1. d \in CommandRows /\ Placed(d)
      BY <1>5, ZenonT(40) DEF CommandRows, Undoing, Changing, Placed, Verdicts
    <3>2. Failed(c, d)
      BY <2>4, <1>5 DEF Failed
    <3> QED
      BY <3>1, <3>2, <2>4
  <2>5. ASSUME Ends
        PROVE  \E d \in CommandRows : Placed(d) /\ Failed(c, d) /\ Goes(d)
    BY <2>5, GoneIsRow, Zenon
  <2> QED
    BY <2>3, <2>4, <2>5, Zenon
<1> QED
  BY <1>3, <1>4, <1>5 DEF CommandRows

LEMMA AdvanceGoes ==
  ASSUME doing \in [Operators -> CommandRows], NEW o \in Operators, NEW c \in CommandRows,
         c = doing[o], c.cmd # "none", Placed(c), Advance(o)
  PROVE  \E d \in CommandRows :
           Placed(d) /\ Advanced(c, d) /\ doing' = [doing EXCEPT ![o] = d]
<1> DEFINE Goes(d) == doing' = [doing EXCEPT ![o] = d]
<1>1. InBack(o) <=> c.at \in Back
  BY BackGoesOn DEF InBack, AfterBack, Back
<1>2. InUndo(o) <=> c.at \in Undoing \cup {"cleanup"} /\ c.verdict = "undoing"
  BY UndoGoesOn DEF InUndo, AfterUndo, Undoing
<1>3. c.at \in Undoing => InUndo(o)
  <2> SUFFICES ASSUME c.at \in Undoing
               PROVE  InUndo(o)
    OBVIOUS
  <2>1. c.at \notin ReleasePlaces \cup {"capture"}
    BY DEF ReleasePlaces, Early, Switching, Back, Closing, Undoing
  <2>2. c.cmd = "credential"
    BY <2>1 DEF Placed, CommandRows
  <2> QED
    BY <1>2, <2>2 DEF Placed
<1>4. CASE c.at \in Back \ {"back_verify"}
  <2>1. Goto(o, After(BackSteps, c.at))
    <3>1. InBack(o) /\ c.at # "back_verify"
      BY <1>4, <1>1
    <3>2. ~InUndo(o) /\ c.at \notin {"cleanup", "verify", "unlock"}
      BY <1>4, <1>2 DEF Back, Undoing
    <3> QED
      BY <3>1, <3>2 DEF Advance
  <2>2. After(BackSteps, c.at) = Follows(c) /\ Follows(c) \in Back
    BY <1>4, BackGoesOn DEF Follows, AfterBack, Back
  <2> DEFINE d == [c EXCEPT !.at = Follows(c)]
  <2>3. c.cmd \in {"deploy", "rollback"} /\ c.arg \in Releases
    BY <1>4 DEF Placed, CommandRows, Back, Changing, Undoing
  <2>4. d \in CommandRows /\ Placed(d)
    BY <2>2, <2>3 DEF CommandRows, ReleasePlaces, Placed, Back, Early
  <2>5. Goes(d)
    BY <2>1, <2>2 DEF Goto
  <2>6. Advanced(c, d)
    BY <1>4 DEF Advanced, Lasts, Back
  <2> QED
    BY <2>4, <2>5, <2>6
<1>5. CASE c.at \in Undoing
  <2>1. Goto(o, After(UndoSteps, c.at))
    BY <1>5, <1>1, <1>3 DEF Advance, Back, Undoing
  <2>2. After(UndoSteps, c.at) = Follows(c) /\ Follows(c) \in Undoing \cup {"cleanup"}
    BY <1>5, UndoGoesOn DEF Follows, AfterBack, AfterUndo, Undoing
  <2> DEFINE d == [c EXCEPT !.at = Follows(c)]
  <2>3. /\ c.cmd = "credential" /\ c.arg \in Providers \X Versions
        /\ c.verdict = "undoing" /\ c.verdict # "none"
    BY <1>5, <1>2, <1>3
       DEF Placed, CommandRows, ReleasePlaces, Early, Switching, Back, Closing, Undoing
  <2>4. d \in CommandRows /\ Placed(d)
    BY <2>2, <2>3 DEF CommandRows, Placed, Undoing, Changing
  <2>5. Goes(d)
    BY <2>1, <2>2 DEF Goto
  <2>6. Advanced(c, d)
    BY <1>5 DEF Advanced, Lasts, Undoing
  <2> QED
    BY <2>4, <2>5, <2>6
<1>6. CASE c.at \in Lasts
  <2>1. CASE c.at \in Lasts \ {"verify"} /\ (c.at = "back_verify" => c.cmd = "deploy")
    <3>1. \E v \in Verdicts : End(o, v)
      <4>1. CASE c.at = "back_verify"
        <5>1. ~InUndo(o)
          BY <4>1, <1>2 DEF Undoing
        <5>2. End(o, "restored")
          BY <4>1, <2>1, <5>1 DEF Advance
        <5> QED
          BY <5>2 DEF Verdicts
      <4>2. CASE c.at = "unlock"
        BY <4>2, <1>1, <1>2 DEF Advance, Back, Undoing, CommandRows
      <4>3. CASE c.at = "cleanup"
        BY <4>3, <1>1 DEF Advance, Back, Verdicts
      <4> QED
        BY <2>1, <4>1, <4>2, <4>3 DEF Lasts
    <3>2. PICK d \in Gone : Goes(d)
      BY <3>1 DEF End, Gone
    <3>3. d \in CommandRows /\ Placed(d)
      BY GoneIsRow
    <3>4. Advanced(c, d)
      BY <2>1 DEF Advanced
    <3> QED
      BY <3>2, <3>3, <3>4
  <2>2. CASE c.at = "verify" \/ (c.at = "back_verify" /\ c.cmd # "deploy")
    <3> DEFINE v == IF c.at = "verify" THEN "done" ELSE "restored"
               d == [c EXCEPT !.at = "clean", !.verdict = v]
    <3>1. c.cmd \in {"deploy", "rollback"} /\ c.arg \in Releases
      BY <2>2 DEF Placed, CommandRows, Changing, Undoing
    <3>2. Judge(o, "clean", v)
      <4>1. CASE c.at = "verify"
        BY <4>1, <1>1, <1>2 DEF Advance, Back, Undoing
      <4>2. CASE c.at = "back_verify" /\ c.cmd = "rollback"
        <5>1. ~InUndo(o)
          BY <4>2, <1>2 DEF Undoing
        <5> QED
          BY <4>2, <5>1 DEF Advance
      <4> QED
        BY <2>2, <3>1, <4>1, <4>2
    <3>3. Goes(d)
      BY <3>2 DEF Judge
    <3>4. d \in CommandRows
      <4>1. "clean" \in ReleasePlaces /\ v \in Verdicts
        BY DEF ReleasePlaces, Closing, Verdicts
      <4> HIDE DEF v
      <4> QED
        BY <4>1 DEF CommandRows
    <3>5. Placed(d)
      BY <3>1 DEF Placed, CommandRows, ReleasePlaces, Closing, Early
    <3>6. Advanced(c, d)
      BY <2>2 DEF Advanced
    <3> QED
      BY <3>3, <3>4, <3>5, <3>6
  <2> QED
    BY <1>6, <2>1, <2>2 DEF Lasts
<1>7. CASE c.at \notin Back \cup Undoing \cup Lasts
  <2>1. Goto(o, After(StepsOf[c.cmd], c.at))
    BY <1>7, <1>1, <1>2 DEF Advance, Lasts, Back
  <2>2. c.cmd \in {"deploy", "rollback", "credential"}
    BY DEF CommandRows
  <2>3. CASE c.cmd = "deploy"
    <3>1. c.at \in DOMAIN AfterDeploy \cup {"clean"}
      BY <1>7, <2>3 DEF Placed, ReleasePlaces, Early, Switching, Back, Closing, Lasts, AfterDeploy
    <3>2. After(StepsOf[c.cmd], c.at) = Follows(c) /\ Follows(c) \in ReleasePlaces \ {"exists"}
      <4>1. StepsOf[c.cmd] = DeploySteps
        BY <2>3 DEF StepsOf
      <4>2. CASE c.at = "clean"
        BY <4>1, <4>2, DeployGoesOn DEF Follows, AfterBack, ReleasePlaces, Closing
      <4>3. CASE c.at \in DOMAIN AfterDeploy
        <5>1. Follows(c) = AfterDeploy[c.at]
          BY <4>3, <2>3 DEF Follows, AfterDeploy, AfterBack, AfterUndo
        <5>2. AfterDeploy[c.at] \in ReleasePlaces \ {"exists"}
          BY <4>3 DEF AfterDeploy, ReleasePlaces, Early, Switching
        <5> QED
          BY <4>1, <4>3, <5>1, <5>2, DeployGoesOn, Zenon
      <4> QED
        BY <3>1, <4>2, <4>3
    <3> DEFINE d == [c EXCEPT !.at = Follows(c)]
    <3>3. d \in CommandRows /\ Placed(d)
      BY <2>3, <3>2 DEF CommandRows, Placed
    <3>4. Goes(d)
      BY <2>1, <3>2 DEF Goto
    <3>5. Advanced(c, d)
      BY <1>7 DEF Advanced
    <3> QED
      BY <3>3, <3>4, <3>5
  <2>4. CASE c.cmd = "rollback"
    <3>1. c.at \in DOMAIN AfterRollback \cup {"clean"}
      BY <1>7, <2>4
         DEF Placed, ReleasePlaces, Early, Switching, Back, Closing, Lasts, AfterRollback
    <3>2. /\ After(StepsOf[c.cmd], c.at) = Follows(c)
          /\ Follows(c) \in (ReleasePlaces \ Early) \cup {"capture"}
      <4>1. StepsOf[c.cmd] = RollbackSteps
        BY <2>4 DEF StepsOf
      <4>2. CASE c.at = "clean"
        BY <4>1, <4>2, RollbackGoesOn DEF Follows, AfterBack, ReleasePlaces, Closing, Early
      <4>3. CASE c.at \in DOMAIN AfterRollback
        <5>1. Follows(c) = AfterRollback[c.at]
          BY <4>3, <2>4 DEF Follows, AfterRollback, AfterBack, AfterUndo
        <5>2. AfterRollback[c.at] \in (ReleasePlaces \ Early) \cup {"capture"}
          BY <4>3 DEF AfterRollback, ReleasePlaces, Early, Switching
        <5> QED
          BY <4>1, <4>3, <5>1, <5>2, RollbackGoesOn, Zenon
      <4> QED
        BY <3>1, <4>2, <4>3
    <3> DEFINE d == [c EXCEPT !.at = Follows(c)]
    <3>3. d \in CommandRows /\ Placed(d)
      BY <2>4, <3>2 DEF CommandRows, Placed, Early, ReleasePlaces
    <3>4. Goes(d)
      BY <2>1, <3>2 DEF Goto
    <3>5. Advanced(c, d)
      BY <1>7 DEF Advanced
    <3> QED
      BY <3>3, <3>4, <3>5
  <2>5. CASE c.cmd = "credential"
    <3>1. c.at \in DOMAIN AfterKey /\ c.verdict = "none"
      BY <1>7, <2>5 DEF Placed, Changing, Lasts, AfterKey
    <3>2. /\ After(StepsOf[c.cmd], c.at) = Follows(c)
          /\ Follows(c) \in Changing \cup {"cleanup"}
      <4>1. StepsOf[c.cmd] = KeySteps
        BY <2>5 DEF StepsOf
      <4>2. Follows(c) = AfterKey[c.at]
        BY <3>1, <2>5 DEF Follows, AfterKey, AfterBack, AfterUndo
      <4>3. AfterKey[c.at] \in Changing \cup {"cleanup"}
        BY <3>1 DEF AfterKey, Changing
      <4> QED
        BY <4>1, <4>2, <4>3, <3>1, KeysGoOn, Zenon
    <3> DEFINE d == [c EXCEPT !.at = Follows(c)]
    <3>3. d \in CommandRows /\ Placed(d)
      BY <2>5, <3>1, <3>2 DEF CommandRows, Placed, Changing, Undoing
    <3>4. Goes(d)
      BY <2>1, <3>2 DEF Goto
    <3>5. Advanced(c, d)
      BY <1>7 DEF Advanced
    <3> QED
      BY <3>3, <3>4, <3>5
  <2> QED
    BY <2>2, <2>3, <2>4, <2>5
<1> QED
  BY <1>4, <1>5, <1>6, <1>7 DEF Lasts

-----------------------------------------------------------------------------
(* What a step of one helper leaves to the other.                            *)

ServiceGoes ==
    \/ service' = service
    \/ service' = Starting
    \/ service' = [service EXCEPT !.state = "active"]

LEMMA ServiceStillFits ==
  ASSUME TreeTypes, KeyTypes, ServiceGoes
  PROVE  /\ service' \in [state : {"starting", "active"}, release : Releases,
                          keys : [drop : Providers, secret : Versions \cup {Nothing},
                                  config : Providers]]
         /\ current' = current /\ service.release = current => service'.release = current'
         /\ keys' = keys /\ unit' = unit /\ service.keys = ServiceKeys
              => service'.keys = ServiceKeys'
<1>1. ServiceKeys \in [drop : Providers, secret : Versions \cup {Nothing}, config : Providers]
  BY DEF ServiceKeys, KeyTypes, KeyFiles
<1>2. keys' = keys /\ unit' = unit => ServiceKeys' = ServiceKeys
  BY DEF ServiceKeys
<1>3. CASE service' = service
  BY <1>2, <1>3 DEF KeyTypes
<1>4. CASE service' = Starting
  BY <1>1, <1>2, <1>4 DEF Starting, TreeTypes
<1>5. CASE service' = [service EXCEPT !.state = "active"]
  BY <1>2, <1>5 DEF KeyTypes
<1> QED
  BY <1>3, <1>4, <1>5 DEF ServiceGoes

LEMMA ReleasesUndisturbed ==
  ASSUME DeploymentInv, ServiceGoes, UNCHANGED <<current, previous>>,
         NEW c, ReleaseFits(c)
  PROVE  ReleaseFits(c)'
BY ServiceStillFits DEF DeploymentInv, ReleaseFits

LEMMA KeysUndisturbed ==
  ASSUME DeploymentInv, ServiceGoes, UNCHANGED <<keys, unit, saved>>,
         NEW c, KeysFit(c)
  PROVE  KeysFit(c)'
<1> DEFINE Q == service.keys = ServiceKeys
<1>1. Q => Q'
  BY ServiceStillFits DEF DeploymentInv
<1> HIDE DEF Q
<1> QED
  BY <1>1 DEF KeysFit, Q

LEMMA ReleaseStep ==
  ASSUME DeploymentInv, ServiceGoes, UNCHANGED <<keys, unit, saved>>,
         NEW o \in Operators, NEW c \in CommandRows, c = doing[o],
         c.cmd \in {"deploy", "rollback"},
         NEW d \in CommandRows, Placed(d), d.cmd \in {c.cmd, "none"},
         doing' = [doing EXCEPT ![o] = d],
         current' \in Releases, next' \in Releases \cup {Nothing},
         previous' \in Releases \cup {Nothing}, lock' \in BOOLEAN,
         ~Deploys(c) => UNCHANGED <<current, previous>> /\ (lock => lock'),
         Deploys(d) => lock' /\ (Deploys(c) \/ ~lock),
         ReleaseFits(d)'
  PROVE  DeploymentInv'
<1>1. \A p \in Operators : doing'[p] = IF p = o THEN d ELSE doing[p]
  BY DEF DeploymentInv, TreeTypes
<1>2. TreeTypes' /\ KeyTypes'
  BY ServiceStillFits DEF DeploymentInv, TreeTypes, KeyTypes
<1>3. \A p \in Operators \ {o} : Deploys(doing[p]) => ~Deploys(c) /\ ~Deploys(d) /\ lock
  BY DEF DeploymentInv, OneDeploys
<1>4. OneDeploys'
  <2>1. \A p \in Operators : Deploys(doing'[p]) => lock'
    BY <1>1, <1>3, Zenon
  <2>2. \A p, q \in Operators : Deploys(doing'[p]) /\ Deploys(doing'[q]) => p = q
    <3>1. \A p, q \in Operators \ {o} : Deploys(doing[p]) /\ Deploys(doing[q]) => p = q
      BY DEF DeploymentInv, OneDeploys
    <3>2. \A p \in Operators \ {o} : Deploys(doing'[p]) => ~Deploys(doing'[o])
      BY <1>1, <1>3, Zenon
    <3> QED
      BY <1>1, <3>1, <3>2, Zenon
  <2> QED
    BY <2>1, <2>2 DEF OneDeploys, Deploys
<1>5. ~Changes(d)
  BY DEF Changes
<1>6. OneChanges'
  BY <1>1, <1>5 DEF DeploymentInv, OneChanges
<1>7. ASSUME NEW p \in Operators
      PROVE  Placed(doing'[p]) /\ ReleaseFits(doing[p])' /\ KeysFit(doing[p])'
  <2>1. CASE p = o
    BY <2>1, <1>1, <1>5 DEF KeysFit, ReleaseFits
  <2>2. CASE p # o
    <3>1. PICK e : e = doing[p]
      OBVIOUS
    <3>2. Placed(e) /\ ReleaseFits(e) /\ KeysFit(e) /\ doing'[p] = e
      BY <1>1, <2>2, <3>1 DEF DeploymentInv
    <3>3. KeysFit(e)'
      BY <3>2, KeysUndisturbed
    <3>4. ReleaseFits(e)'
      <4>1. CASE Deploys(e)
        BY <4>1, <3>1, <3>2, <2>2, <1>3, ReleasesUndisturbed
      <4>2. CASE ~Deploys(e)
        BY <4>2 DEF ReleaseFits
      <4> QED
        BY <4>1, <4>2
    <3> QED
      BY <3>2, <3>3, <3>4 DEF ReleaseFits, KeysFit
  <2> QED
    BY <2>1, <2>2
<1> QED
  BY <1>2, <1>4, <1>6, <1>7 DEF DeploymentInv, Placed

LEMMA KeyStep ==
  ASSUME DeploymentInv, ServiceGoes, UNCHANGED <<current, next, previous, lock>>,
         NEW o \in Operators, NEW c \in CommandRows, c = doing[o], c.cmd = "credential",
         NEW d \in CommandRows, Placed(d), d.cmd \in {"credential", "none"},
         doing' = [doing EXCEPT ![o] = d],
         keys' \in KeyFiles, saved' \in KeyFiles \cup {Nothing}, unit' \in Providers,
         ~Changes(c) => UNCHANGED <<keys, unit>> /\ (saved # Nothing => saved' = saved),
         Changes(d) => saved' # Nothing /\ (Changes(c) \/ saved = Nothing),
         KeysFit(d)'
  PROVE  DeploymentInv'
<1>1. \A p \in Operators : doing'[p] = IF p = o THEN d ELSE doing[p]
  BY DEF DeploymentInv, TreeTypes
<1>2. TreeTypes' /\ KeyTypes'
  BY ServiceStillFits DEF DeploymentInv, TreeTypes, KeyTypes
<1>3. \A p \in Operators \ {o} : Changes(doing[p]) => ~Changes(c) /\ ~Changes(d) /\ saved # Nothing
  BY DEF DeploymentInv, OneChanges
<1>4. OneChanges'
  <2>1. \A p \in Operators : Changes(doing'[p]) => saved' # Nothing
    BY <1>1, <1>3, Zenon
  <2>2. \A p, q \in Operators : Changes(doing'[p]) /\ Changes(doing'[q]) => p = q
    <3>1. \A p, q \in Operators \ {o} : Changes(doing[p]) /\ Changes(doing[q]) => p = q
      BY DEF DeploymentInv, OneChanges
    <3>2. \A p \in Operators \ {o} : Changes(doing'[p]) => ~Changes(doing'[o])
      BY <1>1, <1>3, Zenon
    <3> QED
      BY <1>1, <3>1, <3>2, Zenon
  <2> QED
    BY <2>1, <2>2 DEF OneChanges, Changes
<1>5. ~Deploys(d)
  BY DEF Deploys
<1>6. OneDeploys'
  BY <1>1, <1>5 DEF DeploymentInv, OneDeploys
<1>7. ASSUME NEW p \in Operators
      PROVE  Placed(doing'[p]) /\ ReleaseFits(doing[p])' /\ KeysFit(doing[p])'
  <2>1. CASE p = o
    BY <2>1, <1>1, <1>5 DEF KeysFit, ReleaseFits
  <2>2. CASE p # o
    <3>1. PICK e : e = doing[p]
      OBVIOUS
    <3>2. Placed(e) /\ ReleaseFits(e) /\ KeysFit(e) /\ doing'[p] = e
      BY <1>1, <2>2, <3>1 DEF DeploymentInv
    <3>3. ReleaseFits(e)'
      BY <3>2, ReleasesUndisturbed
    <3>4. KeysFit(e)'
      <4>1. CASE Changes(e)
        BY <4>1, <3>1, <3>2, <2>2, <1>3, KeysUndisturbed
      <4>2. CASE ~Changes(e)
        BY <4>2 DEF KeysFit
      <4> QED
        BY <4>1, <4>2
    <3> QED
      BY <3>2, <3>3, <3>4 DEF ReleaseFits, KeysFit
  <2> QED
    BY <2>1, <2>2
<1> QED
  BY <1>2, <1>4, <1>6, <1>7 DEF DeploymentInv, Placed

\* A command that begins, or is cut off.
LEMMA OutsideStep ==
  ASSUME DeploymentInv, UNCHANGED <<current, next, previous, lock, service, keys, unit, saved>>,
         NEW o \in Operators, NEW d \in CommandRows, Placed(d), ~Deploys(d), ~Changes(d),
         doing' = [doing EXCEPT ![o] = d]
  PROVE  DeploymentInv'
<1>1. \A p \in Operators : doing'[p] = IF p = o THEN d ELSE doing[p]
  BY DEF DeploymentInv, TreeTypes
<1>2. TreeTypes' /\ KeyTypes' /\ ServiceGoes
  BY DEF DeploymentInv, TreeTypes, KeyTypes, ServiceGoes
<1>3. OneDeploys' /\ OneChanges'
  BY <1>1 DEF DeploymentInv, OneDeploys, OneChanges
<1>4. ASSUME NEW p \in Operators
      PROVE  Placed(doing'[p]) /\ ReleaseFits(doing[p])' /\ KeysFit(doing[p])'
  <2>1. PICK e : e = doing'[p]
    OBVIOUS
  <2>2. Placed(e) /\ ReleaseFits(e) /\ KeysFit(e)
    BY <2>1, <1>1 DEF DeploymentInv, ReleaseFits, KeysFit
  <2>3. ReleaseFits(e)' /\ KeysFit(e)'
    BY <2>2, <1>2, ReleasesUndisturbed, KeysUndisturbed
  <2> QED
    BY <2>1, <2>2, <2>3 DEF ReleaseFits, KeysFit
<1> QED
  BY <1>2, <1>3, <1>4 DEF DeploymentInv, Placed

-----------------------------------------------------------------------------
(* The steps of a command.                                                   *)

\* c is what workstation o is doing, and d what it does next.
Stands(o, c) ==
    /\ c \in CommandRows /\ c = doing[o] /\ c.cmd # "none"
    /\ Placed(c) /\ ReleaseFits(c) /\ KeysFit(c)
Becomes(o, c, d) ==
    /\ d \in CommandRows /\ Placed(d) /\ d.cmd \in {c.cmd, "none"}
    /\ doing' = [doing EXCEPT ![o] = d]

LEMMA CommandGoesOn ==
  ASSUME DeploymentInv, NEW o \in Operators, doing[o].at # "idle"
  PROVE  \E c : /\ Stands(o, c)
                /\ Advance(o) => \E d : Becomes(o, c, d) /\ Advanced(c, d)
                /\ Fail(o) => \E d : Becomes(o, c, d) /\ Failed(c, d)
<1>1. PICK c \in CommandRows : c = doing[o]
  BY DEF DeploymentInv, TreeTypes
<1>2. Stands(o, c)
  BY <1>1 DEF DeploymentInv, Stands, Placed
<1>3. doing \in [Operators -> CommandRows] /\ Placed(c) /\ c.cmd # "none"
  BY <1>2 DEF DeploymentInv, TreeTypes, Stands
<1>4. ASSUME Advance(o)
      PROVE  \E d : Becomes(o, c, d) /\ Advanced(c, d)
  <2>1. PICK d \in CommandRows :
          Placed(d) /\ Advanced(c, d) /\ doing' = [doing EXCEPT ![o] = d]
    BY <1>1, <1>3, <1>4, AdvanceGoes
  <2>2. d.cmd \in {c.cmd, "none"}
    BY <2>1, GoneIsRow, Zenon DEF Advanced, CommandRows
  <2> QED
    BY <2>1, <2>2 DEF Becomes
<1>5. ASSUME Fail(o)
      PROVE  \E d : Becomes(o, c, d) /\ Failed(c, d)
  <2>1. PICK d \in CommandRows :
          Placed(d) /\ Failed(c, d) /\ doing' = [doing EXCEPT ![o] = d]
    BY <1>1, <1>3, <1>5, FailGoes
  <2>2. d.cmd \in {c.cmd, "none"}
    BY <2>1, GoneIsRow, Zenon DEF Failed, CommandRows
  <2> QED
    BY <2>1, <2>2 DEF Becomes
<1> QED
  BY <1>2, <1>4, <1>5

\* The places only a release command comes to.
LEMMA ReleasesOwnPlaces ==
  ASSUME NEW c \in CommandRows, Placed(c),
         c.at \in ReleasePlaces \ {"restart"}
  PROVE  c.cmd \in {"deploy", "rollback"} /\ c.arg \in Releases
<1>1. c.at \notin Changing \cup Undoing \cup {"cleanup", "idle"}
  BY DEF ReleasePlaces, Early, Switching, Back, Closing, Changing, Undoing
<1> QED
  BY <1>1 DEF Placed, CommandRows

LEMMA KeysOwnPlaces ==
  ASSUME NEW c \in CommandRows, Placed(c),
         c.at \in (Changing \cup Undoing \cup {"cleanup"}) \ {"restart"}
  PROVE  c.cmd = "credential" /\ c.arg \in Providers \X Versions
<1>1. c.at \notin ReleasePlaces \cup {"idle"}
  BY DEF ReleasePlaces, Early, Switching, Back, Closing, Changing, Undoing
<1>2. c.cmd = "credential"
  <2>1. c.cmd \notin {"none", "deploy", "rollback"}
    BY <1>1 DEF Placed, ReleasePlaces, Early
  <2> QED
    BY <2>1 DEF CommandRows
<1> QED
  BY <1>2 DEF Placed

Looks == (Early \ {"capture"}) \cup {"exists", "ready", "back_ready"}

LEMMA LookKeeps ==
  ASSUME DeploymentInv, NEW o \in Operators, doing[o].at \in Looks, Advance(o) \/ Fail(o),
         UNCHANGED <<current, next, previous, lock, service, keys, unit, saved>>
  PROVE  DeploymentInv'
<1>1. doing[o].at # "idle"
  BY DEF Looks, Early
<1>2. PICK c : /\ Stands(o, c)
               /\ Advance(o) => \E d : Becomes(o, c, d) /\ Advanced(c, d)
               /\ Fail(o) => \E d : Becomes(o, c, d) /\ Failed(c, d)
  BY <1>1, CommandGoesOn
<1>3. PICK d : Becomes(o, c, d) /\ (Advanced(c, d) \/ Failed(c, d))
  BY <1>2
<1>4. c.at \in Looks /\ c.cmd \in {"deploy", "rollback"}
  BY <1>2, ReleasesOwnPlaces DEF Stands, Looks, ReleasePlaces, Early, Switching, Back
<1>5. \/ d.cmd = "none"
      \/ d.at \in Early \cup {"lock"} /\ (Deploys(d) => Deploys(c))
      \/ d.at \in {"ready", "switch", "back", "back_restart"} /\ c.at \in {"ready", "back_ready"}
           /\ d.from = c.from /\ Deploys(c)
      \/ d.at = "clean" /\ d.verdict \notin {"done", "restored"} /\ Deploys(c)
  <2>1. CASE Advanced(c, d)
    <3>1. c.at \notin Lasts /\ c.at \notin {"verify", "back_verify"}
      BY <1>4 DEF Looks, Early, Lasts
    <3>2. d = [c EXCEPT !.at = Follows(c)]
      BY <2>1, <3>1 DEF Advanced
    <3>3. d.at = Follows(c) /\ d.from = c.from /\ d.cmd = c.cmd
      BY <3>2, <1>2 DEF Stands, CommandRows
    <3>4. CASE c.at \in {"ready", "back_ready"}
      BY <3>3, <3>4, <1>4 DEF Follows, AfterBack, AfterUndo, AfterDeploy, AfterRollback, Deploys
    <3>5. CASE c.at = "exists"
      <4>1. c.cmd = "rollback"
        BY <3>5, <1>2, <1>4 DEF Stands, Placed
      <4>2. d.at = "lock"
        BY <3>3, <3>5, <4>1 DEF Follows, AfterBack, AfterUndo, AfterRollback
      <4> QED
        BY <4>2 DEF Deploys
    <3>6. CASE c.at \in Early \ {"capture"}
      <4>1. c.cmd = "deploy"
        BY <3>6, <1>2, <1>4 DEF Stands, Placed, Early
      <4>2. d.at \in Early
        BY <3>3, <3>6, <4>1 DEF Follows, AfterBack, AfterUndo, AfterDeploy, Early, Switching
      <4> QED
        BY <4>2, <3>6, <1>4 DEF Deploys, Early
    <3> QED
      BY <1>4, <3>4, <3>5, <3>6 DEF Looks
  <2>2. CASE Failed(c, d)
    <3>1. CASE d \in Gone
      BY <3>1, GoneIsRow
    <3>2. CASE c.at \in Switching /\ d = [c EXCEPT !.at = "back"]
      BY <3>2, <1>2, <1>4 DEF Stands, CommandRows, Looks, Early, Switching, Deploys
    <3>3. CASE c.at \in Back /\ d = [c EXCEPT !.at = "clean", !.verdict = "stuck"]
      BY <3>3, <1>2, <1>4 DEF Stands, CommandRows, Back, Deploys
    <3> QED
      BY <2>2, <1>4, <3>1, <3>2, <3>3 DEF Failed, Looks, Early
  <2> QED
    BY <1>3, <2>1, <2>2
<1>6. ReleaseFits(d)
  BY <1>2, <1>5 DEF ReleaseFits, Stands, Deploys, Early, Switching, Back, Closing
<1>7. ReleaseFits(d)'
  BY <1>6, ReleasesUndisturbed DEF ServiceGoes
<1>8. Deploys(d) => Deploys(c) /\ lock
  BY <1>2, <1>4, <1>5 DEF Deploys, DeploymentInv, OneDeploys, Stands
<1> QED
  BY <1>2, <1>3, <1>4, <1>7, <1>8, ReleaseStep
     DEF Stands, Becomes, DeploymentInv, TreeTypes, ServiceGoes

LEMMA CaptureKeeps ==
  ASSUME DeploymentInv, NEW o \in Operators, CapturePrevious(o)
  PROVE  DeploymentInv'
<1>1. doing[o].at = "capture"
  BY DEF CapturePrevious
<1>2. PICK c : /\ Stands(o, c)
               /\ Fail(o) => \E d : Becomes(o, c, d) /\ Failed(c, d)
  BY <1>1, CommandGoesOn
<1>3. c.at = "capture" /\ c.cmd \in {"deploy", "rollback"} /\ c.arg \in Releases
  BY <1>1, <1>2, ReleasesOwnPlaces DEF Stands, ReleasePlaces, Early
<1>4. Deploys(c) /\ lock
  BY <1>2, <1>3 DEF Deploys, DeploymentInv, OneDeploys, Stands
<1>5. UNCHANGED <<current, next, lock, service, keys, unit, saved>>
  BY DEF CapturePrevious, keyVars
<1>6. ASSUME NEW d \in CommandRows, Placed(d), d.cmd \in {c.cmd, "none"}, ReleaseFits(d)',
             doing' = [doing EXCEPT ![o] = d], previous' \in {previous, current}
      PROVE  DeploymentInv'
  BY <1>2, <1>3, <1>4, <1>5, <1>6, ReleaseStep DEF Stands, DeploymentInv, TreeTypes, ServiceGoes
<1>7. CASE previous' = current /\ doing' = [doing EXCEPT ![o].from = current, ![o].at = "ready"]
  <2> DEFINE d == [c EXCEPT !.from = current, !.at = "ready"]
  <2>1. doing' = [doing EXCEPT ![o] = d]
    BY <1>7, <1>2 DEF Stands, DeploymentInv, TreeTypes
  <2>2. PICK e : e = d
    OBVIOUS
  <2>3. /\ e \in CommandRows /\ e.cmd = c.cmd /\ e.arg = c.arg
        /\ e.at = "ready" /\ e.from = current
    BY <2>2, <1>2 DEF Stands, CommandRows, ReleasePlaces, Switching, DeploymentInv, TreeTypes
  <2>4. Placed(e)
    BY <2>3, <1>3 DEF Placed, ReleasePlaces, Switching, Early
  <2>5. ReleaseFits(e)'
    BY <2>3, <1>7, <1>5 DEF ReleaseFits, Closing, DeploymentInv, TreeTypes
  <2> QED
    BY <2>1, <2>2, <2>3, <2>4, <2>5, <1>6, <1>7
<1>8. CASE Fail(o) /\ previous' \in {previous, current}
  <2>1. PICK d : Becomes(o, c, d) /\ Failed(c, d)
    BY <1>2, <1>8
  <2>2. d.cmd = "none" \/ (d.at = "clean" /\ d.verdict = "failed")
    <3>1. CASE d \in Gone
      BY <3>1, GoneIsRow
    <3>2. CASE d = [c EXCEPT !.at = "clean", !.verdict = "failed"]
      BY <3>2, <1>2 DEF Stands, CommandRows
    <3> QED
      BY <2>1, <3>1, <3>2, <1>3 DEF Failed, Switching, Back
  <2>3. ReleaseFits(d)'
    BY <2>2 DEF ReleaseFits, Deploys, Switching, Back, Closing
  <2> QED
    BY <2>1, <2>3, <1>6, <1>8 DEF Becomes
<1> QED
  BY <1>7, <1>8 DEF CapturePrevious

LEMMA SwitchKeeps ==
  ASSUME DeploymentInv, NEW o \in Operators, Switch(o)
  PROVE  DeploymentInv'
<1>1. doing[o].at \in {"switch", "back"}
  BY DEF Switch
<1>2. PICK c : /\ Stands(o, c)
               /\ Advance(o) => \E d : Becomes(o, c, d) /\ Advanced(c, d)
               /\ Fail(o) => \E d : Becomes(o, c, d) /\ Failed(c, d)
  BY <1>1, CommandGoesOn
<1>3. c.at \in {"switch", "back"} /\ c.cmd \in {"deploy", "rollback"} /\ c.arg \in Releases
  BY <1>1, <1>2, ReleasesOwnPlaces DEF Stands, ReleasePlaces, Switching, Back
<1>4. Deploys(c) /\ lock
  BY <1>2, <1>3 DEF Deploys, DeploymentInv, OneDeploys, Stands
<1>5. c.from \in Releases /\ previous = c.from
  BY <1>2, <1>3, <1>4 DEF ReleaseFits, Stands, Switching, Back
<1>6. UNCHANGED <<previous, lock, service, keys, unit, saved>>
  BY DEF Switch, keyVars
<1>7. PICK d : Becomes(o, c, d) /\ (Advanced(c, d) \/ Failed(c, d))
  BY <1>2 DEF Switch, Call
<1>8. current' \in Releases /\ next' \in Releases \cup {Nothing}
  <2> DEFINE r == IF doing[o].at = "back" THEN previous ELSE doing[o].arg
  <2>1. r \in Releases
    BY <1>2, <1>3, <1>5 DEF Stands
  <2>2. SwitchTo(r) \/ UNCHANGED <<current, next>> \/ (next' = r /\ current' = current)
    BY DEF Switch, Call
  <2> QED
    BY <2>1, <2>2 DEF SwitchTo, DeploymentInv, TreeTypes
<1>9. \/ d.cmd = "none"
      \/ d.at \in {"restart", "back", "back_ready"} /\ d.from = c.from
      \/ d.at = "clean" /\ d.verdict = "stuck"
  <2>1. CASE Advanced(c, d)
    <3>1. c.at \notin Lasts /\ c.at \notin {"verify", "back_verify"}
      BY <1>3 DEF Lasts
    <3>2. d = [c EXCEPT !.at = Follows(c)]
      BY <2>1, <3>1 DEF Advanced
    <3>3. d.at = Follows(c) /\ d.from = c.from
      BY <3>2, <1>2 DEF Stands, CommandRows
    <3> QED
      BY <3>3, <1>3 DEF Follows, AfterBack, AfterUndo, AfterDeploy, AfterRollback
  <2>2. CASE Failed(c, d)
    <3>1. CASE d \in Gone
      BY <3>1, GoneIsRow
    <3>2. CASE d = [c EXCEPT !.at = "back"]
      BY <3>2, <1>2 DEF Stands, CommandRows
    <3>3. CASE d = [c EXCEPT !.at = "clean", !.verdict = "stuck"]
      BY <3>3, <1>2 DEF Stands, CommandRows
    <3> QED
      BY <2>2, <1>3, <3>1, <3>2, <3>3 DEF Failed
  <2> QED
    BY <1>7, <2>1, <2>2
<1>10. ReleaseFits(d)'
  BY <1>5, <1>6, <1>9 DEF ReleaseFits, Deploys, Switching, Back, Closing
<1> QED
  BY <1>2, <1>3, <1>4, <1>6, <1>7, <1>8, <1>10, ReleaseStep
     DEF Stands, Becomes, DeploymentInv, TreeTypes, ServiceGoes

LEMMA VerifyKeeps ==
  ASSUME DeploymentInv, NEW o \in Operators, Verify(o) \/ BackVerify(o)
  PROVE  DeploymentInv'
<1>1. doing[o].at \in {"verify", "back_verify"}
  BY DEF Verify, BackVerify
<1>2. PICK c : /\ Stands(o, c)
               /\ Advance(o) => \E d : Becomes(o, c, d) /\ Advanced(c, d)
               /\ Fail(o) => \E d : Becomes(o, c, d) /\ Failed(c, d)
  BY <1>1, CommandGoesOn
<1>3. c.at \in {"verify", "back_verify"} /\ c.cmd \in {"deploy", "rollback"}
  BY <1>1, <1>2, ReleasesOwnPlaces DEF Stands, ReleasePlaces, Switching, Back
<1>4. Deploys(c) /\ lock
  BY <1>2, <1>3 DEF Deploys, DeploymentInv, OneDeploys, Stands
<1>5. c.from \in Releases /\ previous = c.from /\ service.release = current
  BY <1>2, <1>3, <1>4 DEF ReleaseFits, Stands, Switching, Back
<1>6. UNCHANGED <<current, next, previous, lock, service, keys, unit, saved>>
  BY DEF Verify, BackVerify, webVars, keyVars
<1>7. \/ Fail(o)
      \/ Advance(o) /\ current = (IF c.at = "verify" THEN c.arg ELSE previous)
  BY <1>2, <1>3 DEF Verify, BackVerify, WaitReady, Stands
<1>8. PICK d : /\ Becomes(o, c, d)
               /\ \/ Failed(c, d)
                  \/ Advanced(c, d) /\ current = (IF c.at = "verify" THEN c.arg ELSE previous)
  BY <1>2, <1>7
<1>9. \/ d.cmd = "none"
      \/ d.at = "back" /\ d.from = c.from
      \/ d.at = "clean" /\ d.verdict = "stuck"
      \/ d.at = "clean" /\ d.verdict = "done" /\ current = d.arg
      \/ d.at = "clean" /\ d.verdict = "restored" /\ current = d.from
  <2>1. CASE d \in Gone
    BY <2>1, GoneIsRow
  <2>2. CASE d = [c EXCEPT !.at = "back"]
    BY <2>2, <1>2 DEF Stands, CommandRows
  <2>3. CASE d = [c EXCEPT !.at = "clean", !.verdict = "stuck"]
    BY <2>3, <1>2 DEF Stands, CommandRows
  <2>4. CASE d = [c EXCEPT !.at = "clean", !.verdict = "done"] /\ current = c.arg
    BY <2>4, <1>2 DEF Stands, CommandRows
  <2>5. CASE d = [c EXCEPT !.at = "clean", !.verdict = "restored"] /\ current = previous
    BY <2>5, <1>2, <1>5 DEF Stands, CommandRows
  <2> QED
    BY <1>3, <1>8, <2>1, <2>2, <2>3, <2>4, <2>5 DEF Failed, Advanced, Lasts
<1>10. ReleaseFits(d)'
  BY <1>5, <1>6, <1>9 DEF ReleaseFits, Deploys, Switching, Back, Closing
<1> QED
  BY <1>2, <1>3, <1>4, <1>6, <1>8, <1>10, ReleaseStep
     DEF Stands, Becomes, DeploymentInv, TreeTypes, ServiceGoes

LEMMA MakeDirectoryKeeps ==
  ASSUME DeploymentInv, NEW o \in Operators, MakeDirectory(o)
  PROVE  DeploymentInv'
<1>1. doing[o].at = "lock"
  BY DEF MakeDirectory, Call
<1>2. PICK c : /\ Stands(o, c)
               /\ Advance(o) => \E d : Becomes(o, c, d) /\ Advanced(c, d)
               /\ Fail(o) => \E d : Becomes(o, c, d) /\ Failed(c, d)
  BY <1>1, CommandGoesOn
<1>3. c.at = "lock" /\ c.cmd \in {"deploy", "rollback"} /\ ~Deploys(c)
  BY <1>1, <1>2, ReleasesOwnPlaces DEF Stands, ReleasePlaces, Deploys
<1>4. UNCHANGED <<current, next, previous, service, keys, unit, saved>>
  BY DEF MakeDirectory, keyVars
<1>5. PICK d : /\ Becomes(o, c, d)
               /\ (Advanced(c, d) /\ ~lock /\ lock' = TRUE) \/ (Failed(c, d) /\ lock' \in {lock, TRUE})
  BY <1>2 DEF MakeDirectory, Call
<1>6. d.cmd = "none" \/ (d.at \in Early /\ ~lock /\ lock')
  <2>1. CASE Failed(c, d)
    BY <2>1, <1>3, GoneIsRow, Zenon DEF Failed, Switching, Back
  <2>2. CASE Advanced(c, d) /\ ~lock /\ lock' = TRUE
    <3>1. c.at \notin Lasts /\ c.at \notin {"verify", "back_verify"}
      BY <1>3 DEF Lasts
    <3>2. d.at = Follows(c)
      BY <2>2, <3>1, <1>2 DEF Advanced, Stands, CommandRows
    <3> QED
      BY <2>2, <3>2, <1>3 DEF Follows, AfterBack, AfterUndo, AfterDeploy, AfterRollback, Early
  <2> QED
    BY <1>5, <2>1, <2>2
<1>7. ReleaseFits(d)'
  BY <1>6 DEF ReleaseFits, Deploys, Early, Switching, Back, Closing
<1>8. lock' \in BOOLEAN /\ (lock => lock')
  <2>1. lock \in BOOLEAN
    BY DEF DeploymentInv, TreeTypes
  <2>2. lock' = lock \/ lock' = TRUE
    BY <1>5, Zenon
  <2> QED
    BY <2>1, <2>2
<1>9. Deploys(d) => lock' /\ ~lock
  BY <1>6 DEF Deploys
<1> QED
  BY <1>2, <1>3, <1>4, <1>5, <1>7, <1>8, <1>9, ReleaseStep
     DEF Stands, Becomes, DeploymentInv, TreeTypes, ServiceGoes

LEMMA CloseKeeps ==
  ASSUME DeploymentInv, NEW o \in Operators, RemoveRecord(o) \/ RemoveDirectory(o)
  PROVE  DeploymentInv'
<1>1. doing[o].at \in {"clean", "unlock"}
  BY DEF RemoveRecord, RemoveDirectory, Call
<1>2. PICK c : /\ Stands(o, c)
               /\ Advance(o) => \E d : Becomes(o, c, d) /\ Advanced(c, d)
               /\ Fail(o) => \E d : Becomes(o, c, d) /\ Failed(c, d)
  BY <1>1, CommandGoesOn
<1>3. c.at \in Closing /\ c.cmd \in {"deploy", "rollback"}
  BY <1>1, <1>2, ReleasesOwnPlaces DEF Stands, ReleasePlaces, Closing
<1>4. Deploys(c) /\ lock
  BY <1>2, <1>3 DEF Deploys, DeploymentInv, OneDeploys, Stands, Closing
<1>5. UNCHANGED <<current, next, service, keys, unit, saved>>
  BY DEF RemoveRecord, RemoveDirectory, keyVars
<1>6. previous' \in {previous, Nothing} /\ lock' \in BOOLEAN
  BY DEF RemoveRecord, RemoveDirectory, Call, DeploymentInv, TreeTypes
<1>7. c.at = "clean" => lock' = lock
  BY <1>2 DEF RemoveRecord, RemoveDirectory, Call, Stands
<1>8. PICK d : Becomes(o, c, d) /\ (Advanced(c, d) \/ Failed(c, d))
  BY <1>2 DEF RemoveRecord, RemoveDirectory, Call
<1>9. d.cmd = "none" \/ (c.at = "clean" /\ d = [c EXCEPT !.at = "unlock"])
  <2>1. CASE d \in Gone
    BY <2>1, GoneIsRow
  <2>2. CASE c.at \notin Lasts /\ d = [c EXCEPT !.at = Follows(c)]
    <3>1. c.at = "clean"
      BY <2>2, <1>3 DEF Closing, Lasts
    <3> QED
      BY <2>2, <3>1 DEF Follows, AfterBack
  <2> QED
    BY <1>3, <1>8, <2>1, <2>2 DEF Failed, Advanced, Closing, Switching, Back
<1>10. ReleaseFits(d)' /\ (Deploys(d) => lock')
  <2>1. CASE d.cmd = "none"
    BY <2>1 DEF ReleaseFits, Deploys
  <2>2. CASE c.at = "clean" /\ d = [c EXCEPT !.at = "unlock"]
    <3>1. /\ d.at = "unlock" /\ d.cmd = c.cmd /\ d.verdict = c.verdict
          /\ d.arg = c.arg /\ d.from = c.from
      BY <2>2, <1>2 DEF Stands, CommandRows
    <3> QED
      BY <2>2, <3>1, <1>2, <1>4, <1>5, <1>7 DEF Stands, ReleaseFits, Deploys, Closing, Switching, Back
  <2> QED
    BY <1>9, <2>1, <2>2
<1> QED
  BY <1>2, <1>3, <1>4, <1>5, <1>6, <1>8, <1>10, ReleaseStep
     DEF Stands, Becomes, DeploymentInv, TreeTypes, ServiceGoes

\* The files while an installation is made of them.
LEMMA InstallingFacts ==
  ASSUME NEW old \in KeyFiles, NEW p \in Providers, NEW v \in Versions,
         NEW k \in {old, WithSecret(old, p, v), WithDropin(old, p, v), Installed(old, p, v)}
  PROVE  /\ k \in KeyFiles
         /\ \A q \in Providers \ {p} : k.credential[q] = old.credential[q]
<1>1. old.credential \in [Providers -> Versions \cup {Nothing}]
  BY DEF KeyFiles
<1> DEFINE new == [old.credential EXCEPT ![p] = v]
<1>2. new \in [Providers -> Versions \cup {Nothing}] /\ \A q \in Providers \ {p} : new[q] = old.credential[q]
  BY <1>1
<1>3. k.credential \in {old.credential, new}
  BY DEF KeyFiles, WithSecret, WithDropin, Installed
<1>4. k = [credential |-> k.credential, dropin |-> k.dropin, config |-> k.config]
  BY DEF KeyFiles, WithSecret, WithDropin, Installed
<1>5. k.dropin \in Providers /\ k.config \in Providers
  BY DEF KeyFiles, WithSecret, WithDropin, Installed
<1> HIDE DEF new
<1>6. k \in KeyFiles
  BY <1>1, <1>2, <1>3, <1>4, <1>5 DEF KeyFiles
<1>7. \A q \in Providers \ {p} : k.credential[q] = old.credential[q]
  BY <1>2, <1>3
<1> QED
  BY <1>6, <1>7

LEMMA InstallingSteps ==
  ASSUME NEW old \in KeyFiles, NEW p \in Providers, NEW v \in Versions
  PROVE  /\ WithSecret(old, p, v) = [old EXCEPT !.credential[p] = v]
         /\ WithDropin(old, p, v) = [WithSecret(old, p, v) EXCEPT !.dropin = p]
         /\ Installed(old, p, v) = [WithDropin(old, p, v) EXCEPT !.config = p]
         /\ Installed(old, p, v).dropin = p
BY DEF WithSecret, WithDropin, Installed, KeyFiles

LEMMA RestartKeeps ==
  ASSUME DeploymentInv, NEW o \in Operators, Restart(o)
  PROVE  DeploymentInv'
<1>1. doing[o].at \in {"restart", "back_restart", "undo_restart"}
  BY DEF Restart
<1>2. PICK c : /\ Stands(o, c)
               /\ Advance(o) => \E d : Becomes(o, c, d) /\ Advanced(c, d)
               /\ Fail(o) => \E d : Becomes(o, c, d) /\ Failed(c, d)
  BY <1>1, CommandGoesOn
<1>3. c.at \in {"restart", "back_restart", "undo_restart"}
  BY <1>1, <1>2 DEF Stands
<1>4. UNCHANGED <<current, next, previous, lock, keys, unit, saved>> /\ ServiceGoes
  BY DEF Restart, webVars, keyVars, Call, ServiceGoes
<1>5. PICK d : /\ Becomes(o, c, d)
               /\ (Advanced(c, d) /\ service' = Starting) \/ Failed(c, d)
  BY <1>2 DEF Restart, Call
<1>6. CASE c.cmd \in {"deploy", "rollback"}
  <2>1. c.at # "undo_restart"
    BY <1>2, <1>3, KeysOwnPlaces, <1>6 DEF Stands, Undoing
  <2>2. Deploys(c) /\ lock
    BY <1>2, <1>3, <1>6 DEF Deploys, DeploymentInv, OneDeploys, Stands
  <2>3. c.from \in Releases /\ previous = c.from
    BY <1>2, <1>3, <2>1, <2>2 DEF ReleaseFits, Stands, Switching, Back
  <2>4. \/ d.cmd = "none"
        \/ d.at \in {"verify", "back_verify"} /\ d.from = c.from /\ service' = Starting
        \/ d.at = "back" /\ d.from = c.from
        \/ d.at = "clean" /\ d.verdict = "stuck"
    <3>1. CASE d \in Gone
      BY <3>1, GoneIsRow
    <3>2. CASE d = [c EXCEPT !.at = Follows(c)] /\ service' = Starting
      <4>1. d.at = Follows(c) /\ d.from = c.from
        BY <3>2, <1>2 DEF Stands, CommandRows
      <4> QED
        BY <4>1, <3>2, <1>3, <1>6, <2>1
           DEF Follows, AfterBack, AfterUndo, AfterDeploy, AfterRollback
    <3>3. CASE d = [c EXCEPT !.at = "back"]
      BY <3>3, <1>2 DEF Stands, CommandRows
    <3>4. CASE d = [c EXCEPT !.at = "clean", !.verdict = "stuck"]
      BY <3>4, <1>2 DEF Stands, CommandRows
    <3> QED
      BY <1>3, <1>5, <1>6, <3>1, <3>2, <3>3, <3>4 DEF Failed, Advanced, Lasts
  <2>5. service' = Starting => service'.release = current'
    BY <1>4 DEF Starting
  <2>6. ReleaseFits(d)'
    BY <1>4, <2>3, <2>4, <2>5 DEF ReleaseFits, Deploys, Switching, Back, Closing
  <2> QED
    BY <1>2, <1>4, <1>5, <1>6, <2>2, <2>6, ReleaseStep
       DEF Stands, Becomes, DeploymentInv, TreeTypes
<1>7. CASE c.cmd = "credential"
  <2>1. c.at \in {"restart", "undo_restart"} /\ c.verdict \in {"none", "undoing"}
    BY <1>2, <1>3, <1>7 DEF Stands, Placed, Changing, Undoing
  <2>2. Changes(c) /\ saved # Nothing
    BY <1>2, <1>7, <2>1 DEF Changes, DeploymentInv, OneChanges, Stands
  <2>3. /\ unit = keys.dropin
        /\ c.at = "restart" => keys = Installed(saved, c.arg[1], c.arg[2])
        /\ c.at = "undo_restart" => keys = saved
    BY <1>2, <2>1, <2>2 DEF KeysFit, Stands, Undoing
  <2>4. service' = Starting => service'.keys = ServiceKeys'
    BY <1>4 DEF Starting, ServiceKeys
  <2>5. \/ d.cmd = "none"
        \/ d.at = "answer" /\ c.at = "restart" /\ d.arg = c.arg /\ service' = Starting
        \/ d.at = "undo_answer" /\ c.at = "undo_restart" /\ service' = Starting
        \/ d.at = "restore" /\ d.arg = c.arg /\ c.at = "restart"
    <3>1. CASE d \in Gone
      BY <3>1, GoneIsRow
    <3>2. CASE d = [c EXCEPT !.at = Follows(c)] /\ service' = Starting
      <4>1. d.at = Follows(c) /\ d.arg = c.arg
        BY <3>2, <1>2 DEF Stands, CommandRows
      <4> QED
        BY <4>1, <3>2, <1>7, <2>1 DEF Follows, AfterBack, AfterUndo, AfterKey
    <3>3. CASE c.at \in Changing /\ d = [c EXCEPT !.at = "restore", !.verdict = "undoing"]
      BY <3>3, <1>2, <2>1 DEF Stands, CommandRows, Changing
    <3> QED
      BY <1>5, <1>7, <2>1, <3>1, <3>2, <3>3 DEF Failed, Advanced, Lasts
  <2>6. KeysFit(d)'
    <3>1. CASE d.at = "restore" /\ d.arg = c.arg /\ c.at = "restart"
      <4>1. \A q \in Providers \ {c.arg[1]} : keys.credential[q] = saved.credential[q]
        <5>1. /\ saved \in KeyFiles /\ c.arg[1] \in Providers /\ c.arg[2] \in Versions
              /\ keys = Installed(saved, c.arg[1], c.arg[2])
          BY <1>2, <1>7, <2>2, <2>3, <3>1 DEF DeploymentInv, KeyTypes, Stands, Placed
        <5> QED
          BY <5>1, InstallingFacts
      <4> QED
        BY <3>1, <4>1, <1>4 DEF KeysFit, Undoing
    <3>2. CASE d.at = "answer" /\ c.at = "restart" /\ d.arg = c.arg /\ service' = Starting
      BY <3>2, <2>3, <2>4, <1>4 DEF KeysFit, Undoing, Installed
    <3>3. CASE d.at = "undo_answer" /\ c.at = "undo_restart" /\ service' = Starting
      BY <3>3, <2>3, <2>4, <1>4 DEF KeysFit, Undoing
    <3>4. CASE d.cmd = "none"
      BY <3>4 DEF KeysFit, Changes
    <3> QED
      BY <2>5, <3>1, <3>2, <3>3, <3>4
  <2> QED
    BY <1>2, <1>4, <1>5, <1>7, <2>2, <2>6, KeyStep
       DEF Stands, Becomes, DeploymentInv, KeyTypes
<1> QED
  BY <1>2, <1>6, <1>7 DEF Stands, CommandRows

-----------------------------------------------------------------------------
(* The steps of the credential command.                                      *)

LEMMA SaveKeysKeeps ==
  ASSUME DeploymentInv, NEW o \in Operators, SaveKeys(o)
  PROVE  DeploymentInv'
<1>1. doing[o].at = "save"
  BY DEF SaveKeys
<1>2. PICK c : /\ Stands(o, c)
               /\ Advance(o) => \E d : Becomes(o, c, d) /\ Advanced(c, d)
               /\ Fail(o) => \E d : Becomes(o, c, d) /\ Failed(c, d)
  BY <1>1, CommandGoesOn
<1>3. c.at = "save" /\ c.cmd = "credential" /\ ~Changes(c)
  BY <1>1, <1>2, KeysOwnPlaces DEF Stands, Changing, Changes
<1>4. UNCHANGED <<current, next, previous, lock, service, keys, unit>>
  BY DEF SaveKeys, webVars
<1>5. PICK d : /\ Becomes(o, c, d)
               /\ \/ Advanced(c, d) /\ saved = Nothing /\ saved' = keys
                  \/ /\ Failed(c, d) /\ saved' \in {saved, keys}
                     /\ saved # Nothing => saved' = saved
  BY <1>2 DEF SaveKeys
<1>6. d.cmd = "none" \/ (d.at = "credential" /\ saved = Nothing /\ saved' = keys)
  <2>1. CASE Failed(c, d)
    BY <2>1, <1>3, GoneIsRow, Zenon DEF Failed
  <2>2. CASE Advanced(c, d) /\ saved = Nothing /\ saved' = keys
    <3>1. c.at \notin Lasts /\ c.at \notin {"verify", "back_verify"}
      BY <1>3 DEF Lasts
    <3>2. d.at = Follows(c)
      BY <2>2, <3>1, <1>2 DEF Advanced, Stands, CommandRows
    <3> QED
      BY <2>2, <3>2, <1>3 DEF Follows, AfterBack, AfterUndo, AfterKey
  <2> QED
    BY <1>5, <2>1, <2>2, ZenonT(40)
<1>7. KeysFit(d)'
  BY <1>4, <1>6 DEF KeysFit, Changes, Undoing
<1>8. keys \in KeyFiles /\ keys # Nothing
  BY DeploymentAssumption DEF DeploymentInv, KeyTypes
<1>9. saved' \in KeyFiles \cup {Nothing} /\ (saved # Nothing => saved' = saved)
  BY <1>5, <1>8 DEF DeploymentInv, KeyTypes
<1>10. Changes(d) => saved' # Nothing /\ saved = Nothing
  BY <1>6, <1>8 DEF Changes
<1> QED
  BY <1>2, <1>3, <1>4, <1>5, <1>7, <1>8, <1>9, <1>10, KeyStep
     DEF Stands, Becomes, DeploymentInv, KeyTypes, ServiceGoes

ChangePlaces == (Changing \ {"save", "restart"}) \cup Undoing \cup {"cleanup"}

LEMMA ChangeStands ==
  ASSUME DeploymentInv, NEW o \in Operators, NEW c, c = doing[o], c.at \in ChangePlaces
  PROVE  /\ Stands(o, c) /\ Changes(c) /\ c.cmd = "credential"
         /\ saved \in KeyFiles /\ keys \in KeyFiles /\ unit \in Providers
         /\ c.arg[1] \in Providers /\ c.arg[2] \in Versions
         /\ Provider(o) = c.arg[1] /\ doing[o].arg[2] = c.arg[2]
         /\ \A s : /\ [c EXCEPT !.at = s].at = s
                  /\ [c EXCEPT !.at = s].arg = c.arg
                  /\ [c EXCEPT !.at = s].verdict = c.verdict
<1>1. c.at # "idle" /\ c.at # "save" /\ c.at # "restart"
  BY DEF ChangePlaces, Changing, Undoing
<1>2. Stands(o, c)
  <2>1. PICK e : Stands(o, e)
    BY <1>1, CommandGoesOn
  <2>2. e = c
    BY <2>1 DEF Stands
  <2> QED
    BY <2>1, <2>2
<1>3. c.cmd = "credential" /\ c.arg \in Providers \X Versions
  BY <1>1, <1>2, KeysOwnPlaces DEF Stands, ChangePlaces
<1>4. Changes(c) /\ saved # Nothing
  BY <1>1, <1>3 DEF Changes, DeploymentInv, OneChanges
<1>5. saved \in KeyFiles /\ keys \in KeyFiles /\ unit \in Providers
  BY <1>4 DEF DeploymentInv, KeyTypes
<1>6. \A s : /\ [c EXCEPT !.at = s].at = s
            /\ [c EXCEPT !.at = s].arg = c.arg
            /\ [c EXCEPT !.at = s].verdict = c.verdict
  BY <1>2 DEF Stands, CommandRows
<1> QED
  BY <1>2, <1>3, <1>4, <1>5, <1>6 DEF Provider

\* What a credential command that has saved the keys does next.
LEMMA ChangeGoesOn ==
  ASSUME DeploymentInv, NEW o \in Operators,
         NEW c, c = doing[o],
         c.at \in ChangePlaces,
         NEW k, NEW u, k \in KeyFiles, u \in Providers,
         keys' = k, unit' = u,
         UNCHANGED <<current, next, previous, lock, service>>,
         saved' \in {saved, Nothing}, saved' = saved \/ c.at = "cleanup",
         \A q \in Providers \ {c.arg[1]} : k.credential[q] = saved.credential[q],
         \/ Fail(o)
         \/ Advance(o) /\ (c.at # "cleanup" => KeysFit([c EXCEPT !.at = Follows(c)])')
  PROVE  DeploymentInv'
<1>1. Stands(o, c) /\ Changes(c) /\ c.cmd = "credential" /\ c.at # "idle"
  BY ChangeStands DEF ChangePlaces, Changing, Undoing
<1>2. /\ Advance(o) => \E d : Becomes(o, c, d) /\ Advanced(c, d)
      /\ Fail(o) => \E d : Becomes(o, c, d) /\ Failed(c, d)
  <2>1. PICK e : /\ Stands(o, e)
                 /\ Advance(o) => \E d : Becomes(o, e, d) /\ Advanced(e, d)
                 /\ Fail(o) => \E d : Becomes(o, e, d) /\ Failed(e, d)
    BY <1>1, CommandGoesOn
  <2>2. e = c
    BY <2>1 DEF Stands
  <2> QED
    BY <2>1, <2>2
<1>3. saved # Nothing
  BY <1>1 DEF DeploymentInv, OneChanges
<1>4. PICK d : /\ Becomes(o, c, d)
               /\ \/ Failed(c, d)
                  \/ /\ Advanced(c, d)
                     /\ c.at # "cleanup" => KeysFit([c EXCEPT !.at = Follows(c)])'
  BY <1>2
<1>5. KeysFit(d)' /\ (Changes(d) => saved' = saved)
  <2>1. CASE d \in Gone
    BY <2>1, GoneIsRow DEF KeysFit, Changes
  <2>2. CASE c.at \in Changing /\ d = [c EXCEPT !.at = "restore", !.verdict = "undoing"]
    <3>1. d.at = "restore" /\ d.arg = c.arg /\ d.verdict = "undoing" /\ c.at # "cleanup"
      BY <2>2, <1>1 DEF Stands, CommandRows, Changing
    <3>2. saved' = saved
      BY <3>1
    <3>3. \A q \in Providers \ {d.arg[1]} : keys'.credential[q] = saved'.credential[q]
      BY <3>1, <3>2
    <3> QED
      BY <3>1, <3>2, <3>3 DEF KeysFit, Undoing
  <2>3. CASE c.at \notin Lasts /\ d = [c EXCEPT !.at = Follows(c)] /\ KeysFit(d)'
    BY <2>3 DEF Lasts
  <2> QED
    BY <1>1, <1>4, <2>1, <2>2, <2>3
       DEF Failed, Advanced, Lasts, Stands, ChangePlaces, Changing, Undoing
<1> QED
  BY <1>1, <1>3, <1>4, <1>5, KeyStep
     DEF Stands, Becomes, DeploymentInv, KeyTypes, ServiceGoes

LEMMA InstallCredentialKeeps ==
  ASSUME DeploymentInv, NEW o \in Operators, InstallCredential(o)
  PROVE  DeploymentInv'
<1>1. PICK c, old, k : c = doing[o] /\ old = saved /\ k = keys'
  OBVIOUS
<1>2. c.at = "credential" /\ c.at \in ChangePlaces
  BY <1>1 DEF InstallCredential, Call, ChangePlaces, Changing
<1>3. Stands(o, c) /\ Changes(c) /\ c.cmd = "credential" /\ unit \in Providers
  BY <1>1, <1>2, ChangeStands
<1>4. PICK p \in Providers, v \in Versions :
        p = c.arg[1] /\ v = c.arg[2] /\ Provider(o) = p /\ doing[o].arg[2] = v
  BY <1>1, <1>2, ChangeStands
<1>5. old \in KeyFiles /\ keys = old
  BY <1>1, <1>2, <1>3, ChangeStands DEF Stands, KeysFit
<1>6. PICK d : d = [c EXCEPT !.at = Follows(c)] /\ d.at = "dropin" /\ d.arg = c.arg
  <2>1. Follows(c) = "dropin"
    BY <1>2, <1>3 DEF Follows, AfterBack, AfterUndo, AfterKey
  <2>2. [c EXCEPT !.at = "dropin"].at = "dropin" /\ [c EXCEPT !.at = "dropin"].arg = c.arg
    BY <1>3 DEF Stands, CommandRows
  <2> QED
    BY <2>1, <2>2
<1>7. UNCHANGED <<current, next, previous, lock, service, unit, saved>>
  BY DEF InstallCredential, webVars
<1>8. /\ k \in {old, WithSecret(old, p, v)}
      /\ Fail(o) \/ (Advance(o) /\ k = WithSecret(old, p, v))
  BY <1>1, <1>2, <1>4, <1>5, InstallingSteps DEF InstallCredential, Call
<1>9. k = WithSecret(old, p, v) => KeysFit(d)'
  BY <1>1, <1>4, <1>6, <1>7 DEF KeysFit, Undoing
<1>10. k \in KeyFiles /\ \A q \in Providers \ {p} : k.credential[q] = old.credential[q]
  BY <1>5, <1>8, InstallingFacts
<1> QED
  BY <1>1, <1>2, <1>3, <1>4, <1>6, <1>7, <1>8, <1>9, <1>10, ChangeGoesOn

LEMMA InstallDropinKeeps ==
  ASSUME DeploymentInv, NEW o \in Operators, InstallDropin(o)
  PROVE  DeploymentInv'
<1>1. PICK c, old, k : c = doing[o] /\ old = saved /\ k = keys'
  OBVIOUS
<1>2. c.at = "dropin" /\ c.at \in ChangePlaces
  BY <1>1 DEF InstallDropin, Call, ChangePlaces, Changing
<1>3. Stands(o, c) /\ Changes(c) /\ c.cmd = "credential" /\ unit \in Providers
  BY <1>1, <1>2, ChangeStands
<1>4. PICK p \in Providers, v \in Versions :
        p = c.arg[1] /\ v = c.arg[2] /\ Provider(o) = p /\ doing[o].arg[2] = v
  BY <1>1, <1>2, ChangeStands
<1>5. old \in KeyFiles /\ keys = WithSecret(old, p, v)
  BY <1>1, <1>2, <1>3, <1>4, ChangeStands DEF Stands, KeysFit
<1>6. PICK d : d = [c EXCEPT !.at = Follows(c)] /\ d.at = "configure" /\ d.arg = c.arg
  <2>1. Follows(c) = "configure"
    BY <1>2, <1>3 DEF Follows, AfterBack, AfterUndo, AfterKey
  <2>2. [c EXCEPT !.at = "configure"].at = "configure" /\ [c EXCEPT !.at = "configure"].arg = c.arg
    BY <1>3 DEF Stands, CommandRows
  <2> QED
    BY <2>1, <2>2
<1>7. UNCHANGED <<current, next, previous, lock, service, unit, saved>>
  BY DEF InstallDropin, webVars
<1>8. /\ k \in {WithSecret(old, p, v), WithDropin(old, p, v)}
      /\ Fail(o) \/ (Advance(o) /\ k = WithDropin(old, p, v))
  BY <1>1, <1>2, <1>4, <1>5, InstallingSteps DEF InstallDropin, Call
<1>9. k = WithDropin(old, p, v) => KeysFit(d)'
  BY <1>1, <1>4, <1>6, <1>7 DEF KeysFit, Undoing
<1>10. k \in KeyFiles /\ \A q \in Providers \ {p} : k.credential[q] = old.credential[q]
  BY <1>5, <1>8, InstallingFacts
<1> QED
  BY <1>1, <1>2, <1>3, <1>4, <1>6, <1>7, <1>8, <1>9, <1>10, ChangeGoesOn

LEMMA ConfigureKeeps ==
  ASSUME DeploymentInv, NEW o \in Operators, ConfigureAI(o)
  PROVE  DeploymentInv'
<1>1. PICK c, old, k : c = doing[o] /\ old = saved /\ k = keys'
  OBVIOUS
<1>2. c.at = "configure" /\ c.at \in ChangePlaces
  BY <1>1 DEF ConfigureAI, Call, ChangePlaces, Changing
<1>3. Stands(o, c) /\ Changes(c) /\ c.cmd = "credential" /\ unit \in Providers
  BY <1>1, <1>2, ChangeStands
<1>4. PICK p \in Providers, v \in Versions :
        p = c.arg[1] /\ v = c.arg[2] /\ Provider(o) = p /\ doing[o].arg[2] = v
  BY <1>1, <1>2, ChangeStands
<1>5. old \in KeyFiles /\ keys = WithDropin(old, p, v)
  BY <1>1, <1>2, <1>3, <1>4, ChangeStands DEF Stands, KeysFit
<1>6. PICK d : d = [c EXCEPT !.at = Follows(c)] /\ d.at = "accept" /\ d.arg = c.arg
  <2>1. Follows(c) = "accept"
    BY <1>2, <1>3 DEF Follows, AfterBack, AfterUndo, AfterKey
  <2>2. [c EXCEPT !.at = "accept"].at = "accept" /\ [c EXCEPT !.at = "accept"].arg = c.arg
    BY <1>3 DEF Stands, CommandRows
  <2> QED
    BY <2>1, <2>2
<1>7. UNCHANGED <<current, next, previous, lock, service, unit, saved>>
  BY DEF ConfigureAI, webVars
<1>8. /\ k \in {WithDropin(old, p, v), Installed(old, p, v)}
      /\ Fail(o) \/ (Advance(o) /\ k = Installed(old, p, v))
  BY <1>1, <1>2, <1>4, <1>5, InstallingSteps DEF ConfigureAI, Call
<1>9. k = Installed(old, p, v) => KeysFit(d)'
  BY <1>1, <1>4, <1>6, <1>7 DEF KeysFit, Undoing
<1>10. k \in KeyFiles /\ \A q \in Providers \ {p} : k.credential[q] = old.credential[q]
  BY <1>5, <1>8, InstallingFacts
<1> QED
  BY <1>1, <1>2, <1>3, <1>4, <1>6, <1>7, <1>8, <1>9, <1>10, ChangeGoesOn

LEMMA AcceptKeeps ==
  ASSUME DeploymentInv, NEW o \in Operators, Accept(o)
  PROVE  DeploymentInv'
<1>1. PICK c, old, k, u : c = doing[o] /\ old = saved /\ k = keys /\ u = unit'
  OBVIOUS
<1>2. c.at = "accept" /\ c.at \in ChangePlaces
  BY <1>1 DEF Accept, Call, ChangePlaces, Changing
<1>3. /\ Stands(o, c) /\ Changes(c) /\ c.cmd = "credential"
      /\ unit \in Providers /\ k \in KeyFiles
  BY <1>1, <1>2, ChangeStands
<1>4. PICK p \in Providers, v \in Versions : p = c.arg[1] /\ v = c.arg[2]
  BY <1>1, <1>2, ChangeStands
<1>5. old \in KeyFiles /\ k = Installed(old, p, v)
  BY <1>1, <1>2, <1>3, <1>4, ChangeStands DEF Stands, KeysFit
<1>6. PICK d : d = [c EXCEPT !.at = Follows(c)] /\ d.at = "restart" /\ d.arg = c.arg
  <2>1. Follows(c) = "restart"
    BY <1>2, <1>3 DEF Follows, AfterBack, AfterUndo, AfterKey
  <2>2. [c EXCEPT !.at = "restart"].at = "restart" /\ [c EXCEPT !.at = "restart"].arg = c.arg
    BY <1>3 DEF Stands, CommandRows
  <2> QED
    BY <2>1, <2>2
<1>7. UNCHANGED <<current, next, previous, lock, service, keys, saved>>
  BY DEF Accept, webVars
<1>8. u \in {unit, k.dropin} /\ (Fail(o) \/ (Advance(o) /\ u = k.dropin))
  BY <1>1, <1>2 DEF Accept, Call
<1>9. u = k.dropin => KeysFit(d)'
  BY <1>1, <1>4, <1>5, <1>6, <1>7 DEF KeysFit, Undoing
<1>10. u \in Providers /\ \A q \in Providers \ {p} : k.credential[q] = old.credential[q]
  <2>1. k.dropin \in Providers
    BY <1>3 DEF KeyFiles
  <2>2. \A q \in Providers \ {p} : k.credential[q] = old.credential[q]
    BY <1>5, InstallingFacts
  <2> QED
    BY <1>3, <1>8, <2>1, <2>2
<1> QED
  BY <1>1, <1>2, <1>3, <1>4, <1>6, <1>7, <1>8, <1>9, <1>10, ChangeGoesOn

LEMMA AnswerKeeps ==
  ASSUME DeploymentInv, NEW o \in Operators, Answer(o)
  PROVE  DeploymentInv'
<1>1. PICK c, old, k, u : c = doing[o] /\ old = saved /\ k = keys /\ u = unit
  OBVIOUS
<1>2. c.at \in {"answer", "undo_answer"} /\ c.at \in ChangePlaces
  BY <1>1 DEF Answer, ChangePlaces, Changing, Undoing
<1>3. /\ Stands(o, c) /\ Changes(c) /\ c.cmd = "credential"
      /\ u \in Providers /\ k \in KeyFiles /\ old \in KeyFiles
  BY <1>1, <1>2, ChangeStands
<1>4. PICK p \in Providers, v \in Versions : p = c.arg[1] /\ v = c.arg[2]
  BY <1>1, <1>2, ChangeStands
<1>5. /\ c.at = "answer" => keys = Installed(saved, p, v) /\ c.verdict = "none"
      /\ c.at = "undo_answer" => keys = saved /\ c.verdict = "undoing"
      /\ unit = keys.dropin /\ service.keys = ServiceKeys
  BY <1>2, <1>3, <1>4 DEF Stands, KeysFit, Placed, Changing, Undoing
<1>6. PICK d : /\ d = [c EXCEPT !.at = Follows(c)]
               /\ d.at = "cleanup" /\ d.arg = c.arg /\ d.verdict = c.verdict
  <2>1. Follows(c) = "cleanup"
    BY <1>2, <1>3 DEF Follows, AfterBack, AfterUndo, AfterKey
  <2>2. /\ [c EXCEPT !.at = "cleanup"].at = "cleanup" /\ [c EXCEPT !.at = "cleanup"].arg = c.arg
        /\ [c EXCEPT !.at = "cleanup"].verdict = c.verdict
    BY <1>3 DEF Stands, CommandRows
  <2> QED
    BY <2>1, <2>2
<1>7. UNCHANGED <<current, next, previous, lock, service, keys, unit, saved>>
  BY DEF Answer, webVars, keyVars
<1>8. Fail(o) \/ Advance(o)
  BY DEF Answer, WaitReady
<1>9. KeysFit(d)'
  <2>1. KeysFit(d)
    BY <1>2, <1>4, <1>5, <1>6 DEF KeysFit, Undoing
  <2> QED
    BY <2>1, <1>7, KeysUndisturbed DEF ServiceGoes
<1>10. \A q \in Providers \ {p} : k.credential[q] = old.credential[q]
  <2>1. k = Installed(old, p, v) \/ k = old
    BY <1>1, <1>2, <1>5
  <2>2. k \in {old, WithSecret(old, p, v), WithDropin(old, p, v), Installed(old, p, v)}
    BY <2>1
  <2> QED
    BY <2>2, <1>3, InstallingFacts, ZenonT(40)
<1> QED
  BY <1>1, <1>2, <1>3, <1>4, <1>6, <1>7, <1>8, <1>9, <1>10, ChangeGoesOn

\* The files after the first step of a restoration, after the second and after all.
SecretBack(k, old, p) == [k EXCEPT !.credential[p] = old.credential[p]]
DropinBack(k, old, p) == [SecretBack(k, old, p) EXCEPT !.dropin = old.dropin]
AllBack(k, old, p) == [DropinBack(k, old, p) EXCEPT !.config = old.config]

LEMMA RestoringFacts ==
  ASSUME NEW old \in KeyFiles, NEW k \in KeyFiles, NEW p \in Providers,
         \A q \in Providers \ {p} : k.credential[q] = old.credential[q]
  PROVE  /\ SecretBack(k, old, p) \in KeyFiles /\ DropinBack(k, old, p) \in KeyFiles
         /\ AllBack(k, old, p) = old
         /\ SecretBack(k, old, p).credential = old.credential
         /\ DropinBack(k, old, p).credential = old.credential
<1>1. /\ old.credential \in [Providers -> Versions \cup {Nothing}]
      /\ k.credential \in [Providers -> Versions \cup {Nothing}]
  BY DEF KeyFiles
<1>2. [k.credential EXCEPT ![p] = old.credential[p]] = old.credential
  BY <1>1
<1> DEFINE KeysOf(a, b, c) == [credential |-> a, dropin |-> b, config |-> c]
<1>3. SecretBack(k, old, p) = KeysOf(old.credential, k.dropin, k.config)
  BY <1>2 DEF KeyFiles, SecretBack
<1>4. DropinBack(k, old, p) = KeysOf(old.credential, old.dropin, k.config)
  <2>1. DropinBack(k, old, p) = [KeysOf(old.credential, k.dropin, k.config) EXCEPT !.dropin = old.dropin]
    BY <1>3, Zenon DEF DropinBack
  <2> QED
    BY <2>1
<1>5. AllBack(k, old, p) = KeysOf(old.credential, old.dropin, old.config)
  <2>1. AllBack(k, old, p) = [KeysOf(old.credential, old.dropin, k.config) EXCEPT !.config = old.config]
    BY <1>4, Zenon DEF AllBack
  <2> QED
    BY <2>1
<1>6. AllBack(k, old, p) = old
  BY <1>5 DEF KeyFiles
<1>7. SecretBack(k, old, p) \in KeyFiles /\ DropinBack(k, old, p) \in KeyFiles
  BY <1>3, <1>4 DEF KeyFiles
<1>8. /\ SecretBack(k, old, p).credential = old.credential
      /\ DropinBack(k, old, p).credential = old.credential
  BY <1>3, <1>4
<1> QED
  BY <1>6, <1>7, <1>8

LEMMA RestoreKeeps ==
  ASSUME DeploymentInv, NEW o \in Operators, Restore(o)
  PROVE  DeploymentInv'
<1>1. PICK c, old, k, before, u : /\ c = doing[o] /\ old = saved /\ k = keys'
                                  /\ before = keys /\ u = unit
  OBVIOUS
<1>2. c.at = "restore" /\ c.at \in ChangePlaces
  BY <1>1 DEF Restore, ChangePlaces, Undoing
<1>3. /\ Stands(o, c) /\ Changes(c) /\ c.cmd = "credential"
      /\ u \in Providers /\ before \in KeyFiles /\ old \in KeyFiles
  BY <1>1, <1>2, ChangeStands
<1>4. PICK p \in Providers : p = c.arg[1] /\ Provider(o) = p
  BY <1>1, <1>2, ChangeStands
<1>5. /\ \A q \in Providers \ {p} : before.credential[q] = old.credential[q]
      /\ c.verdict = "undoing"
  BY <1>1, <1>2, <1>3, <1>4 DEF Stands, KeysFit, Placed, Undoing
<1>6. PICK d : /\ d = [c EXCEPT !.at = Follows(c)]
               /\ d.at = "reload" /\ d.arg = c.arg /\ d.verdict = c.verdict
  <2>1. Follows(c) = "reload"
    BY <1>2, <1>3 DEF Follows, AfterBack, AfterUndo, AfterKey
  <2>2. /\ [c EXCEPT !.at = "reload"].at = "reload" /\ [c EXCEPT !.at = "reload"].arg = c.arg
        /\ [c EXCEPT !.at = "reload"].verdict = c.verdict
    BY <1>3 DEF Stands, CommandRows
  <2> QED
    BY <2>1, <2>2
<1>7. UNCHANGED <<current, next, previous, lock, service, unit, saved>>
  BY DEF Restore, webVars
<1>8. /\ Fail(o) \/ (Advance(o) /\ k = old)
      /\ k \in KeyFiles /\ \A q \in Providers \ {p} : k.credential[q] = old.credential[q]
  <2>1. \/ k = AllBack(before, old, p) /\ Advance(o)
        \/ /\ k \in {before, SecretBack(before, old, p), DropinBack(before, old, p),
                     AllBack(before, old, p)}
           /\ Fail(o)
    BY <1>1, <1>4 DEF Restore, SecretBack, DropinBack, AllBack
  <2>2. /\ SecretBack(before, old, p) \in KeyFiles /\ DropinBack(before, old, p) \in KeyFiles
        /\ AllBack(before, old, p) = old
        /\ SecretBack(before, old, p).credential = old.credential
        /\ DropinBack(before, old, p).credential = old.credential
    BY <1>3, <1>5, RestoringFacts
  <2> QED
    BY <1>3, <1>5, <2>1, <2>2
<1>9. k = old => KeysFit(d)'
  BY <1>1, <1>4, <1>5, <1>6, <1>7 DEF KeysFit, Undoing
<1> QED
  BY <1>1, <1>2, <1>3, <1>4, <1>6, <1>7, <1>8, <1>9, ChangeGoesOn

LEMMA ReloadKeeps ==
  ASSUME DeploymentInv, NEW o \in Operators, Reload(o)
  PROVE  DeploymentInv'
<1>1. PICK c, old, k, u : c = doing[o] /\ old = saved /\ k = keys /\ u = unit'
  OBVIOUS
<1>2. c.at = "reload" /\ c.at \in ChangePlaces
  BY <1>1 DEF Reload, Call, ChangePlaces, Undoing
<1>3. /\ Stands(o, c) /\ Changes(c) /\ c.cmd = "credential"
      /\ unit \in Providers /\ k \in KeyFiles
  BY <1>1, <1>2, ChangeStands
<1>4. c.verdict = "undoing" /\ k = old
  BY <1>1, <1>2, <1>3 DEF Stands, KeysFit, Placed, Undoing
<1>5. PICK d : /\ d = [c EXCEPT !.at = Follows(c)]
               /\ d.at = "undo_restart" /\ d.arg = c.arg /\ d.verdict = c.verdict
  <2>1. Follows(c) = "undo_restart"
    BY <1>2, <1>3 DEF Follows, AfterBack, AfterUndo, AfterKey
  <2>2. /\ [c EXCEPT !.at = "undo_restart"].at = "undo_restart"
        /\ [c EXCEPT !.at = "undo_restart"].arg = c.arg
        /\ [c EXCEPT !.at = "undo_restart"].verdict = c.verdict
    BY <1>3 DEF Stands, CommandRows
  <2> QED
    BY <2>1, <2>2
<1>6. UNCHANGED <<current, next, previous, lock, service, keys, saved>>
  BY DEF Reload, webVars
<1>7. u \in {unit, k.dropin} /\ (Fail(o) \/ (Advance(o) /\ u = k.dropin))
  BY <1>1, <1>2 DEF Reload, Call
<1>8. u = k.dropin => KeysFit(d)'
  BY <1>1, <1>4, <1>5, <1>6 DEF KeysFit, Undoing
<1>9. u \in Providers
  <2>1. k.dropin \in Providers
    BY <1>3 DEF KeyFiles
  <2> QED
    BY <1>3, <1>7, <2>1
<1> QED
  BY <1>1, <1>2, <1>3, <1>4, <1>5, <1>6, <1>7, <1>8, <1>9, ChangeGoesOn

\* When recovery material is about to go, the files are all old or all new.
LEMMA BeforeCleanup ==
  ASSUME DeploymentInv, NEW o \in Operators, doing[o].at = "cleanup"
  PROVE  /\ \/ keys = saved
            \/ \E p \in Providers, v \in Versions :
                 p = doing[o].arg[1] /\ keys = Installed(saved, p, v)
         /\ unit = keys.dropin /\ service.keys = ServiceKeys
<1>1. PICK c : c = doing[o]
  OBVIOUS
<1>2. Stands(o, c) /\ Changes(c) /\ c.arg[1] \in Providers /\ c.arg[2] \in Versions
  BY <1>1, ChangeStands DEF ChangePlaces
<1>3. c.cmd = "credential" /\ c.at = "cleanup"
  BY <1>1, <1>2 DEF Changes
<1>4. c.verdict \in {"none", "undoing"}
  BY <1>2, <1>3 DEF Stands, Placed
<1>5. /\ c.verdict = "none" => keys = Installed(saved, c.arg[1], c.arg[2])
      /\ c.verdict = "undoing" => keys = saved
      /\ unit = keys.dropin /\ service.keys = ServiceKeys
  BY <1>2, <1>3 DEF Stands, KeysFit
<1> QED
  BY <1>1, <1>2, <1>4, <1>5

LEMMA CleanupKeeps ==
  ASSUME DeploymentInv, NEW o \in Operators, Cleanup(o)
  PROVE  DeploymentInv'
<1>1. PICK c, old, k, u : c = doing[o] /\ old = saved /\ k = keys /\ u = unit
  OBVIOUS
<1>2. c.at = "cleanup" /\ c.at \in ChangePlaces
  BY <1>1 DEF Cleanup, Call, ChangePlaces
<1>3. u \in Providers /\ k \in KeyFiles /\ old \in KeyFiles /\ c.arg[1] \in Providers
  BY <1>1, <1>2, ChangeStands
<1>4. UNCHANGED <<current, next, previous, lock, service, keys, unit>>
  BY DEF Cleanup, webVars
<1>5. saved' \in {saved, Nothing} /\ (Fail(o) \/ Advance(o))
  BY DEF Cleanup, Call
<1>6. \A q \in Providers \ {c.arg[1]} : k.credential[q] = old.credential[q]
  <2>1. k = old \/ \E v \in Versions : k = Installed(old, c.arg[1], v)
    BY <1>1, <1>2, BeforeCleanup
  <2>2. ASSUME NEW v \in Versions, k = Installed(old, c.arg[1], v)
        PROVE  \A q \in Providers \ {c.arg[1]} : k.credential[q] = old.credential[q]
    <3>1. PICK p \in Providers : p = c.arg[1]
      BY <1>3
    <3>2. k = Installed(old, p, v)
      BY <2>2, <3>1
    <3>3. k \in {old, WithSecret(old, p, v), WithDropin(old, p, v), Installed(old, p, v)}
      BY <3>2
    <3>4. \A q \in Providers \ {p} : k.credential[q] = old.credential[q]
      BY <3>3, <1>3, InstallingFacts, Zenon
    <3> QED
      BY <3>1, <3>4
  <2> QED
    BY <2>1, <2>2
<1> QED
  BY <1>1, <1>2, <1>3, <1>4, <1>5, <1>6, ChangeGoesOn

-----------------------------------------------------------------------------
(* What happens outside a command, and the whole next-state relation.        *)

LEMMA ServiceKeeps ==
  ASSUME DeploymentInv, ServiceGoes,
         UNCHANGED <<doing, current, next, previous, lock, keys, unit, saved>>
  PROVE  DeploymentInv'
<1>1. TreeTypes' /\ KeyTypes'
  BY ServiceStillFits DEF DeploymentInv, TreeTypes, KeyTypes
<1>2. OneDeploys' /\ OneChanges'
  BY DEF DeploymentInv, OneDeploys, OneChanges
<1>3. ASSUME NEW o \in Operators
      PROVE  Placed(doing'[o]) /\ ReleaseFits(doing[o])' /\ KeysFit(doing[o])'
  <2>1. PICK c : c = doing[o]
    OBVIOUS
  <2>2. Placed(c) /\ ReleaseFits(c) /\ KeysFit(c)
    BY <2>1 DEF DeploymentInv
  <2>3. ReleaseFits(c)' /\ KeysFit(c)'
    BY <2>2, ReleasesUndisturbed, KeysUndisturbed
  <2> QED
    BY <2>1, <2>2, <2>3 DEF ReleaseFits, KeysFit
<1> QED
  BY <1>1, <1>2, <1>3 DEF DeploymentInv, Placed

LEMMA TidyKeeps ==
  ASSUME DeploymentInv, Tidy
  PROVE  DeploymentInv'
<1>1. UNCHANGED <<doing, current, next, service, keys, unit, saved>>
  BY DEF Tidy, keyVars
<1>2. \A o \in Operators : ~Deploys(doing[o])
  BY DEF Tidy, Deploys
<1>3. lock' = FALSE /\ previous' = Nothing
  BY DEF Tidy
<1>4. TreeTypes' /\ KeyTypes'
  BY <1>1, <1>3 DEF DeploymentInv, TreeTypes, KeyTypes
<1>5. OneDeploys' /\ OneChanges'
  BY <1>1, <1>2 DEF DeploymentInv, OneDeploys, OneChanges
<1>6. ASSUME NEW o \in Operators
      PROVE  Placed(doing'[o]) /\ ReleaseFits(doing[o])' /\ KeysFit(doing[o])'
  <2>1. PICK c : c = doing[o]
    OBVIOUS
  <2>2. Placed(c) /\ ~Deploys(c) /\ KeysFit(c)
    BY <2>1, <1>2 DEF DeploymentInv
  <2>3. ReleaseFits(c)'
    BY <2>2 DEF ReleaseFits
  <2>4. KeysFit(c)'
    BY <2>2, <1>1, KeysUndisturbed DEF ServiceGoes
  <2> QED
    BY <1>1, <2>1, <2>2, <2>3, <2>4 DEF ReleaseFits, KeysFit
<1> QED
  BY <1>4, <1>5, <1>6 DEF DeploymentInv, Placed

LEMMA BeginKeeps ==
  ASSUME DeploymentInv, NEW o \in Operators,
         \/ \E r \in Releases : Deploy(o, r) \/ Rollback(o, r)
         \/ \E p \in Providers, v \in Versions : Credential(o, p, v)
         \/ Interrupt(o)
  PROVE  DeploymentInv'
<1>1. UNCHANGED <<current, next, previous, lock, service, keys, unit, saved>>
  BY Zenon DEF Deploy, Rollback, Credential, Interrupt, webVars, keyVars
<1>2. ASSUME NEW r \in Releases, Deploy(o, r) \/ Rollback(o, r)
      PROVE  \E d \in CommandRows : /\ Placed(d) /\ ~Deploys(d) /\ ~Changes(d)
                                    /\ doing' = [doing EXCEPT ![o] = d]
  <2>1. PICK d : /\ doing' = [doing EXCEPT ![o] = d]
                 /\ \/ d = [NoCommand EXCEPT !.cmd = "deploy", !.arg = r, !.at = "lock"]
                    \/ d = [NoCommand EXCEPT !.cmd = "rollback", !.arg = r, !.at = "exists"]
    BY <1>2 DEF Deploy, Rollback
  <2>2. d \in CommandRows
    BY <2>1 DEF CommandRows, NoCommand, ReleasePlaces, Verdicts
  <2>3. Placed(d) /\ ~Deploys(d) /\ ~Changes(d)
    BY <2>1 DEF NoCommand, Placed, ReleasePlaces, Early, Deploys, Changes
  <2> QED
    BY <2>1, <2>2, <2>3
<1>3. ASSUME NEW p \in Providers, NEW v \in Versions, Credential(o, p, v)
      PROVE  \E d \in CommandRows : /\ Placed(d) /\ ~Deploys(d) /\ ~Changes(d)
                                    /\ doing' = [doing EXCEPT ![o] = d]
  <2>1. PICK d : /\ doing' = [doing EXCEPT ![o] = d]
                 /\ d = [NoCommand EXCEPT !.cmd = "credential", !.arg = <<p, v>>, !.at = "save"]
    BY <1>3 DEF Credential
  <2>2. d \in CommandRows
    BY <2>1 DEF CommandRows, NoCommand, Changing, Verdicts
  <2>3. Placed(d) /\ ~Deploys(d) /\ ~Changes(d)
    BY <2>1 DEF NoCommand, Placed, Changing, Undoing, Deploys, Changes
  <2> QED
    BY <2>1, <2>2, <2>3
<1>4. ASSUME Interrupt(o)
      PROVE  \E d \in CommandRows : /\ Placed(d) /\ ~Deploys(d) /\ ~Changes(d)
                                    /\ doing' = [doing EXCEPT ![o] = d]
  <2>1. PICK d \in Gone : doing' = [doing EXCEPT ![o] = d]
    BY <1>4 DEF Interrupt, End, Gone, Verdicts
  <2>2. d \in CommandRows /\ Placed(d) /\ d.cmd = "none"
    BY GoneIsRow
  <2> QED
    BY <2>1, <2>2 DEF Deploys, Changes
<1>5. PICK d \in CommandRows : /\ Placed(d) /\ ~Deploys(d) /\ ~Changes(d)
                               /\ doing' = [doing EXCEPT ![o] = d]
  BY <1>2, <1>3, <1>4
<1> QED
  BY <1>1, <1>5, OutsideStep, Zenon

\* The steps that leave every fact of the invariant alone.
LEMMA LooksKeep ==
  ASSUME DeploymentInv, NEW o \in Operators,
         \/ TargetAbsent(o) \/ TargetExists(o) \/ Transfer(o)
         \/ MakeStaging(o) \/ Extract(o) \/ InstallRuntime(o) \/ Relocate(o) \/ WriteMarkers(o)
         \/ Publish(o) \/ SameSchema(o) \/ Checkpoint(o) \/ CheckReady(o) \/ BackReady(o)
  PROVE  DeploymentInv'
<1>1. CASE \/ TargetAbsent(o) \/ TargetExists(o) \/ Transfer(o)
           \/ SameSchema(o) \/ Checkpoint(o) \/ CheckReady(o) \/ BackReady(o)
  <2>1. /\ doing[o].at \in {"absent", "exists", "transfer", "schema", "checkpoint", "ready",
                            "back_ready"}
        /\ Advance(o) \/ Fail(o)
    BY <1>1 DEF TargetAbsent, TargetExists, Transfer, SameSchema, Checkpoint, CheckReady,
                BackReady, Look, Call
  <2>2. UNCHANGED <<current, next, previous, lock, service, keys, unit, saved>>
    BY <1>1 DEF TargetAbsent, TargetExists, Transfer, SameSchema, Checkpoint, CheckReady,
                BackReady, Look, webVars, keyVars
  <2> QED
    BY <2>1, <2>2, LookKeeps DEF Looks, Early
<1>2. CASE \/ MakeStaging(o) \/ Extract(o) \/ InstallRuntime(o) \/ Relocate(o) \/ WriteMarkers(o)
           \/ Publish(o)
  <2>1. /\ doing[o].at \in {"directory", "source", "runtime", "relocated", "marked", "publish"}
        /\ Advance(o) \/ Fail(o)
    BY <1>2 DEF MakeStaging, Extract, InstallRuntime, Relocate, WriteMarkers, Prepare, Publish, Call
  <2>2. UNCHANGED <<current, next, previous, lock, service, keys, unit, saved>>
    BY <1>2 DEF MakeStaging, Extract, InstallRuntime, Relocate, WriteMarkers, Prepare, Publish,
                keyVars
  <2> QED
    BY <2>1, <2>2, LookKeeps DEF Looks, Early
<1> QED
  BY <1>1, <1>2

LEMMA DeploymentNextKeeps == DeploymentInv /\ [DeploymentNext]_deploymentVars => DeploymentInv'
<1> SUFFICES ASSUME DeploymentInv, [DeploymentNext]_deploymentVars
             PROVE  DeploymentInv'
  OBVIOUS
<1>1. ASSUME NEW o \in Operators, Step(o)
      PROVE  DeploymentInv'
  <2>1. CASE \/ TargetAbsent(o) \/ TargetExists(o) \/ Transfer(o)
             \/ MakeStaging(o) \/ Extract(o) \/ InstallRuntime(o) \/ Relocate(o)
             \/ WriteMarkers(o) \/ Publish(o) \/ SameSchema(o) \/ Checkpoint(o)
             \/ CheckReady(o) \/ BackReady(o)
    BY <2>1, LooksKeep
  <2>2. CASE MakeDirectory(o)
    BY <2>2, MakeDirectoryKeeps
  <2>3. CASE CapturePrevious(o)
    BY <2>3, CaptureKeeps
  <2>4. CASE Switch(o)
    BY <2>4, SwitchKeeps
  <2>5. CASE Restart(o)
    BY <2>5, RestartKeeps
  <2>6. CASE Verify(o) \/ BackVerify(o)
    BY <2>6, VerifyKeeps
  <2>7. CASE RemoveRecord(o) \/ RemoveDirectory(o)
    BY <2>7, CloseKeeps
  <2>8. CASE SaveKeys(o)
    BY <2>8, SaveKeysKeeps
  <2>9. CASE InstallCredential(o)
    BY <2>9, InstallCredentialKeeps
  <2>10. CASE InstallDropin(o)
    BY <2>10, InstallDropinKeeps
  <2>11. CASE ConfigureAI(o)
    BY <2>11, ConfigureKeeps
  <2>12. CASE Accept(o)
    BY <2>12, AcceptKeeps
  <2>13. CASE Answer(o)
    BY <2>13, AnswerKeeps
  <2>14. CASE Restore(o)
    BY <2>14, RestoreKeeps
  <2>15. CASE Reload(o)
    BY <2>15, ReloadKeeps
  <2>16. CASE Cleanup(o)
    BY <2>16, CleanupKeeps
  <2> QED
    BY <1>1, <2>1, <2>2, <2>3, <2>4, <2>5, <2>6, <2>7, <2>8, <2>9, <2>10, <2>11, <2>12, <2>13,
       <2>14, <2>15, <2>16, Zenon DEF Step
<1>2. ASSUME NEW o \in Operators,
             \/ \E r \in Releases : Deploy(o, r) \/ Rollback(o, r)
             \/ \E p \in Providers, v \in Versions : Credential(o, p, v)
             \/ Interrupt(o)
      PROVE  DeploymentInv'
  BY <1>2, BeginKeeps
<1>3. CASE Come \/ ComeAgain \/ Crash
  <2>1. UNCHANGED <<doing, current, next, previous, lock, keys, unit, saved>>
    BY <1>3 DEF Come, ComeAgain, Crash, webVars, keyVars
  <2>2. ServiceGoes
    BY <1>3 DEF Come, ComeAgain, Crash, ServiceGoes
  <2> QED
    BY <2>1, <2>2, ServiceKeeps
<1>4. CASE Tidy
  BY <1>4, TidyKeeps
<1>5. CASE UNCHANGED deploymentVars
  <2>1. UNCHANGED <<doing, current, next, previous, lock, keys, unit, saved>> /\ ServiceGoes
    BY <1>5 DEF deploymentVars, webVars, keyVars, ServiceGoes
  <2> QED
    BY <2>1, ServiceKeeps
<1> QED
  BY <1>1, <1>2, <1>3, <1>4, <1>5, Zenon DEF DeploymentNext

LEMMA DeploymentInitKeeps == DeploymentInit => DeploymentInv
<1> SUFFICES ASSUME DeploymentInit
             PROVE  DeploymentInv
  OBVIOUS
<1> USE DeploymentAssumption DEF DeploymentInit
<1>1. \A o \in Operators : doing[o] = NoCommand
  OBVIOUS
<1>2. NoCommand \in CommandRows /\ Placed(NoCommand)
  BY DEF NoCommand, CommandRows, Verdicts, Placed
<1>3. ~Deploys(NoCommand) /\ ~Changes(NoCommand)
  BY DEF NoCommand, Deploys, Changes
<1>4. TreeTypes
  BY <1>2 DEF TreeTypes
<1>5. KeyTypes
  <2>1. keys \in KeyFiles
    BY DEF KeyFiles
  <2> QED
    BY <2>1 DEF KeyTypes
<1>6. OneDeploys /\ OneChanges
  BY <1>1, <1>3 DEF OneDeploys, OneChanges
<1>7. ASSUME NEW o \in Operators
      PROVE  Placed(doing[o]) /\ ReleaseFits(doing[o]) /\ KeysFit(doing[o])
  BY <1>1, <1>2, <1>3 DEF ReleaseFits, KeysFit
<1> QED
  BY <1>4, <1>5, <1>6, <1>7 DEF DeploymentInv

\* The inductive invariant of the two helpers: at most one release command has
\* the deploy directory and at most one credential command the recovery
\* material, and each command finds in place what its earlier steps left there
\* (framenest_release.py and production_ai_deploy.py).
THEOREM DeploymentInvariant == DeploymentSpec => []DeploymentInv
<1>1. DeploymentInit => DeploymentInv
  BY DeploymentInitKeeps
<1>2. DeploymentInv /\ [DeploymentNext]_deploymentVars => DeploymentInv'
  BY DeploymentNextKeeps
<1> QED
  BY <1>1, <1>2, PTL DEF DeploymentSpec

\* What _cmd_deploy and _cmd_rollback print at the end is so: "deployed" names
\* the release that is linked and running, and a restored deployment is the
\* release that the command had found.
THEOREM DeploymentReportsAreTrue == DeploymentSpec => []ReportsAreTrue
<1>1. DeploymentInv => ReportsAreTrue
  <2> SUFFICES ASSUME DeploymentInv, NEW o \in Operators, NEW c, c = doing[o],
                      c.cmd \in {"deploy", "rollback"}, c.at \in {"clean", "unlock"}
               PROVE  /\ c.verdict = "done" => current = c.arg /\ service.release = c.arg
                      /\ c.verdict = "restored" => current = c.from /\ service.release = c.from
    BY DEF ReportsAreTrue
  <2>1. Deploys(c) /\ ReleaseFits(c)
    BY DEF Deploys, DeploymentInv
  <2> QED
    BY <2>1 DEF ReleaseFits, Closing
<1> QED
  BY <1>1, DeploymentInvariant, PTL

\* Cleanup of production_ai_deploy.py removes the recovery material only when
\* the files are all as they were or all as asked for, systemd has loaded the
\* drop-in and the service runs with these keys.
THEOREM DeploymentKeysAllOrNothing == DeploymentSpec => KeysAllOrNothing
<1> DEFINE AllOrNothing ==
      saved # Nothing /\ saved' = Nothing =>
        /\ \/ keys' = saved
           \/ \E p \in Providers, v \in Versions : keys' = Installed(saved, p, v)
        /\ unit' = keys'.dropin
        /\ service'.keys = ServiceKeys'
<1>1. DeploymentInv /\ [DeploymentNext]_deploymentVars => [AllOrNothing]_deploymentVars
  <2> SUFFICES ASSUME DeploymentInv, DeploymentNext, saved # Nothing, saved' = Nothing
               PROVE  AllOrNothing
    BY Zenon
  <2>1. PICK o \in Operators : Cleanup(o)
    <3>1. ASSUME NEW o \in Operators, Step(o), ~Cleanup(o)
          PROVE  FALSE
      <4>1. saved' = saved \/ SaveKeys(o)
        BY <3>1, Zenon DEF Step, MakeDirectory, TargetAbsent, TargetExists, Transfer, MakeStaging,
             Extract, InstallRuntime, Relocate, WriteMarkers, Prepare, Publish, SameSchema,
             Checkpoint, CheckReady, CapturePrevious, Switch, Restart, Verify, BackReady,
             BackVerify, RemoveRecord, RemoveDirectory, InstallCredential, InstallDropin,
             ConfigureAI, Accept, Answer, Restore, Reload, Look, keyVars
      <4>2. SaveKeys(o) => saved' = saved
        BY SMTT(30) DEF SaveKeys
      <4> QED
        BY <4>1, <4>2
    <3>2. ASSUME NEW o \in Operators,
                 \/ \E r \in Releases : Deploy(o, r) \/ Rollback(o, r)
                 \/ \E p \in Providers, v \in Versions : Credential(o, p, v)
                 \/ Interrupt(o)
          PROVE  FALSE
      BY <3>2 DEF Deploy, Rollback, Credential, Interrupt, keyVars
    <3>3. ~(Come \/ ComeAgain \/ Crash \/ Tidy)
      BY DEF Come, ComeAgain, Crash, Tidy, keyVars
    <3> QED
      BY <3>1, <3>2, <3>3, Zenon DEF DeploymentNext
  <2>2. doing[o].at = "cleanup" /\ UNCHANGED <<service, keys, unit>>
    BY <2>1 DEF Cleanup, Call
  <2>3. /\ \/ keys = saved
           \/ \E p \in Providers, v \in Versions :
                p = doing[o].arg[1] /\ keys = Installed(saved, p, v)
        /\ unit = keys.dropin /\ service.keys = ServiceKeys
    BY <2>2, BeforeCleanup
  <2>4. ServiceKeys' = ServiceKeys
    BY <2>2 DEF ServiceKeys
  <2> QED
    BY <2>2, <2>3, <2>4
<1> QED
  BY <1>1, DeploymentInvariant, PTL DEF DeploymentSpec, KeysAllOrNothing

-----------------------------------------------------------------------------
(* UploadClient: the invariant.                                              *)

SessionStates == {"absent", "receiving", "received", "validating", "duplicate", "published",
                  "cataloged", "cancelled", "ended"}
Sessions == [state : SessionStates, got : Nat]
Snapshots == [id : Uploads, state : SessionStates, got : Nat]
Kinds == {"none", "start", "resume", "cancel", "keep", "discard"}
Places == {"free", "timer", "create", "resume", "status", "patch", "complete", "delete",
           "resolve", "refresh", "poll", "look"}

PageRows ==
    [gen : Nat, up : Uploads \cup {Missing}, file : Files \cup {Missing},
     snap : Snapshots \cup {Missing}, act : Nat, kind : Kinds, loop : Nat, completion : Nat,
     paused : BOOLEAN, poll : Side \cup {Missing}, open : BOOLEAN]
TaskRows ==
    [at : Places, gen : Nat, up : Uploads \cup {Missing}, file : Files \cup {Missing},
     then : {"end", "loop", "poll", "keep", "discard"}, offset : Nat,
     reply : {"none", "ok", "lost", "offset", "refused"}, snap : Snapshots \cup {Missing}]
Coroutines == Main \cup Side

\* A page that shows a snapshot has an upload.
PageFits(p) == p \in PageRows /\ (p.snap # Missing => p.up \in Uploads)

\* What asks about an upload has one, and an answer of the server a snapshot.
TaskFits(c) ==
    /\ c \in TaskRows
    /\ c.at \notin {"free", "create"} => c.up \in Uploads
    /\ c.reply \notin {"none", "lost"} => c.snap \in Snapshots

\* The coroutines that send bytes or a completion, or come to it.
Sends(c) == \/ c.at \in {"create", "resume", "status", "patch", "complete"}
            \/ c.at = "refresh" /\ c.then = "loop"

ClientInv ==
    /\ srv \in [Uploads -> Sessions] /\ stored \in Uploads \cup {Missing}
    /\ fenced \in [Uploads -> Nat]
    /\ PageFits(page) /\ \A u \in Uploads : fenced[u] <= page.gen
    /\ task = [t \in Coroutines |-> task[t]]
    /\ \A t \in Coroutines : /\ TaskFits(task[t]) /\ task[t].gen <= page.gen
                             /\ Sends(task[t]) => \A u \in Uploads : fenced[u] # task[t].gen

-----------------------------------------------------------------------------
(* What a step does to the page and to the coroutines.                       *)

\* The step leaves coroutines alone, ends them or makes one of them c.
TasksBecome(c) ==
    /\ task' = [t \in Coroutines |-> task'[t]]
    /\ \A t \in Coroutines : task'[t] \in {task[t], Free, c}
MayRun(c) ==
    /\ TaskFits(c) /\ c.gen <= page.gen
    /\ Sends(c) => \A u \in Uploads : fenced[u] # c.gen
    /\ c.at \in {"patch", "complete"} => c.gen = page.gen
TasksGo == \E c : MayRun(c) /\ TasksBecome(c)
PageGoes == PageFits(page)' /\ page'.gen = page.gen

\* No coroutine begins to send for an upload since whose cancel nothing was asked.
NoneSendsAnew ==
    \A t \in Coroutines :
      task'[t].at \in {"patch", "complete"} /\ task'[t].at # task[t].at
        => task'[t].gen > fenced[task'[t].up]

LEMMA FreeFits == TaskFits(Free) /\ ~Sends(Free) /\ Free.gen = 0 /\ Free.at = "free"
BY DEF Free, TaskFits, TaskRows, Places, Sends

LEMMA StepKeeps ==
  ASSUME ClientInv, srv' \in [Uploads -> Sessions], stored' \in Uploads \cup {Missing},
         PageFits(page)', page'.gen >= page.gen, fenced' \in [Uploads -> Nat],
         \A u \in Uploads : \/ fenced'[u] = fenced[u]
                            \/ fenced'[u] = page'.gen /\ page'.gen > page.gen,
         NEW c, TaskFits(c), c.gen <= page'.gen, TasksBecome(c),
         Sends(c) => \A u \in Uploads : fenced'[u] # c.gen
  PROVE  ClientInv'
<1>1. page.gen \in Nat /\ page'.gen \in Nat
  BY DEF ClientInv, PageFits, PageRows
<1>2. \A u \in Uploads : fenced[u] \in Nat /\ fenced[u] <= page.gen
  BY DEF ClientInv
<1>3. \A u \in Uploads : fenced'[u] <= page'.gen
  BY <1>1, <1>2
<1>4. ASSUME NEW t \in Coroutines
      PROVE  /\ TaskFits(task'[t]) /\ task'[t].gen <= page'.gen
             /\ Sends(task'[t]) => \A u \in Uploads : fenced'[u] # task'[t].gen
  <2>1. PICK e : e = task'[t]
    OBVIOUS
  <2>2. e \in {task[t], Free, c}
    BY <2>1 DEF TasksBecome
  <2>3. CASE e = task[t]
    <3>1. /\ TaskFits(e) /\ e.gen <= page.gen
          /\ Sends(e) => \A u \in Uploads : fenced[u] # e.gen
      BY <2>3 DEF ClientInv
    <3>2. e.gen \in Nat
      BY <3>1 DEF TaskFits, TaskRows
    <3> QED
      BY <1>1, <2>1, <3>1, <3>2
  <2>4. CASE e = Free
    BY <2>1, <2>4, <1>1, FreeFits
  <2> QED
    BY <2>1, <2>2, <2>3, <2>4
<1>5. task' = [t \in Coroutines |-> task'[t]]
  BY DEF TasksBecome
<1> QED
  BY <1>3, <1>4, <1>5 DEF ClientInv, TaskFits, Sends

LEMMA NobodySends ==
  ASSUME ClientInv, NEW c, MayRun(c), TasksBecome(c)
  PROVE  NoneSendsAnew
<1> SUFFICES ASSUME NEW t \in Coroutines, NEW e, e = task'[t],
                    e.at \in {"patch", "complete"}, e.at # task[t].at
             PROVE  e.gen > fenced[e.up]
  BY DEF NoneSendsAnew
<1>1. e = c
  <2>1. e \in {task[t], Free, c}
    BY DEF TasksBecome
  <2> QED
    BY <2>1, FreeFits
<1>2. c.gen = page.gen /\ c.up \in Uploads /\ Sends(c)
  BY <1>1 DEF MayRun, TaskFits, Sends
<1>3. fenced[c.up] \in Nat /\ fenced[c.up] <= page.gen /\ fenced[c.up] # page.gen
  BY <1>2 DEF MayRun, ClientInv
<1>4. page.gen \in Nat
  BY DEF ClientInv, PageFits, PageRows
<1> QED
  BY <1>1, <1>2, <1>3, <1>4

LEMMA HandlerKeeps ==
  ASSUME ClientInv, PageGoes, TasksGo, stored' \in Uploads \cup {Missing},
         UNCHANGED <<srv, fenced>>
  PROVE  ClientInv' /\ NoneSendsAnew
<1>1. PICK c : MayRun(c) /\ TasksBecome(c)
  BY DEF TasksGo
<1>2. NoneSendsAnew
  BY <1>1, NobodySends
<1>3. page.gen \in Nat
  BY DEF ClientInv, PageFits, PageRows
<1>4. ClientInv'
  BY <1>1, <1>3, StepKeeps DEF MayRun, PageGoes, ClientInv
<1> QED
  BY <1>2, <1>4

LEMMA AskFits ==
  ASSUME NEW c \in TaskRows, NEW at \in Places, NEW d, d = Ask(c, at)
  PROVE  /\ d \in TaskRows /\ d.at = at /\ d.gen = c.gen /\ d.up = c.up /\ d.then = c.then
         /\ d.reply = "none"
BY DEF Ask, TaskRows

LEMMA ContextFits ==
  ASSUME NEW p, PageFits(p), NEW c, c = Context(p)
  PROVE  c \in TaskRows /\ c.gen = p.gen /\ c.up = p.up /\ c.then = "end"
BY FreeFits DEF Context, PageFits, PageRows, TaskFits, TaskRows, Free

LEMMA ReleasedFits ==
  ASSUME NEW p, PageFits(p), NEW g, NEW q, q = Released(p, g)
  PROVE  PageFits(q) /\ q.gen = p.gen /\ q.up = p.up /\ q.snap = p.snap
<1>1. PICK act, loop, completion \in Nat, kind \in Kinds :
        q = [p EXCEPT !.act = act, !.kind = kind, !.loop = loop, !.completion = completion]
  <2>1. p.act \in Nat /\ p.loop \in Nat /\ p.completion \in Nat /\ p.kind \in Kinds
    BY DEF PageFits, PageRows
  <2>2. "none" \in Kinds
    BY DEF Kinds
  <2> QED
    BY <2>1, <2>2 DEF Released
<1>2. q \in PageRows /\ q.gen = p.gen /\ q.up = p.up /\ q.snap = p.snap
  BY <1>1 DEF PageFits, PageRows
<1> QED
  BY <1>2 DEF PageFits

LEMMA PollFits ==
  ASSUME NEW p, PageFits(p), NEW poll \in Side \cup {Missing}, NEW q, q = [p EXCEPT !.poll = poll]
  PROVE  PageFits(q) /\ q.gen = p.gen /\ q.up = p.up /\ q.snap = p.snap
BY DEF PageFits, PageRows

\* What the answer that coroutine t has got makes of the page.
LEMMA ShowsFits ==
  ASSUME ClientInv, NEW t \in Coroutines, task[t].snap \in Snapshots, NEW q, q = Shows(t)
  PROVE  /\ PageFits(q) /\ q.gen = page.gen /\ q.snap = task[t].snap
         /\ Remember(t) => stored' \in Uploads \cup {Missing}
<1>1. task[t].snap.id \in Uploads
  BY DEF Snapshots
<1>2. Remember(t) => stored' \in Uploads \cup {Missing}
  BY <1>1 DEF Remember, Remembered
<1>3. q \in PageRows /\ q.gen = page.gen /\ q.snap = task[t].snap /\ q.up = task[t].snap.id
  BY <1>1 DEF Shows, ClientInv, PageFits, PageRows
<1> QED
  BY <1>1, <1>2, <1>3 DEF PageFits

LEMMA AnsweredFacts ==
  ASSUME ClientInv, NEW t \in Coroutines, NEW at, Answered(t, at), NEW c, c = task[t]
  PROVE  /\ TaskFits(c) /\ c \in TaskRows /\ c.at = at /\ c.reply # "none"
         /\ c.gen = page.gen /\ c.up = page.up /\ page.gen \in Nat /\ PageFits(page)
         /\ Sends(c) => \A u \in Uploads : fenced[u] # c.gen
         /\ c.at \notin {"free", "create"} => c.up \in Uploads
         /\ c.reply # "lost" => task[t].snap \in Snapshots
         /\ Good(t) => c.reply = "ok"
<1>1. TaskFits(c) /\ (Sends(c) => \A u \in Uploads : fenced[u] # c.gen) /\ PageFits(page)
  BY DEF ClientInv
<1>2. c.at = at /\ c.reply # "none" /\ c.gen = page.gen /\ c.up = page.up
  BY DEF Answered, Current
<1> QED
  BY <1>1, <1>2 DEF TaskFits, PageFits, PageRows, Good

\* Coroutine t goes on with c.
LEMMA ContinueGoes ==
  ASSUME ClientInv, NEW t \in Coroutines, NEW c, MayRun(c), Continue(t, c)
  PROVE  TasksGo
<1>1. task' = [task EXCEPT ![t] = c]
  BY DEF Continue
<1>2. task = [s \in Coroutines |-> task[s]]
  BY DEF ClientInv
<1>3. task' = [s \in Coroutines |-> IF s = t THEN c ELSE task[s]]
  BY <1>1, <1>2
<1>4. TasksBecome(c)
  BY <1>3 DEF TasksBecome
<1> QED
  BY <1>4 DEF TasksGo

LEMMA AskGoes ==
  ASSUME ClientInv, NEW t \in Coroutines, NEW c \in TaskRows, NEW at \in Places,
         at \notin {"free", "create"}, c.up \in Uploads, c.gen = page.gen,
         at \in {"status", "patch", "complete", "resume"} \/ c.then = "loop"
           => \A u \in Uploads : fenced[u] # c.gen,
         Continue(t, Ask(c, at))
  PROVE  TasksGo
<1>1. PICK d : d = Ask(c, at)
  OBVIOUS
<1>2. /\ d \in TaskRows /\ d.at = at /\ d.gen = c.gen /\ d.up = c.up /\ d.then = c.then
      /\ d.reply = "none"
  BY <1>1, AskFits
<1>3. page.gen \in Nat
  BY DEF ClientInv, PageFits, PageRows
<1>4. MayRun(d)
  BY <1>2, <1>3 DEF MayRun, TaskFits, Sends
<1> QED
  BY <1>1, <1>4, ContinueGoes

LEMMA FinishGoes ==
  ASSUME ClientInv, NEW t \in Coroutines, NEW p, PageFits(p), p.gen = page.gen, Finish(t, p)
  PROVE  PageGoes /\ TasksGo
<1>1. PICK q : q = Released(p, task[t].gen)
  OBVIOUS
<1>2. PageFits(q) /\ q.gen = page.gen
  BY <1>1, ReleasedFits
<1>3. page' = q
  BY <1>1 DEF Finish
<1>4. PageGoes
  BY <1>2, <1>3 DEF PageGoes, PageFits
<1>5. MayRun(Free)
  BY FreeFits DEF MayRun, ClientInv, PageFits, PageRows
<1>6. TasksGo
  BY <1>5, ContinueGoes DEF Finish
<1> QED
  BY <1>4, <1>6

LEMMA EndAndPollGoes ==
  ASSUME ClientInv, NEW t \in Coroutines, NEW p, PageFits(p), p.gen = page.gen, EndAndPoll(t, p)
  PROVE  PageGoes /\ TasksGo
<1>1. PICK q : q = Released(p, task[t].gen)
  OBVIOUS
<1>2. PageFits(q) /\ q.gen = page.gen
  BY <1>1, ReleasedFits
<1>3. PICK rest : rest = [s \in DOMAIN task |->
                            IF s = t \/ task[s].at = "timer" THEN Free ELSE task[s]]
  OBVIOUS
<1>4. DOMAIN task = Coroutines
  BY DEF ClientInv
<1>5. rest = [s \in Coroutines |-> rest[s]] /\ \A s \in Coroutines : rest[s] \in {task[s], Free}
  BY <1>3, <1>4
<1>6. page.gen \in Nat /\ MayRun(Free)
  BY FreeFits DEF MayRun, ClientInv, PageFits, PageRows
<1>7. CASE page' = [q EXCEPT !.poll = Missing] /\ task' = rest
  <2>1. PageGoes
    BY <1>2, <1>7, PollFits DEF PageGoes, PageFits
  <2>2. TasksBecome(Free)
    BY <1>5, <1>7 DEF TasksBecome
  <2> QED
    BY <1>6, <2>1, <2>2 DEF TasksGo
<1>8. ASSUME ShouldPoll(q.snap),
             NEW s \in Side, page' = [q EXCEPT !.poll = s],
             task' = [rest EXCEPT ![s] = Ask(Context(q), "timer")]
      PROVE  PageGoes /\ TasksGo
  <2>1. PageGoes
    BY <1>2, <1>8, PollFits DEF PageGoes, PageFits
  <2>2. PICK c : c = Context(q)
    OBVIOUS
  <2>3. PICK d : d = Ask(c, "timer")
    OBVIOUS
  <2>4. c \in TaskRows /\ c.gen = page.gen /\ c.up = q.up
    BY <1>2, <2>2, ContextFits
  <2>5. d \in TaskRows /\ d.at = "timer" /\ d.gen = page.gen /\ d.up = q.up /\ d.reply = "none"
    BY <2>3, <2>4, AskFits DEF Places
  <2>6. q.up \in Uploads
    BY <1>2, <1>8 DEF ShouldPoll, PageFits
  <2>7. MayRun(d)
    BY <1>6, <2>5, <2>6 DEF MayRun, TaskFits, Sends
  <2>8. task' = [r \in Coroutines |-> IF r = s THEN d ELSE rest[r]]
    BY <1>5, <1>8, <2>2, <2>3 DEF Coroutines
  <2>9. TasksBecome(d)
    BY <1>5, <2>8 DEF TasksBecome
  <2> QED
    BY <2>1, <2>7, <2>9 DEF TasksGo
<1>9. \/ page' = [q EXCEPT !.poll = Missing] /\ task' = rest
      \/ /\ ShouldPoll(q.snap)
         /\ \E s \in Side : /\ page' = [q EXCEPT !.poll = s]
                            /\ task' = [rest EXCEPT ![s] = Ask(Context(q), "timer")]
  BY <1>1, <1>3, Zenon DEF EndAndPoll
<1> QED
  BY <1>7, <1>8, <1>9

LEMMA LoopGoes ==
  ASSUME ClientInv, NEW t \in Coroutines, NEW p, PageFits(p), p.gen = page.gen,
         NEW c \in TaskRows, c.up \in Uploads, c.gen = page.gen,
         \A u \in Uploads : fenced[u] # c.gen, Loop(t, p, c)
  PROVE  PageGoes /\ TasksGo
<1>1. PICK q : q = [p EXCEPT !.loop = c.gen, !.paused = FALSE]
  OBVIOUS
<1>2. q \in PageRows /\ q.gen = page.gen /\ q.up = p.up /\ q.snap = p.snap
  BY <1>1 DEF PageFits, PageRows, TaskRows
<1>3. page' = q
  BY <1>1 DEF Loop
<1>4. PageGoes
  BY <1>2, <1>3 DEF PageGoes, PageFits
<1>5. TasksGo
  BY AskGoes DEF Loop, Places
<1> QED
  BY <1>4, <1>5

LEMMA CompleteGoes ==
  ASSUME ClientInv, NEW t \in Coroutines, NEW p, PageFits(p), p.gen = page.gen,
         NEW c \in TaskRows, c = task[t], c.up \in Uploads, c.gen = page.gen,
         \A u \in Uploads : fenced[u] # c.gen, Complete(t, p)
  PROVE  PageGoes /\ TasksGo
<1>1. CASE Finish(t, p)
  BY <1>1, FinishGoes
<1>2. CASE page' = [p EXCEPT !.completion = c.gen] /\ Continue(t, Ask(c, "complete"))
  <2>1. PICK q : q = [p EXCEPT !.completion = c.gen]
    OBVIOUS
  <2>2. q \in PageRows /\ q.gen = page.gen /\ q.up = p.up /\ q.snap = p.snap
    BY <2>1 DEF PageFits, PageRows, TaskRows
  <2>3. PageGoes
    BY <1>2, <2>1, <2>2 DEF PageGoes, PageFits
  <2>4. TasksGo
    BY <1>2, AskGoes DEF Places
  <2> QED
    BY <2>3, <2>4
<1> QED
  BY <1>1, <1>2 DEF Complete

LEMMA RefreshGoes ==
  ASSUME ClientInv, NEW t \in Coroutines, NEW then \in {"end", "loop", "poll"},
         NEW c \in TaskRows, c = task[t], c.up \in Uploads, c.gen = page.gen,
         then = "loop" => \A u \in Uploads : fenced[u] # c.gen, Refresh(t, then)
  PROVE  PageGoes /\ TasksGo /\ stored' = stored
<1>1. PICK d : d = [c EXCEPT !.then = then]
  OBVIOUS
<1>2. d \in TaskRows /\ d.up \in Uploads /\ d.gen = page.gen /\ d.then = then
  BY <1>1 DEF TaskRows
<1>3. Continue(t, Ask(d, "refresh"))
  BY <1>1 DEF Refresh
<1>4. TasksGo
  BY <1>2, <1>3, AskGoes DEF Places
<1> QED
  BY <1>4 DEF Refresh, PageGoes, ClientInv

-----------------------------------------------------------------------------
(* The answers.                                                              *)

LEMMA StoredFits == ClientInv /\ UNCHANGED stored => stored' \in Uploads \cup {Missing}
BY DEF ClientInv

LEMMA StaleKeeps ==
  ASSUME ClientInv, NEW t \in Coroutines, Stale(t)
  PROVE  ClientInv' /\ NoneSendsAnew
BY FinishGoes, HandlerKeeps, StoredFits DEF Stale, ClientInv

LEMMA CreatedKeeps ==
  ASSUME ClientInv, NEW t \in Coroutines, Created(t)
  PROVE  ClientInv' /\ NoneSendsAnew
<1>1. PICK c : c = task[t]
  OBVIOUS
<1>2. /\ c \in TaskRows /\ c.at = "create" /\ c.gen = page.gen /\ PageFits(page)
      /\ \A u \in Uploads : fenced[u] # c.gen
      /\ Good(t) => task[t].snap \in Snapshots
  BY <1>1, AnsweredFacts DEF Created, Sends
<1>3. PageGoes /\ TasksGo /\ stored' \in Uploads \cup {Missing}
  <2>1. CASE Good(t)
    <3>1. PICK q, d : q = Shows(t) /\ d = [c EXCEPT !.up = c.snap.id]
      OBVIOUS
    <3>2. PageFits(q) /\ q.gen = page.gen /\ stored' \in Uploads \cup {Missing}
      BY <1>2, <2>1, <3>1, ShowsFits DEF Created
    <3>3. d \in TaskRows /\ d.up \in Uploads /\ d.gen = c.gen
      BY <1>1, <1>2, <2>1, <3>1 DEF TaskRows, Snapshots
    <3>4. Loop(t, q, d)
      BY <1>1, <2>1, <3>1 DEF Created
    <3> QED
      BY <1>2, <3>2, <3>3, <3>4, LoopGoes
  <2>2. CASE ~Good(t)
    BY <1>2, <2>2, FinishGoes, StoredFits DEF Created
  <2> QED
    BY <2>1, <2>2
<1> QED
  BY <1>3, HandlerKeeps DEF Created

LEMMA ResumedKeeps ==
  ASSUME ClientInv, NEW t \in Coroutines, Resumed(t)
  PROVE  ClientInv' /\ NoneSendsAnew
<1>1. PICK c : c = task[t]
  OBVIOUS
<1>2. /\ c \in TaskRows /\ c.at = "resume" /\ c.gen = page.gen /\ PageFits(page) /\ c.up \in Uploads
      /\ \A u \in Uploads : fenced[u] # c.gen
      /\ Good(t) => task[t].snap \in Snapshots
  BY <1>1, AnsweredFacts DEF Resumed, Sends
<1>3. PageGoes /\ TasksGo /\ stored' \in Uploads \cup {Missing}
  <2>1. CASE Good(t)
    <3>1. PICK q : q = Shows(t)
      OBVIOUS
    <3>2. PageFits(q) /\ q.gen = page.gen /\ stored' \in Uploads \cup {Missing}
      BY <1>2, <2>1, <3>1, ShowsFits DEF Resumed
    <3>3. Loop(t, q, c) \/ EndAndPoll(t, q)
      BY <1>1, <2>1, <3>1 DEF Resumed
    <3> QED
      BY <1>2, <3>2, <3>3, LoopGoes, EndAndPollGoes
  <2>2. CASE ~Good(t)
    BY <1>2, <2>2, FinishGoes, StoredFits DEF Resumed
  <2> QED
    BY <2>1, <2>2
<1> QED
  BY <1>3, HandlerKeeps DEF Resumed

LEMMA StatusSeenKeeps ==
  ASSUME ClientInv, NEW t \in Coroutines, StatusSeen(t)
  PROVE  ClientInv' /\ NoneSendsAnew
<1>1. PICK c : c = task[t]
  OBVIOUS
<1>2. /\ c \in TaskRows /\ c.at = "status" /\ c.gen = page.gen /\ PageFits(page) /\ c.up \in Uploads
      /\ \A u \in Uploads : fenced[u] # c.gen
      /\ Good(t) => task[t].snap \in Snapshots
  BY <1>1, AnsweredFacts DEF StatusSeen, Sends
<1>3. PageGoes /\ TasksGo /\ stored' \in Uploads \cup {Missing}
  <2>1. CASE Good(t)
    <3>1. PICK q, d : q = Shows(t) /\ d = [c EXCEPT !.offset = c.snap.got]
      OBVIOUS
    <3>2. PageFits(q) /\ q.gen = page.gen /\ stored' \in Uploads \cup {Missing}
      BY <1>2, <2>1, <3>1, ShowsFits DEF StatusSeen
    <3>3. \/ Finish(t, q) \/ EndAndPoll(t, q) \/ Complete(t, q)
          \/ page' = q /\ Continue(t, Ask(d, "patch"))
      BY <1>1, <2>1, <3>1 DEF StatusSeen
    <3>4. d \in TaskRows /\ d.up = c.up /\ d.gen = c.gen
      BY <1>1, <1>2, <2>1, <3>1 DEF TaskRows, Snapshots
    <3>5. CASE page' = q /\ Continue(t, Ask(d, "patch"))
      BY <1>2, <3>2, <3>4, <3>5, AskGoes DEF Places, PageGoes, PageFits
    <3>6. CASE Finish(t, q) \/ EndAndPoll(t, q) \/ Complete(t, q)
      BY <1>1, <1>2, <3>2, <3>6, FinishGoes, EndAndPollGoes, CompleteGoes
    <3> QED
      BY <3>2, <3>3, <3>5, <3>6
  <2>2. CASE ~Good(t)
    BY <1>2, <2>2, FinishGoes, StoredFits DEF StatusSeen
  <2> QED
    BY <2>1, <2>2
<1> QED
  BY <1>3, HandlerKeeps DEF StatusSeen

LEMMA PatchedKeeps ==
  ASSUME ClientInv, NEW t \in Coroutines, Patched(t)
  PROVE  ClientInv' /\ NoneSendsAnew
<1>1. PICK c : c = task[t]
  OBVIOUS
<1>2. /\ c \in TaskRows /\ c.at = "patch" /\ c.gen = page.gen /\ PageFits(page) /\ c.up \in Uploads
      /\ \A u \in Uploads : fenced[u] # c.gen
      /\ c.reply # "lost" => task[t].snap \in Snapshots
  BY <1>1, AnsweredFacts DEF Patched, Sends
<1>3. PageGoes /\ TasksGo /\ stored' \in Uploads \cup {Missing}
  <2>1. CASE c.reply \in {"offset", "refused", "lost"}
    <3>1. PICK then \in {"end", "loop", "poll"} : Refresh(t, then)
      BY <1>1, <2>1 DEF Patched
    <3> QED
      BY <1>1, <1>2, <3>1, RefreshGoes, StoredFits
  <2>2. CASE c.reply \notin {"offset", "refused", "lost"}
    <3>1. PICK q : q = Shows(t)
      OBVIOUS
    <3>2. PageFits(q) /\ q.gen = page.gen /\ stored' \in Uploads \cup {Missing}
      BY <1>1, <1>2, <2>2, <3>1, ShowsFits DEF Patched
    <3>3. \/ Finish(t, q) \/ Complete(t, q)
          \/ page' = q /\ Continue(t, Ask(c, "status"))
      BY <1>1, <2>2, <3>1 DEF Patched
    <3>4. CASE page' = q /\ Continue(t, Ask(c, "status"))
      BY <1>2, <3>2, <3>4, AskGoes DEF Places, PageGoes, PageFits
    <3>5. CASE Finish(t, q) \/ Complete(t, q)
      BY <1>1, <1>2, <3>2, <3>5, FinishGoes, CompleteGoes
    <3> QED
      BY <3>2, <3>3, <3>4, <3>5
  <2> QED
    BY <2>1, <2>2
<1> QED
  BY <1>3, HandlerKeeps DEF Patched

LEMMA CompletedKeeps ==
  ASSUME ClientInv, NEW t \in Coroutines, Completed(t) \/ Deleted(t) \/ Resolved(t)
  PROVE  ClientInv' /\ NoneSendsAnew
<1>1. PICK c : c = task[t]
  OBVIOUS
<1>2. PICK at \in {"complete", "delete", "resolve"} : Answered(t, at)
  BY DEF Completed, Deleted, Resolved
<1>3. /\ c \in TaskRows /\ c.gen = page.gen /\ PageFits(page) /\ c.up \in Uploads
      /\ c.reply # "lost" => task[t].snap \in Snapshots
  BY <1>1, <1>2, AnsweredFacts
<1>4. \/ Refresh(t, "poll") \/ Refresh(t, "end")
      \/ c.reply # "lost" /\ Remember(t) /\ (EndAndPoll(t, Shows(t)) \/ Finish(t, Shows(t)))
  BY <1>1 DEF Completed, Deleted, Resolved, Good
<1>5. PageGoes /\ TasksGo /\ stored' \in Uploads \cup {Missing}
  <2>1. CASE Refresh(t, "poll") \/ Refresh(t, "end")
    BY <1>1, <1>3, <2>1, RefreshGoes, StoredFits
  <2>2. CASE c.reply # "lost" /\ Remember(t) /\ (EndAndPoll(t, Shows(t)) \/ Finish(t, Shows(t)))
    <3>1. PICK q : q = Shows(t)
      OBVIOUS
    <3>2. PageFits(q) /\ q.gen = page.gen /\ stored' \in Uploads \cup {Missing}
      BY <1>3, <2>2, <3>1, ShowsFits
    <3>3. EndAndPoll(t, q) \/ Finish(t, q)
      BY <2>2, <3>1
    <3> QED
      BY <3>2, <3>3, FinishGoes, EndAndPollGoes
  <2> QED
    BY <1>4, <2>1, <2>2
<1> QED
  BY <1>5, HandlerKeeps DEF Completed, Deleted, Resolved

LEMMA RefreshedKeeps ==
  ASSUME ClientInv, NEW t \in Coroutines, Refreshed(t)
  PROVE  ClientInv' /\ NoneSendsAnew
<1>1. PICK c : c = task[t]
  OBVIOUS
<1>2. /\ c \in TaskRows /\ c.at = "refresh" /\ c.gen = page.gen /\ PageFits(page)
      /\ c.up \in Uploads
      /\ c.then = "loop" => \A u \in Uploads : fenced[u] # c.gen
      /\ Good(t) => task[t].snap \in Snapshots
  BY <1>1, AnsweredFacts DEF Refreshed, Sends
<1>3. PICK q : q = IF Good(t) THEN Shows(t) ELSE page
  OBVIOUS
<1>4. PageFits(q) /\ q.gen = page.gen /\ stored' \in Uploads \cup {Missing}
  <2>1. CASE Good(t)
    BY <1>2, <1>3, <2>1, ShowsFits DEF Refreshed
  <2>2. CASE ~Good(t)
    BY <1>2, <1>3, <2>2, StoredFits DEF Refreshed
  <2> QED
    BY <2>1, <2>2
<1>5. \/ c.then = "loop" /\ page' = q /\ Continue(t, Ask(c, "status"))
      \/ EndAndPoll(t, q) \/ Finish(t, q)
  BY <1>1, <1>3, Zenon DEF Refreshed
<1>6. PageGoes /\ TasksGo
  <2>1. CASE c.then = "loop" /\ page' = q /\ Continue(t, Ask(c, "status"))
    BY <1>2, <1>4, <2>1, AskGoes DEF Places, PageGoes, PageFits
  <2>2. CASE EndAndPoll(t, q) \/ Finish(t, q)
    BY <1>4, <2>2, FinishGoes, EndAndPollGoes
  <2> QED
    BY <1>5, <2>1, <2>2
<1> QED
  BY <1>4, <1>6, HandlerKeeps DEF Refreshed

LEMMA LookedKeeps ==
  ASSUME ClientInv, NEW t \in Coroutines, Polled(t) \/ Looked(t)
  PROVE  ClientInv' /\ NoneSendsAnew
<1>1. PICK c, at : c = task[t] /\ Answered(t, at)
  BY DEF Polled, Looked
<1>2. PageFits(page) /\ (Good(t) => task[t].snap \in Snapshots)
  BY <1>1, AnsweredFacts
<1>3. PageGoes /\ TasksGo /\ stored' \in Uploads \cup {Missing}
  <2>1. CASE Good(t)
    <3>1. PICK q : q = Shows(t)
      OBVIOUS
    <3>2. PageFits(q) /\ q.gen = page.gen /\ stored' \in Uploads \cup {Missing}
      BY <1>2, <2>1, <3>1, ShowsFits DEF Polled, Looked
    <3>3. EndAndPoll(t, q)
      BY <2>1, <3>1 DEF Polled, Looked
    <3> QED
      BY <3>2, <3>3, EndAndPollGoes
  <2>2. CASE ~Good(t)
    <3>1. UNCHANGED stored /\ (EndAndPoll(t, page) \/ Finish(t, page))
      BY <2>2 DEF Polled, Looked
    <3>2. PICK q : q = page
      OBVIOUS
    <3> QED
      BY <1>2, <3>1, <3>2, FinishGoes, EndAndPollGoes, StoredFits
  <2> QED
    BY <2>1, <2>2
<1> QED
  BY <1>3, HandlerKeeps DEF Polled, Looked

LEMMA HandleKeeps ==
  ASSUME ClientInv, NEW t \in Coroutines, Handle(t)
  PROVE  ClientInv' /\ NoneSendsAnew
BY StaleKeeps, CreatedKeeps, ResumedKeeps, StatusSeenKeeps, PatchedKeeps, CompletedKeeps,
   RefreshedKeeps, LookedKeeps DEF Handle

-----------------------------------------------------------------------------
(* The timers, the network and the server.                                   *)

LEMMA TimerKeeps ==
  ASSUME ClientInv, NEW t \in Coroutines, TimerFires(t)
  PROVE  ClientInv' /\ NoneSendsAnew
<1>1. PICK c : c = task[t]
  OBVIOUS
<1>2. c \in TaskRows /\ c.up \in Uploads /\ c.at = "timer"
  BY <1>1 DEF TimerFires, ClientInv, TaskFits
<1>3. \/ c.gen = page.gen /\ Continue(t, Ask(c, "poll"))
      \/ Continue(t, Free)
  BY <1>1 DEF TimerFires, Current
<1>4. MayRun(Free)
  BY FreeFits DEF MayRun, ClientInv, PageFits, PageRows
<1>5. ASSUME c.gen = page.gen, Continue(t, Ask(c, "poll"))
      PROVE  TasksGo
  <2>1. PICK d : d = Ask(c, "poll")
    OBVIOUS
  <2>2. d \in TaskRows /\ d.at = "poll" /\ d.gen = c.gen /\ d.up = c.up /\ d.reply = "none"
    BY <1>2, <2>1, AskFits DEF Places
  <2>3. MayRun(d)
    BY <1>2, <1>5, <2>2 DEF MayRun, TaskFits, Sends, ClientInv, PageFits, PageRows
  <2> QED
    BY <1>5, <2>1, <2>3, ContinueGoes
<1>6. TasksGo
  BY <1>3, <1>4, <1>5, ContinueGoes
<1>7. PageGoes
  BY DEF TimerFires, PageGoes, ClientInv, PageFits
<1> QED
  BY <1>6, <1>7, HandlerKeeps, StoredFits DEF TimerFires

LEMMA ReplyKeeps ==
  ASSUME ClientInv, NEW t \in Coroutines, NEW how \in {"ok", "lost", "offset", "refused"},
         NEW snap \in Snapshots \cup {Missing}, how # "lost" => snap \in Snapshots,
         task' = Reply(t, how, snap), srv' \in [Uploads -> Sessions],
         UNCHANGED <<page, stored, fenced>>
  PROVE  ClientInv' /\ NoneSendsAnew
<1>1. PICK c, d : c = task[t] /\ d = [c EXCEPT !.reply = how, !.snap = snap]
  OBVIOUS
<1>2. /\ TaskFits(c) /\ c \in TaskRows /\ c.gen <= page.gen
      /\ Sends(c) => \A u \in Uploads : fenced[u] # c.gen
  BY <1>1 DEF ClientInv, TaskFits
<1>3. d \in TaskRows /\ d.at = c.at /\ d.gen = c.gen /\ d.up = c.up /\ d.then = c.then
      /\ d.reply = how /\ d.snap = snap
  <2>1. how \in {"none", "ok", "lost", "offset", "refused"} /\ snap \in Snapshots \cup {Missing}
    OBVIOUS
  <2>2. d = [c EXCEPT !.reply = how, !.snap = snap]
    BY <1>1
  <2>3. d \in TaskRows
    BY <1>2, <2>1, <2>2 DEF TaskRows
  <2> QED
    BY <1>2, <2>2 DEF TaskRows
<1>4. TaskFits(d) /\ (Sends(d) <=> Sends(c))
  BY <1>2, <1>3 DEF TaskFits, Sends
<1>5. task' = [s \in Coroutines |-> IF s = t THEN d ELSE task[s]]
  <2>1. task' = [task EXCEPT ![t] = d]
    BY <1>1 DEF Reply, ClientInv
  <2>2. task = [s \in Coroutines |-> task[s]]
    BY DEF ClientInv
  <2> QED
    BY <2>1, <2>2
<1>6. TasksBecome(d)
  BY <1>5 DEF TasksBecome
<1>7. page.gen \in Nat
  BY DEF ClientInv, PageFits, PageRows
<1>8. ClientInv'
  BY <1>2, <1>3, <1>4, <1>6, <1>7, StepKeeps DEF ClientInv, PageFits
<1>9. \A s \in Coroutines : task'[s].at = task[s].at
  BY <1>1, <1>3, <1>5
<1> QED
  BY <1>8, <1>9 DEF NoneSendsAnew

LEMMA OutcomeFits ==
  ASSUME ClientInv, NEW t \in Coroutines, NEW u \in Uploads, NEW o, o = Outcome(t, u)
  PROVE  o.session \in Sessions /\ o.reply \in {"ok", "offset", "refused"}
<1>1. PICK c, s : c = task[t] /\ s = srv[u]
  OBVIOUS
<1>2. s \in Sessions
  BY <1>1 DEF ClientInv
<1>3. Effect(c, s) \in Sessions
  BY <1>2 DEF Effect, Sessions, SessionStates
<1>4. \/ o = [session |-> Effect(c, s), reply |-> "ok"]
      \/ o = [session |-> s, reply |-> "offset"]
      \/ o = [session |-> s, reply |-> "refused"]
  BY <1>1, Zenon DEF Outcome
<1> QED
  BY <1>2, <1>3, <1>4

LEMMA ServeKeeps ==
  ASSUME ClientInv, NEW t \in Coroutines, Serve(t)
  PROVE  ClientInv' /\ NoneSendsAnew
<1>1. PICK u \in Target(t) :
        LET o == Outcome(t, u)
        IN  /\ srv' = [srv EXCEPT ![u] = o.session]
            /\ \/ task' = Reply(t, o.reply, [id |-> u, state |-> o.session.state,
                                             got |-> o.session.got])
               \/ task' = Reply(t, "lost", Missing)
  BY DEF Serve
<1>2. u \in Uploads
  <2>1. CASE task[t].at # "create"
    BY <2>1, <1>1 DEF Target, Serve, Asked, ClientInv, TaskFits
  <2>2. CASE task[t].at = "create"
    <3>1. Fresh # {} /\ u = CHOOSE v \in Fresh : TRUE
      BY <2>2, <1>1 DEF Target
    <3>2. u \in Fresh
      BY <3>1
    <3> QED
      BY <3>2 DEF Fresh
  <2> QED
    BY <2>1, <2>2
<1>3. PICK o : o = Outcome(t, u)
  OBVIOUS
<1>4. o.session \in Sessions /\ o.reply \in {"ok", "offset", "refused"}
  BY <1>2, <1>3, OutcomeFits
<1>5. srv' \in [Uploads -> Sessions]
  BY <1>1, <1>2, <1>3, <1>4 DEF ClientInv
<1>6. PICK snap : snap = [id |-> u, state |-> o.session.state, got |-> o.session.got]
  OBVIOUS
<1>7. snap \in Snapshots
  BY <1>2, <1>4, <1>6 DEF Snapshots, Sessions
<1>8. task' = Reply(t, o.reply, snap) \/ task' = Reply(t, "lost", Missing)
  BY <1>1, <1>3, <1>6
<1>9. UNCHANGED <<page, stored, fenced>>
  BY DEF Serve
<1>10. CASE task' = Reply(t, o.reply, snap)
  BY <1>4, <1>5, <1>7, <1>9, <1>10, ReplyKeeps
<1>11. CASE task' = Reply(t, "lost", Missing)
  BY <1>5, <1>9, <1>11, ReplyKeeps
<1> QED
  BY <1>8, <1>10, <1>11

LEMMA LoseKeeps ==
  ASSUME ClientInv, NEW t \in Coroutines, Lose(t)
  PROVE  ClientInv' /\ NoneSendsAnew
BY ReplyKeeps DEF Lose, ClientInv

LEMMA QuietKeeps ==
  ASSUME ClientInv, srv' \in [Uploads -> Sessions], UNCHANGED <<page, stored, task, fenced>>
  PROVE  ClientInv' /\ NoneSendsAnew
<1>1. TasksBecome(Free)
  BY DEF TasksBecome, ClientInv
<1>2. page.gen \in Nat
  BY DEF ClientInv, PageFits, PageRows
<1>3. ClientInv'
  BY <1>1, <1>2, FreeFits, StepKeeps DEF ClientInv, PageFits
<1> QED
  BY <1>3 DEF NoneSendsAnew

LEMMA ProgressKeeps ==
  ASSUME ClientInv, NEW u \in Uploads, Progress(u)
  PROVE  ClientInv' /\ NoneSendsAnew
<1>1. PICK s : s = srv[u]
  OBVIOUS
<1>2. s \in Sessions
  BY <1>1 DEF ClientInv
<1>3. PICK later \in SessionStates : srv' = [srv EXCEPT ![u].state = later]
  <2>1. \A x \in DOMAIN Onward : Onward[x] \subseteq SessionStates
    BY DEF Onward, SessionStates
  <2> QED
    BY <2>1 DEF Progress
<1>4. [s EXCEPT !.state = later] \in Sessions
  BY <1>2 DEF Sessions
<1>5. srv' \in [Uploads -> Sessions]
  BY <1>1, <1>3, <1>4 DEF ClientInv
<1> QED
  BY <1>5, QuietKeeps DEF Progress

-----------------------------------------------------------------------------
(* The user.                                                                 *)

LEMMA UserKeeps ==
  ASSUME ClientInv, UNCHANGED srv, stored' \in Uploads \cup {Missing},
         PageFits(page)', page'.gen >= page.gen, fenced' \in [Uploads -> Nat],
         \A u \in Uploads : \/ fenced'[u] = fenced[u]
                            \/ fenced'[u] = page'.gen /\ page'.gen > page.gen,
         NEW c, TaskFits(c), c.gen <= page'.gen, TasksBecome(c),
         c.at \notin {"patch", "complete"},
         Sends(c) => \A u \in Uploads : fenced'[u] # c.gen
  PROVE  ClientInv' /\ NoneSendsAnew
<1>1. ClientInv'
  BY StepKeeps DEF ClientInv
<1>2. NoneSendsAnew
  BY FreeFits DEF NoneSendsAnew, TasksBecome
<1> QED
  BY <1>1, <1>2

LEMMA LaunchGoes ==
  ASSUME ClientInv, NEW group \in {Main, Side}, NEW p, NEW at \in Places,
         NEW c \in TaskRows, Launch(group, p, at, c)
  PROVE  \E d \in TaskRows : /\ d.at = at /\ d.gen = c.gen /\ d.up = c.up /\ d.then = c.then
                             /\ d.reply = "none" /\ TasksBecome(d) /\ page' = p
<1>1. PICK d : d = Ask(c, at)
  OBVIOUS
<1>2. /\ d \in TaskRows /\ d.at = at /\ d.gen = c.gen /\ d.up = c.up /\ d.then = c.then
      /\ d.reply = "none"
  BY <1>1, AskFits
<1>3. PICK t \in Coroutines : page' = p /\ task' = [task EXCEPT ![t] = d]
  BY <1>1 DEF Launch, Coroutines
<1>4. task = [s \in Coroutines |-> task[s]]
  BY DEF ClientInv
<1>5. TasksBecome(d)
  BY <1>3, <1>4 DEF TasksBecome
<1> QED
  BY <1>2, <1>3, <1>5

LEMMA ClaimedFits ==
  ASSUME NEW p, PageFits(p), NEW kind \in Kinds, NEW q, q = Claimed(p, kind)
  PROVE  /\ PageFits(q) /\ q.gen = p.gen + 1 /\ q.up = p.up /\ q.snap = p.snap
         /\ q \in PageRows
<1>1. p \in PageRows /\ p.gen + 1 \in Nat /\ p.gen + 1 = p.gen + 1
  BY DEF PageFits, PageRows
<1>2. PICK g : g = p.gen + 1
  OBVIOUS
<1>3. q = [p EXCEPT !.gen = g, !.act = g, !.kind = kind, !.poll = Missing] /\ g \in Nat
  BY <1>1, <1>2 DEF Claimed
<1>4. q \in PageRows /\ q.gen = g /\ q.up = p.up /\ q.snap = p.snap
  BY <1>1, <1>3 DEF PageRows
<1> QED
  BY <1>2, <1>4 DEF PageFits

LEMMA ActionsFit ==
  /\ {"create", "resume", "delete", "resolve", "look", "timer"} \subseteq Places
  /\ {"start", "resume", "cancel", "keep", "discard"} \subseteq Kinds
BY DEF Places, Kinds

LEMMA StartKeeps ==
  ASSUME ClientInv, Start
  PROVE  ClientInv' /\ NoneSendsAnew
<1>1. PICK old : old = page
  OBVIOUS
<1>2. PICK q : q = Claimed(old, "start")
  OBVIOUS
<1>3. PageFits(q) /\ q.gen = old.gen + 1 /\ q.up = old.up /\ q.snap = old.snap /\ q \in PageRows
  BY <1>1, <1>2, ClaimedFits DEF ClientInv, Kinds
<1>4. PICK p : p = [q EXCEPT !.paused = FALSE]
  OBVIOUS
<1>5. PageFits(p) /\ p.gen = old.gen + 1
  BY <1>3, <1>4 DEF PageFits, PageRows
<1>6. PICK b, c : b = Context(p) /\ c = [b EXCEPT !.up = Missing]
  OBVIOUS
<1>7. c \in TaskRows /\ c.gen = old.gen + 1
  BY <1>5, <1>6, ContextFits DEF TaskRows
<1>8. Launch(Main, p, "create", c)
  BY <1>1, <1>2, <1>4, <1>6 DEF Start
<1>9. PICK d \in TaskRows : d.at = "create" /\ d.gen = c.gen /\ d.reply = "none" /\ TasksBecome(d)
                            /\ page' = p
  BY <1>7, <1>8, LaunchGoes, ActionsFit
<1>10. page' = p
  BY <1>9
<1>11. old.gen \in Nat /\ fenced \in [Uploads -> Nat] /\ \A u \in Uploads : fenced[u] <= old.gen
  BY <1>1 DEF ClientInv, PageFits, PageRows
<1>12. UNCHANGED <<srv, stored, fenced>>
  BY DEF Start
<1>13. TaskFits(d)
  BY <1>9 DEF TaskFits
<1> QED
  BY <1>1, <1>5, <1>7, <1>9, <1>10, <1>11, <1>12, <1>13, StoredFits, UserKeeps DEF PageFits

LEMMA ResumeKeeps ==
  ASSUME ClientInv, Resume
  PROVE  ClientInv' /\ NoneSendsAnew
<1>1. PICK old : old = page
  OBVIOUS
<1>2. PICK p : p = Claimed(old, "resume")
  OBVIOUS
<1>3. PageFits(p) /\ p.gen = old.gen + 1 /\ p.up = old.up /\ p.snap = old.snap
  BY <1>1, <1>2, ClaimedFits DEF ClientInv, Kinds
<1>4. PICK c : c = Context(p)
  OBVIOUS
<1>5. c \in TaskRows /\ c.gen = old.gen + 1 /\ c.up = old.up
  BY <1>3, <1>4, ContextFits
<1>6. old.up \in Uploads
  BY <1>1 DEF Resume, ByteReceiving, ClientInv, PageFits
<1>7. Launch(Main, p, "resume", c)
  BY <1>1, <1>2, <1>4 DEF Resume
<1>8. PICK d \in TaskRows : /\ d.at = "resume" /\ d.gen = c.gen /\ d.up = c.up
                            /\ d.reply = "none" /\ TasksBecome(d) /\ page' = p
  BY <1>5, <1>7, LaunchGoes, ActionsFit
<1>9. page' = p
  BY <1>8
<1>10. old.gen \in Nat /\ fenced \in [Uploads -> Nat] /\ \A u \in Uploads : fenced[u] <= old.gen
  BY <1>1 DEF ClientInv, PageFits, PageRows
<1>11. UNCHANGED <<srv, stored, fenced>>
  BY DEF Resume
<1>12. TaskFits(d)
  BY <1>5, <1>6, <1>8 DEF TaskFits
<1> QED
  BY <1>1, <1>3, <1>5, <1>8, <1>9, <1>10, <1>11, <1>12, StoredFits, UserKeeps DEF PageFits

LEMMA CancelKeeps ==
  ASSUME ClientInv, Cancel
  PROVE  ClientInv' /\ NoneSendsAnew
<1>1. PICK old : old = page
  OBVIOUS
<1>2. PICK q : q = Claimed(old, "cancel")
  OBVIOUS
<1>3. PageFits(q) /\ q.gen = old.gen + 1 /\ q.up = old.up /\ q.snap = old.snap /\ q \in PageRows
  BY <1>1, <1>2, ClaimedFits DEF ClientInv, Kinds
<1>4. PICK p : p = [q EXCEPT !.loop = 0, !.completion = 0, !.paused = FALSE]
  OBVIOUS
<1>5. PageFits(p) /\ p.gen = old.gen + 1 /\ p.up = old.up
  BY <1>3, <1>4 DEF PageFits, PageRows
<1>6. PICK c : c = Context(p)
  OBVIOUS
<1>7. c \in TaskRows /\ c.gen = old.gen + 1 /\ c.up = old.up /\ c.then = "end"
  BY <1>5, <1>6, ContextFits
<1>8. old.up \in Uploads
  BY <1>1 DEF Cancel, CancelPermitted, ClientInv, PageFits
<1>9. Launch(Main, p, "delete", c) /\ fenced' = [fenced EXCEPT ![old.up] = p.gen]
  BY <1>1, <1>2, <1>4, <1>6 DEF Cancel
<1>10. PICK d \in TaskRows : /\ d.at = "delete" /\ d.gen = c.gen /\ d.up = c.up
                             /\ d.reply = "none" /\ TasksBecome(d) /\ page' = p
  BY <1>7, <1>9, LaunchGoes, ActionsFit
<1>11. page' = p
  BY <1>10
<1>12. old.gen \in Nat /\ fenced \in [Uploads -> Nat]
  BY <1>1 DEF ClientInv, PageFits, PageRows
<1>13. /\ fenced' \in [Uploads -> Nat]
       /\ \A u \in Uploads : fenced'[u] = fenced[u] \/ fenced'[u] = p.gen
  BY <1>5, <1>8, <1>9, <1>12
<1>14. UNCHANGED <<srv, stored>>
  BY DEF Cancel
<1>15. TaskFits(d) /\ ~Sends(d)
  BY <1>7, <1>8, <1>10 DEF TaskFits, Sends
<1> QED
  BY <1>1, <1>5, <1>7, <1>10, <1>11, <1>12, <1>13, <1>14, <1>15, StoredFits, UserKeeps DEF PageFits

LEMMA ResolveKeeps ==
  ASSUME ClientInv, NEW how \in {"keep", "discard"}, Resolve(how)
  PROVE  ClientInv' /\ NoneSendsAnew
<1>1. PICK old : old = page
  OBVIOUS
<1>2. PICK p : p = Claimed(old, how)
  OBVIOUS
<1>3. PageFits(p) /\ p.gen = old.gen + 1 /\ p.up = old.up /\ p.snap = old.snap
  BY <1>1, <1>2, ClaimedFits DEF ClientInv, Kinds
<1>4. PICK b, c : b = Context(p) /\ c = [b EXCEPT !.then = how]
  OBVIOUS
<1>5. c \in TaskRows /\ c.gen = old.gen + 1 /\ c.up = old.up
  BY <1>3, <1>4, ContextFits DEF TaskRows
<1>6. old.up \in Uploads
  BY <1>1 DEF Resolve, ClientInv, PageFits
<1>7. Launch(Main, p, "resolve", c)
  BY <1>1, <1>2, <1>4 DEF Resolve
<1>8. PICK d \in TaskRows : /\ d.at = "resolve" /\ d.gen = c.gen /\ d.up = c.up
                            /\ d.reply = "none" /\ TasksBecome(d) /\ page' = p
  BY <1>5, <1>7, LaunchGoes, ActionsFit
<1>9. page' = p
  BY <1>8
<1>10. old.gen \in Nat /\ fenced \in [Uploads -> Nat]
  BY <1>1 DEF ClientInv, PageFits, PageRows
<1>11. UNCHANGED <<srv, stored, fenced>>
  BY DEF Resolve
<1>12. TaskFits(d) /\ ~Sends(d)
  BY <1>5, <1>6, <1>8 DEF TaskFits, Sends
<1> QED
  BY <1>1, <1>3, <1>5, <1>8, <1>9, <1>10, <1>11, <1>12, StoredFits, UserKeeps DEF PageFits

LEMMA PlainKeeps ==
  ASSUME ClientInv, NEW p, page' = p, PageFits(p), p.gen \in {page.gen, page.gen + 1},
         stored' \in Uploads \cup {Missing}, UNCHANGED <<srv, task, fenced>>
  PROVE  ClientInv' /\ NoneSendsAnew
<1>1. TasksBecome(Free)
  BY DEF TasksBecome, ClientInv
<1>2. page.gen \in Nat /\ p.gen \in Nat /\ p.gen >= page.gen
  BY DEF ClientInv, PageFits, PageRows
<1> QED
  BY <1>1, <1>2, FreeFits, UserKeeps DEF ClientInv, PageFits

\* The page asks for the status of its upload, now or when a timer fires.
LEMMA LookKeepsPage ==
  ASSUME ClientInv, NEW p, PageFits(p), p.gen \in {page.gen, page.gen + 1},
         NEW c \in TaskRows, c.gen = p.gen, c.up \in Uploads,
         NEW at \in {"look", "timer"}, Launch(Side, p, at, c),
         stored' \in Uploads \cup {Missing}, UNCHANGED <<srv, fenced>>
  PROVE  ClientInv' /\ NoneSendsAnew
<1>1. PICK d \in TaskRows : /\ d.at = at /\ d.gen = c.gen /\ d.up = c.up
                            /\ d.reply = "none" /\ TasksBecome(d) /\ page' = p
  BY LaunchGoes, ActionsFit
<1>2. TaskFits(d) /\ ~Sends(d)
  BY <1>1 DEF TaskFits, Sends
<1>3. page.gen \in Nat /\ p.gen \in Nat /\ p.gen >= page.gen
  BY DEF ClientInv, PageFits, PageRows
<1> QED
  BY <1>1, <1>2, <1>3, UserKeeps DEF ClientInv, PageFits

LEMMA EmptyPageFits ==
  ASSUME NEW gen \in Nat, NEW open \in BOOLEAN, NEW p, p = EmptyPage(gen, open)
  PROVE  p \in PageRows /\ p.gen = gen /\ p.snap = Missing
BY DEF EmptyPage, PageRows, Kinds

LEMMA InvalidatedFits ==
  ASSUME NEW p, PageFits(p), NEW q, q = Invalidated(p)
  PROVE  PageFits(q) /\ q \in PageRows /\ q.gen = p.gen + 1 /\ q.up = p.up /\ q.snap = p.snap
<1>1. p \in PageRows /\ p.gen \in Nat
  BY DEF PageFits, PageRows
<1>2. PICK g : g = p.gen + 1
  OBVIOUS
<1>3. PICK r : r = [p EXCEPT !.gen = g, !.act = 0, !.kind = "none"]
  OBVIOUS
<1>4. r \in PageRows /\ r.gen = g /\ r.up = p.up /\ r.snap = p.snap
  <2>1. "none" \in Kinds /\ g \in Nat
    BY <1>1, <1>2 DEF Kinds
  <2> QED
    BY <1>1, <1>3, <2>1 DEF PageRows
<1>5. PICK s : s = [r EXCEPT !.loop = 0, !.completion = 0, !.paused = FALSE]
  OBVIOUS
<1>6. s \in PageRows /\ s.gen = g /\ s.up = p.up /\ s.snap = p.snap
  BY <1>4, <1>5 DEF PageRows
<1>7. q = [s EXCEPT !.poll = Missing]
  BY <1>2, <1>3, <1>5, Zenon DEF Invalidated
<1>8. PageFits(s)
  BY <1>6 DEF PageFits
<1>9. PageFits(q) /\ q.gen = g /\ q.up = p.up /\ q.snap = p.snap
  BY <1>6, <1>7, <1>8, PollFits
<1> QED
  BY <1>2, <1>9 DEF PageFits

LEMMA RememberedFits ==
  ASSUME NEW s \in Snapshots
  PROVE  Remembered(s) \in Uploads \cup {Missing}
BY DEF Remembered, Snapshots

LEMMA SelectKeeps ==
  ASSUME ClientInv, NEW f \in Files, Select(f)
  PROVE  ClientInv' /\ NoneSendsAnew
<1>1. PICK old, s : old = page /\ s = old.snap
  OBVIOUS
<1>2. /\ PageFits(old) /\ old \in PageRows /\ old.gen \in Nat /\ old.gen + 1 \in Nat
      /\ old.open \in BOOLEAN /\ s \in Snapshots \cup {Missing}
      /\ s # Missing => old.up \in Uploads
  BY <1>1 DEF ClientInv, PageFits, PageRows
<1>3. UNCHANGED <<srv, fenced>>
  BY DEF Select
<1>4. CASE /\ page' = [EmptyPage(old.gen + 1, old.open) EXCEPT !.file = f]
           /\ stored' = Missing /\ UNCHANGED task
  <2>1. PICK e : e = EmptyPage(old.gen + 1, old.open)
    OBVIOUS
  <2>2. PICK p : p = [e EXCEPT !.file = f]
    OBVIOUS
  <2>3. e \in PageRows /\ e.gen = old.gen + 1 /\ e.snap = Missing
    BY <1>2, <2>1, EmptyPageFits
  <2>4. PageFits(p) /\ p.gen = old.gen + 1
    BY <2>2, <2>3 DEF PageFits, PageRows
  <2> QED
    BY <1>1, <1>3, <1>4, <2>1, <2>2, <2>4, PlainKeeps
<1>5. PICK e : e = Invalidated(old)
  OBVIOUS
<1>6. PageFits(e) /\ e \in PageRows /\ e.gen = old.gen + 1 /\ e.up = old.up /\ e.snap = s
  BY <1>1, <1>2, <1>5, InvalidatedFits
<1>7. CASE /\ s # Missing /\ page' = [e EXCEPT !.file = f]
           /\ stored' = Remembered(s) /\ UNCHANGED task
  <2>1. PICK p : p = [e EXCEPT !.file = f]
    OBVIOUS
  <2>2. PageFits(p) /\ p.gen = old.gen + 1
    BY <1>6, <2>1 DEF PageFits, PageRows
  <2>3. stored' \in Uploads \cup {Missing}
    BY <1>2, <1>7, RememberedFits
  <2> QED
    BY <1>1, <1>3, <1>7, <2>1, <2>2, <2>3, PlainKeeps
<1>8. ASSUME s # Missing, UNCHANGED stored,
             NEW p, p = [e EXCEPT !.file = Missing],
             \/ page' = p /\ UNCHANGED task
             \/ \E t \in Side : /\ task[t].at = "free" /\ page' = [p EXCEPT !.poll = t]
                                /\ task' = [task EXCEPT ![t] = Ask(Context(p), "timer")]
      PROVE  ClientInv' /\ NoneSendsAnew
  <2>1. PageFits(p) /\ p.gen = old.gen + 1 /\ p.up = old.up
    BY <1>6, <1>8 DEF PageFits, PageRows
  <2>2. CASE page' = p /\ UNCHANGED task
    BY <1>1, <1>3, <1>8, <2>1, <2>2, StoredFits, PlainKeeps
  <2>3. ASSUME NEW t \in Side, task[t].at = "free", page' = [p EXCEPT !.poll = t],
               task' = [task EXCEPT ![t] = Ask(Context(p), "timer")]
        PROVE  ClientInv' /\ NoneSendsAnew
    <3>1. PICK q, c : q = [p EXCEPT !.poll = t] /\ c = Context(p)
      OBVIOUS
    <3>2. PageFits(q) /\ q.gen = old.gen + 1
      BY <2>1, <3>1, PollFits
    <3>3. c \in TaskRows /\ c.gen = q.gen /\ c.up \in Uploads
      <4>1. c \in TaskRows /\ c.gen = p.gen /\ c.up = p.up
        BY <2>1, <3>1, ContextFits
      <4> QED
        BY <1>2, <1>8, <2>1, <3>2, <4>1
    <3>4. Launch(Side, q, "timer", c)
      BY <2>3, <3>1 DEF Launch
    <3> QED
      BY <1>1, <1>3, <1>8, <3>2, <3>3, <3>4, StoredFits, LookKeepsPage
  <2> QED
    BY <1>8, <2>2, <2>3
<1>9. PICK p : p = [e EXCEPT !.file = Missing]
  OBVIOUS
<1>10. \/ /\ page' = [EmptyPage(old.gen + 1, old.open) EXCEPT !.file = f]
          /\ stored' = Missing /\ UNCHANGED task
       \/ /\ s # Missing /\ page' = [e EXCEPT !.file = f]
          /\ stored' = Remembered(s) /\ UNCHANGED task
       \/ /\ s # Missing /\ UNCHANGED stored
          /\ \/ page' = p /\ UNCHANGED task
             \/ \E t \in Side : /\ task[t].at = "free" /\ page' = [p EXCEPT !.poll = t]
                                /\ task' = [task EXCEPT ![t] = Ask(Context(p), "timer")]
  BY <1>1, <1>5, <1>9 DEF Select, ByteReceiving
<1> QED
  BY <1>4, <1>7, <1>8, <1>9, <1>10

LEMMA PauseKeeps ==
  ASSUME ClientInv, Pause \/ CloseDialog
  PROVE  ClientInv' /\ NoneSendsAnew
<1>1. PICK old : old = page
  OBVIOUS
<1>2. PageFits(old)
  BY <1>1 DEF ClientInv
<1>3. UNCHANGED <<srv, stored, task, fenced>>
  BY DEF Pause, CloseDialog
<1>4. CASE Pause
  <2>1. PICK p : p = [old EXCEPT !.paused = TRUE]
    OBVIOUS
  <2>2. PageFits(p) /\ p.gen = old.gen
    BY <1>2, <2>1 DEF PageFits, PageRows
  <2> QED
    BY <1>1, <1>3, <1>4, <2>1, <2>2, StoredFits, PlainKeeps DEF Pause
<1>5. CASE CloseDialog
  <2>1. PICK p, x : x \in {Missing, old.poll} /\ p = [old EXCEPT !.open = FALSE, !.poll = x]
                    /\ page' = p
    BY <1>1, <1>5 DEF CloseDialog
  <2>2. PageFits(p) /\ p.gen = old.gen
    BY <1>2, <2>1 DEF PageFits, PageRows
  <2> QED
    BY <1>1, <1>3, <2>1, <2>2, StoredFits, PlainKeeps
<1> QED
  BY <1>4, <1>5

LEMMA OpenDialogKeeps ==
  ASSUME ClientInv, OpenDialog
  PROVE  ClientInv' /\ NoneSendsAnew
<1>1. PICK old, p, kept : old = page /\ p = [old EXCEPT !.open = TRUE] /\ kept = stored
  OBVIOUS
<1>2. PageFits(old) /\ old.up \in Uploads \cup {Missing} /\ kept \in Uploads \cup {Missing}
  BY <1>1 DEF ClientInv, PageFits, PageRows
<1>3. PageFits(p) /\ p.gen = old.gen /\ p.up = old.up /\ p.snap = old.snap
  BY <1>1, <1>2 DEF PageFits, PageRows
<1>4. UNCHANGED <<srv, stored, fenced>>
  BY DEF OpenDialog
<1>5. CASE old.up # Missing /\ Launch(Side, p, "look", Context(p))
  <2>1. PICK c : c = Context(p)
    OBVIOUS
  <2>2. c \in TaskRows /\ c.gen = p.gen /\ c.up \in Uploads
    BY <1>2, <1>3, <1>5, <2>1, ContextFits
  <2> QED
    BY <1>1, <1>3, <1>4, <1>5, <2>1, <2>2, StoredFits, LookKeepsPage
<1>6. CASE old.up = Missing /\ kept # Missing /\ RestoreUpload(p)
  <2>1. PICK r : r = Invalidated(p)
    OBVIOUS
  <2>2. PICK q : q = [r EXCEPT !.up = kept]
    OBVIOUS
  <2>3. /\ PageFits(r) /\ r \in PageRows /\ r.gen = old.gen + 1
    BY <1>3, <2>1, InvalidatedFits
  <2>4. PageFits(q) /\ q.gen = old.gen + 1 /\ q.up = kept
    BY <1>2, <1>6, <2>2, <2>3 DEF PageFits, PageRows
  <2>5. PICK b, c : b = Context(q) /\ c = [b EXCEPT !.file = Missing]
    OBVIOUS
  <2>6. c \in TaskRows /\ c.gen = q.gen /\ c.up \in Uploads
    BY <1>2, <1>6, <2>4, <2>5, ContextFits DEF TaskRows
  <2>7. Launch(Side, q, "look", c)
    BY <1>1, <1>6, <2>1, <2>2, <2>5 DEF RestoreUpload
  <2> QED
    BY <1>1, <1>4, <2>4, <2>6, <2>7, StoredFits, LookKeepsPage
<1>7. CASE page' = p /\ UNCHANGED task
  BY <1>1, <1>3, <1>4, <1>7, StoredFits, PlainKeeps
<1> QED
  BY <1>1, <1>5, <1>6, <1>7 DEF OpenDialog

LEMMA ReloadPageKeeps ==
  ASSUME ClientInv, ReloadPage
  PROVE  ClientInv' /\ NoneSendsAnew
<1>1. PICK old, p, kept : /\ old = page /\ p = EmptyPage(old.gen + 1, FALSE)
                          /\ kept = stored'
  OBVIOUS
<1>2. PageFits(old) /\ old.gen \in Nat /\ old.gen + 1 \in Nat /\ old.snap \in Snapshots \cup {Missing}
  BY <1>1 DEF ClientInv, PageFits, PageRows
<1>3. p \in PageRows /\ p.gen = old.gen + 1 /\ p.snap = Missing
  BY <1>1, <1>2, EmptyPageFits
<1>4. kept \in Uploads \cup {Missing}
  <2>1. stored' = stored \/ (old.snap # Missing /\ stored' = Remembered(old.snap))
    BY <1>1 DEF ReloadPage
  <2> QED
    BY <1>1, <1>2, <2>1, RememberedFits DEF ClientInv
<1>5. UNCHANGED <<srv, fenced>>
  BY DEF ReloadPage
<1>6. CASE page' = p /\ UNCHANGED task
  BY <1>1, <1>3, <1>4, <1>5, <1>6, PlainKeeps DEF PageFits
<1>7. ASSUME kept # Missing, NEW q, q = [p EXCEPT !.up = kept],
             Launch(Side, q, "look", Context(q))
      PROVE  ClientInv' /\ NoneSendsAnew
  <2>1. PageFits(q) /\ q.gen = old.gen + 1 /\ q.up = kept
    BY <1>3, <1>4, <1>7 DEF PageFits, PageRows
  <2>2. PICK c : c = Context(q)
    OBVIOUS
  <2>3. c \in TaskRows /\ c.gen = q.gen /\ c.up \in Uploads
    BY <1>4, <1>7, <2>1, <2>2, ContextFits
  <2> QED
    BY <1>1, <1>4, <1>5, <1>7, <2>1, <2>2, <2>3, LookKeepsPage
<1>8. PICK q : q = [p EXCEPT !.up = kept]
  OBVIOUS
<1> QED
  BY <1>1, <1>6, <1>7, <1>8 DEF ReloadPage

-----------------------------------------------------------------------------
(* The whole next-state relation.                                            *)

LEMMA ClientNextKeeps ==
  ClientInv /\ [ClientNext]_clientVars => ClientInv' /\ NoneSendsAnew
<1> SUFFICES ASSUME ClientInv, [ClientNext]_clientVars
             PROVE  ClientInv' /\ NoneSendsAnew
  OBVIOUS
<1>1. ASSUME NEW t \in Coroutines, Handle(t) \/ TimerFires(t) \/ Serve(t) \/ Lose(t)
      PROVE  ClientInv' /\ NoneSendsAnew
  BY <1>1, HandleKeeps, TimerKeeps, ServeKeeps, LoseKeeps
<1>2. ASSUME NEW f \in Files, Select(f)
      PROVE  ClientInv' /\ NoneSendsAnew
  BY <1>2, SelectKeeps
<1>3. CASE Start
  BY <1>3, StartKeeps
<1>4. CASE Pause \/ CloseDialog
  BY <1>4, PauseKeeps
<1>5. CASE Resume
  BY <1>5, ResumeKeeps
<1>6. CASE Cancel
  BY <1>6, CancelKeeps
<1>7. ASSUME NEW how \in {"keep", "discard"}, Resolve(how)
      PROVE  ClientInv' /\ NoneSendsAnew
  BY <1>7, ResolveKeeps
<1>8. CASE OpenDialog
  BY <1>8, OpenDialogKeeps
<1>9. CASE ReloadPage
  BY <1>9, ReloadPageKeeps
<1>10. ASSUME NEW u \in Uploads, Progress(u)
       PROVE  ClientInv' /\ NoneSendsAnew
  BY <1>10, ProgressKeeps
<1>11. CASE UNCHANGED clientVars
  BY <1>11, QuietKeeps DEF clientVars, ClientInv
<1> QED
  BY <1>1, <1>2, <1>3, <1>4, <1>5, <1>6, <1>7, <1>8, <1>9, <1>10, <1>11, Zenon
     DEF ClientNext, Coroutines

LEMMA ClientInitKeeps == ClientInit => ClientInv
<1> SUFFICES ASSUME ClientInit
             PROVE  ClientInv
  OBVIOUS
<1>1. PICK p : p = EmptyPage(1, FALSE)
  OBVIOUS
<1>2. p \in PageRows /\ p.gen = 1 /\ p.snap = Missing
  BY <1>1, EmptyPageFits
<1>3. srv \in [Uploads -> Sessions]
  BY DEF ClientInit, Sessions, SessionStates
<1>4. fenced \in [Uploads -> Nat] /\ \A u \in Uploads : fenced[u] = 0
  BY DEF ClientInit
<1>5. task = [t \in Coroutines |-> Free]
  BY DEF ClientInit, Coroutines
<1>6. page = p /\ stored = Missing
  BY <1>1 DEF ClientInit
<1> QED
  BY <1>2, <1>3, <1>4, <1>5, <1>6, FreeFits DEF ClientInv, PageFits

\* The inductive invariant of the upload cockpit: the generation of a confirmed
\* cancel is never that of a coroutine that sends, or comes to it, and no
\* coroutine is of a generation the page has not reached (app.js, uploadState).
THEOREM ClientInvariant == ClientSpec => []ClientInv
<1>1. ClientInit => ClientInv
  BY ClientInitKeeps
<1>2. ClientInv /\ [ClientNext]_clientVars => ClientInv'
  BY ClientNextKeeps
<1> QED
  BY <1>1, <1>2, PTL DEF ClientSpec

\* Once the user has confirmed a cancel, no handler of app.js sends further
\* bytes or a completion for that upload, whatever answers come late, unless the
\* user asks anew.
THEOREM ClientFencedAfterCancel == ClientSpec => FencedAfterCancel
<1> DEFINE Fenced ==
      \A t \in Main :
        task'[t].at \in {"patch", "complete"} /\ task'[t].at # task[t].at =>
          task'[t].gen > fenced[task'[t].up]
<1>1. ClientInv /\ [ClientNext]_clientVars => [Fenced]_clientVars
  BY ClientNextKeeps, Zenon DEF NoneSendsAnew, Coroutines
<1> QED
  BY <1>1, ClientInvariant, PTL DEF ClientSpec, FencedAfterCancel
=============================================================================
