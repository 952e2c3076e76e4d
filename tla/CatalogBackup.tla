------------------------------ MODULE CatalogBackup ------------------------------
(***************************************************************************)
(* The backups of the catalogue: infrastructure/persistence/               *)
(* catalog_backup.py (bundles), catalog_backup_ops.py (the daily pipeline, *)
(* its status file and the retention), catalog_backup_offdevice.py (the    *)
(* copy to a mounted volume) and catalog_backup_transfer.py with           *)
(* catalog_backup_workstation.py (the snapshot a workstation pulls).       *)
(*                                                                         *)
(* Every operation of the server takes one lock, which the kernel lets go  *)
(* of when the process ends; status.json is replaced as a whole.  A        *)
(* version of the catalogue stands for its bytes and for their digest.     *)
(* The status file's evidence that no operation reads again (a manual      *)
(* verification, the last error code) and the events are left out.         *)
(* The parts of a bundle are linked and unlinked one by one, so that a     *)
(* process that is stopped leaves a bundle in parts.                       *)
(***************************************************************************)
EXTENDS Integers, FiniteSets

CONSTANTS
    None,
    Rotten,         \* bytes a disk has damaged
    MinKeep,        \* MIN_KEEP_AUTO
    KeepAuto,       \* FRAMENEST_CATALOG_BACKUP_KEEP_AUTO
    MaxAttempts,    \* bound: attempts of the daily pipeline
    MaxCopies,      \* bound: attempts of the off-device copy
    MaxPulls,       \* bound: snapshots the workstation asks for
    MaxVersion,     \* bound: versions of the catalogue
    MaxFaults,      \* bound: stops, failing steps, damaged and missing volumes
    MaxBack         \* bound: times the wall clock is set back

ASSUME BackupAssumption ==
    /\ None \notin Nat /\ Rotten \notin Nat /\ None # Rotten
    /\ MinKeep \in Nat \ {0} /\ KeepAuto \in Nat /\ KeepAuto >= MinKeep
    /\ {MaxAttempts, MaxCopies, MaxPulls, MaxVersion, MaxFaults, MaxBack} \subseteq Nat

Pinned == 0                         \* a bundle an operator made, whose name is not auto-...
Automatic == 1..MaxAttempts
Bundles == {Pinned} \cup Automatic
Parts == {"dir", "manifest", "catalog"}
Idle == [kind |-> "none", at |-> "idle", bundle |-> None, seq |-> 0, todo |-> {}]
NoPull == [at |-> "idle", bundle |-> None, bytes |-> None]
NoAttempt == [state |-> "none", seq |-> 0]

VARIABLES
    version,        \* the catalogue database
    clock,          \* the wall clock
    has,            \* the parts of a bundle that are in the backup root
    content,        \* the version a bundle's manifest names
    made,           \* created_at_utc in a bundle's manifest
    damaged,        \* <<place, bundle>>: catalogues whose bytes have changed on their disk
    status,         \* status.json
    op,             \* the operation that holds the lock, and how far it is
    copies,         \* the bytes of the copies on the off-device volume
    snapshots,      \* the bytes of the snapshots in the workstation's store
    pull,           \* the workstation's pull, and how far it is
    mounted,        \* the off-device volume is mounted
    known,          \* how the last attempt ended of which the end was recorded
    proved,         \* bundles a scheduled attempt has restored and recorded
    pulls, faults, back     \* counters of the bounds

disk == <<has, content, made>>
elsewhere == <<copies, snapshots, mounted>>
counters == <<pulls, faults, back>>
vars == <<version, clock, disk, damaged, status, op, pull, elsewhere, known, proved, counters>>

Init ==
    /\ version = 1 /\ clock = 1
    /\ has = [b \in Bundles |-> IF b = Pinned THEN Parts ELSE {}]
    /\ content = [b \in Bundles |-> IF b = Pinned THEN 1 ELSE None]
    /\ made = [b \in Bundles |-> 0]
    /\ damaged = {}
    /\ status = [current |-> None, attempt |-> NoAttempt, seq |-> 0, success |-> None,
                 pending |-> None, ledger |-> {},
                 offAttempt |-> NoAttempt, offSeq |-> 0, offSuccess |-> None]
    /\ op = Idle /\ pull = NoPull
    /\ copies = [b \in Bundles |-> None] /\ snapshots = [b \in Bundles |-> None]
    /\ mounted = TRUE
    /\ known = "none" /\ proved = {}
    /\ pulls = 0 /\ faults = 0 /\ back = 0

Attempts == [state : {"none", "running", "failed", "succeeded"}, seq : Nat]
StatusFiles ==
    [current : {None, "run-scheduled", "verify-restore", "run-offdevice"},
     attempt : Attempts, seq : Nat,
     success : [bundle : Automatic, seq : Nat, content : Nat] \cup {None},
     pending : Bundles \cup {None}, ledger : SUBSET Automatic,
     offAttempt : Attempts, offSeq : Nat,
     offSuccess : [bundle : Automatic, seq : Nat] \cup {None}]
Operations ==
    [kind : {"none", "run-scheduled", "expire", "verify-restore", "run-offdevice", "export"},
     at : {"idle", "snapshot", "publish", "restore", "record", "plan", "expire", "delete",
           "unledger", "select", "copy", "stream", "reselect"},
     bundle : Bundles \cup {None}, seq : Nat, todo : SUBSET Automatic]
Stored == [Bundles -> Nat \cup {None, Rotten}]

\* INVARIANT of types: the bundles, the status file, the operation that holds the lock and
\* what has left the server.
TypeOK ==
    /\ version \in Nat /\ clock \in Nat
    /\ has \in [Bundles -> SUBSET Parts]
    /\ content \in [Bundles -> Nat \cup {None}] /\ made \in [Bundles -> Nat]
    /\ damaged \in SUBSET ({"server", "volume", "workstation"} \X Bundles)
    /\ status \in StatusFiles /\ op \in Operations
    /\ copies \in Stored /\ snapshots \in Stored /\ mounted \in BOOLEAN
    /\ pull \in [at : {"idle", "receiving", "eof", "staged"}, bundle : Automatic \cup {None},
                  bytes : Nat \cup {None, Rotten}]
    /\ known \in {"none", "failed", "proved"} /\ proved \in SUBSET Automatic
    /\ pulls \in Nat /\ faults \in Nat /\ back \in Nat

(***************************************************************************)
(* Bundles.                                                                *)
(***************************************************************************)
\* verify_catalog_backup: both files and nothing else, and the bytes the manifest names.
Whole(b) == has[b] = Parts /\ <<"server", b>> \notin damaged
Rot(place, b) == <<place, b>> \in damaged
CopyWhole(b) == copies[b] = content[b] /\ ~Rot("volume", b)
SnapshotWhole(b) == snapshots[b] = content[b] /\ ~Rot("workstation", b)

\* list_bundle_summaries: damaged bundles and bundles in parts are listed, and are not eligible.
LooksComplete(b) == has[b] = Parts
VerificationEligible(b) == Whole(b)
Newer(a, b) == made[a] > made[b] \/ (made[a] = made[b] /\ a > b)
AutomaticVerified == {b \in status.ledger \cap Automatic : VerificationEligible(b)}

\* build_retention_plan: the bundles past the keep_auto newest.  keep_auto is never below the
\* floor, so that the newest and the floor are among those.
Plan == {b \in AutomaticVerified :
            Cardinality({a \in AutomaticVerified : Newer(a, b)}) >= KeepAuto}
Newest(S) == CHOOSE b \in S : \A a \in S \ {b} : Newer(b, a)

\* derive_restore_readiness, of a success that is not 48 hours old.
AttemptAfterSuccess == status.attempt.seq > status.success.seq
Readiness ==
    IF status.current # None \/ op # Idle THEN "busy"
    ELSE IF status.success = None
         THEN IF status.attempt.state = "failed" THEN "failed" ELSE "never_verified"
    ELSE IF status.attempt.state = "failed" /\ AttemptAfterSuccess THEN "failed"
    ELSE "ready"

\* derive_offdevice_readiness, with the health of the volume.
OffdeviceReadiness ==
    IF status.current # None \/ op # Idle THEN "busy"
    ELSE IF ~mounted THEN "unavailable"
    ELSE IF status.offSuccess = None
         THEN IF status.offAttempt.state = "failed" THEN "failed" ELSE "never_verified"
    ELSE IF status.offAttempt.state = "failed" /\ status.offAttempt.seq > status.offSuccess.seq
         THEN "failed"
    ELSE "ready"

Maximum(S) == CHOOSE n \in S : \A k \in S : k <= n
AttemptOf(success) == IF success = None THEN 0 ELSE success.seq

(***************************************************************************)
(* The daily pipeline.                                                     *)
(***************************************************************************)
LedgeredPlusOne == Cardinality(status.ledger) + 1
AllocateScheduledSeq ==
    Maximum({status.seq, status.attempt.seq, AttemptOf(status.success)}) + 1

\* The random part of the name keeps an automatic bundle from having the name of another.
FreshName == CHOOSE b \in Automatic : content[b] = None

\* operation_lock: not blocking, and free again when the process ends.
LockIsFree == op = Idle

\* run_scheduled_catalog_backup, with the lock: a second operation is told BACKUP_OPS_BUSY
\* and changes nothing.
StartScheduled ==
    /\ LockIsFree
    /\ AllocateScheduledSeq <= MaxAttempts /\ \E b \in Automatic : content[b] = None
    /\ status' = [status EXCEPT !.seq = AllocateScheduledSeq, !.current = "run-scheduled",
                      !.attempt = [state |-> "running", seq |-> AllocateScheduledSeq]]
    /\ op' = [Idle EXCEPT !.kind = "run-scheduled", !.at = "snapshot",
                          !.bundle = FreshName, !.seq = AllocateScheduledSeq]
    /\ UNCHANGED <<version, clock, disk, damaged, pull, elsewhere, known, counters, proved>>

\* create_catalog_backup: the online snapshot and its manifest, in a temporary bundle.
Snapshot ==
    /\ op.at = "snapshot"
    /\ clock' = clock + 1
    /\ content' = [content EXCEPT ![op.bundle] = version]
    /\ made' = [made EXCEPT ![op.bundle] = clock]
    /\ op' = [op EXCEPT !.at = "publish"]
    /\ UNCHANGED <<version, has, damaged, status, pull, elsewhere, known, counters, proved>>

\* _publish_bundle_no_replace: the directory, a link to the manifest, a link to the catalogue.
NextPart(b) ==
    IF "dir" \notin has[b] THEN "dir"
    ELSE IF "manifest" \notin has[b] THEN "manifest" ELSE "catalog"
PublishPart ==
    /\ op.at = "publish"
    /\ has' = [has EXCEPT ![op.bundle] = @ \cup {NextPart(op.bundle)}]
    /\ op' = [op EXCEPT !.at = IF NextPart(op.bundle) = "catalog" THEN "restore" ELSE "publish"]
    /\ UNCHANGED <<version, clock, content, made, damaged, status, pull, elsewhere, known, counters, proved>>

\* _record_scheduled_failure, under the number of the attempt.
ScheduledFailure ==
    [status EXCEPT !.attempt = [state |-> "failed", seq |-> op.seq],
                   !.seq = Maximum({status.seq, op.seq}), !.current = None]
\* _record_offdevice_failure
OffdeviceFailure ==
    [status EXCEPT !.offAttempt = [state |-> "failed", seq |-> op.seq],
                   !.offSeq = Maximum({status.offSeq, op.seq}), !.current = None]
\* What the operation that holds the lock records when a step of it has failed.
FailedStatus ==
    CASE op.kind = "run-scheduled" -> ScheduledFailure
      [] op.kind = "run-offdevice" -> OffdeviceFailure
      [] op.kind = "verify-restore" -> [status EXCEPT !.current = None]
      [] OTHER -> status            \* expire keeps only the error's code; the export writes nothing
\* The attempt failed before it had proved its bundle.
KnownFailure == op.kind = "run-scheduled" /\ op.at \in {"snapshot", "publish", "restore", "record"}

GiveUp ==
    /\ status' = FailedStatus
    /\ known' = IF KnownFailure THEN "failed" ELSE known
    /\ op' = Idle

\* A step of the server fails: no space, a file that cannot be linked, read or unlinked.  A
\* publication that fails takes away the bundle it has made.
StepFails ==
    /\ op # Idle /\ op.kind # "export" /\ faults < MaxFaults
    /\ faults' = faults + 1
    /\ GiveUp
    /\ has' = IF op.at = "publish" THEN [has EXCEPT ![op.bundle] = {}] ELSE has
    /\ UNCHANGED <<version, clock, content, made, damaged, pull, elsewhere, pulls, back, proved>>

\* _restore_and_semantic, after the verification of the bundle it restores: the restored
\* database is verified and unlinked again, or stays behind when it cannot be unlinked.
Restorable == IF op.kind = "run-offdevice" THEN mounted /\ CopyWhole(op.bundle) ELSE Whole(op.bundle)
RestoreAndSemantic ==
    /\ op.at = "restore"
    /\ IF Restorable
       THEN op' = [op EXCEPT !.at = "record"] /\ UNCHANGED <<status, known>>
       ELSE GiveUp
    /\ UNCHANGED <<version, clock, disk, damaged, pull, elsewhere, counters, proved>>

\* The disposable database could not be unlinked.
Left(left) == left => faults < MaxFaults
PendingCleanup(left) == IF left THEN op.bundle ELSE None

\* One write of the status file: the attempt, the success and the entry of the ledger.
RecordScheduledSuccess(left) ==
    /\ op.at = "record" /\ op.kind = "run-scheduled" /\ Left(left)
    /\ faults' = IF left THEN faults + 1 ELSE faults
    /\ status' = [status EXCEPT
           !.attempt = [state |-> "succeeded", seq |-> op.seq], !.seq = op.seq,
           !.success = [bundle |-> op.bundle, seq |-> op.seq, content |-> content[op.bundle]],
           !.pending = PendingCleanup(left), !.ledger = @ \cup {op.bundle}]
    /\ known' = "proved" /\ proved' = proved \cup {op.bundle}
    /\ op' = [op EXCEPT !.at = "plan"]
    /\ UNCHANGED <<version, clock, disk, damaged, pull, elsewhere, pulls, back>>

(***************************************************************************)
(* Retention, after a success of the pipeline and as an operation of its   *)
(* own.                                                                    *)
(***************************************************************************)
\* expire_automatic_backups with apply; without it, it changes nothing.
StartExpire ==
    /\ LockIsFree
    /\ op' = [Idle EXCEPT !.kind = "expire", !.at = "plan"]
    /\ UNCHANGED <<version, clock, disk, damaged, status, pull, elsewhere, known, counters, proved>>

BuildRetentionPlan ==
    /\ op.at = "plan"
    /\ op' = [op EXCEPT !.at = "expire", !.todo = Plan]
    /\ UNCHANGED <<version, clock, disk, damaged, status, pull, elsewhere, known, counters, proved>>

\* The plan is made again before every deletion.
StillPlanned(b) == b \in Plan
\* _delete_eligible_bundle: the manifest, the catalogue, the directory.
DeletedPart(b) ==
    IF "manifest" \in has[b] THEN "manifest" ELSE IF "catalog" \in has[b] THEN "catalog" ELSE "dir"
RevalidateAndDelete ==
    /\ op.at = "expire" /\ op.todo # {}
    /\ LET b == Newest(op.todo) IN
       IF StillPlanned(b)
       THEN /\ has' = [has EXCEPT ![b] = @ \ {DeletedPart(b)}]
            /\ op' = [op EXCEPT !.at = "delete", !.bundle = b]
       ELSE op' = [op EXCEPT !.todo = @ \ {b}] /\ UNCHANGED has
    /\ UNCHANGED <<version, clock, content, made, damaged, status, pull, elsewhere, known, counters, proved>>
DeletePart ==
    /\ op.at = "delete"
    /\ has' = [has EXCEPT ![op.bundle] = @ \ {DeletedPart(op.bundle)}]
    /\ op' = [op EXCEPT !.at = IF has'[op.bundle] = {} THEN "unledger" ELSE "delete"]
    /\ UNCHANGED <<version, clock, content, made, damaged, status, pull, elsewhere, known, counters, proved>>
RemoveLedgerEntry ==
    /\ op.at = "unledger"
    /\ status' = [status EXCEPT !.ledger = @ \ {op.bundle}]
    /\ op' = [op EXCEPT !.at = "expire", !.todo = @ \ {op.bundle}]
    /\ UNCHANGED <<version, clock, disk, damaged, pull, elsewhere, known, counters, proved>>
FinishRetention ==
    /\ op.at = "expire" /\ op.todo = {}
    /\ status' = IF op.kind = "run-scheduled" THEN [status EXCEPT !.current = None] ELSE status
    /\ op' = Idle
    /\ UNCHANGED <<version, clock, disk, damaged, pull, elsewhere, known, counters, proved>>

(***************************************************************************)
(* An operator verifies one bundle by restoring it.                        *)
(***************************************************************************)
StartVerifyRestore(b) ==
    /\ LockIsFree /\ "dir" \in has[b]
    /\ status' = [status EXCEPT !.current = "verify-restore"]
    /\ op' = [Idle EXCEPT !.kind = "verify-restore", !.at = "restore", !.bundle = b]
    /\ UNCHANGED <<version, clock, disk, damaged, pull, elsewhere, known, counters, proved>>
RecordManualVerification(left) ==
    /\ op.at = "record" /\ op.kind = "verify-restore" /\ Left(left)
    /\ faults' = IF left THEN faults + 1 ELSE faults
    /\ status' = [status EXCEPT !.current = None,
                      !.pending = IF left \/ @ = op.bundle THEN PendingCleanup(left) ELSE @]
    /\ op' = Idle
    /\ UNCHANGED <<version, clock, disk, damaged, pull, elsewhere, known, pulls, back, proved>>

(***************************************************************************)
(* The recovery point that leaves the server.                              *)
(***************************************************************************)
\* select_latest_successful_scheduled_recovery_point
Selectable ==
    /\ status.success # None
    /\ LET b == status.success.bundle IN
       b \in status.ledger /\ Whole(b) /\ content[b] = status.success.content

AllocateOffdeviceSeq ==
    Maximum({status.offSeq, status.offAttempt.seq, AttemptOf(status.offSuccess)}) + 1
StartOffdevice ==
    /\ LockIsFree /\ AllocateOffdeviceSeq <= MaxCopies
    /\ status' = [status EXCEPT !.current = "run-offdevice",
                      !.offAttempt = [state |-> "running", seq |-> AllocateOffdeviceSeq]]
    /\ op' = [Idle EXCEPT !.kind = "run-offdevice", !.at = "select", !.seq = AllocateOffdeviceSeq]
    /\ UNCHANGED <<version, clock, disk, damaged, pull, elsewhere, known, counters, proved>>
SelectForCopy ==
    /\ op.at = "select"
    /\ IF Selectable /\ mounted
       THEN op' = [op EXCEPT !.at = "copy", !.bundle = status.success.bundle] /\ UNCHANGED <<status, known>>
       ELSE GiveUp
    /\ UNCHANGED <<version, clock, disk, damaged, pull, elsewhere, counters, proved>>
\* _copy_regular_file compares what it has copied with the identity that was selected.
CopiesAnything(b) == has[b] = Parts
CopiesExactly(b) == Whole(b)
\* publish_or_reuse_offdevice_bundle: an exact copy is used again, any other is a conflict; a
\* new one is staged, and renamed without replacing.
PublishOrReuse ==
    /\ op.at = "copy"
    /\ LET b == op.bundle
           bytes == IF Rot("server", b) THEN Rotten ELSE content[b]
       IN IF mounted /\ (IF copies[b] # None THEN CopyWhole(b) ELSE CopiesExactly(b))
          THEN /\ copies' = [copies EXCEPT ![b] = IF @ = None THEN bytes ELSE @]
               /\ op' = [op EXCEPT !.at = "restore"]
               /\ UNCHANGED <<status, known>>
          ELSE GiveUp /\ UNCHANGED copies
    /\ UNCHANGED <<version, clock, disk, damaged, pull, snapshots, mounted, counters, proved>>
RecordOffdeviceSuccess ==
    /\ op.at = "record" /\ op.kind = "run-offdevice"
    /\ status' = [status EXCEPT
           !.offAttempt = [state |-> "succeeded", seq |-> op.seq], !.offSeq = op.seq,
           !.offSuccess = [bundle |-> op.bundle, seq |-> op.seq], !.current = None]
    /\ op' = Idle
    /\ UNCHANGED <<version, clock, disk, damaged, pull, elsewhere, known, counters, proved>>

\* The workstation runs the export over ssh: the server takes the lock, selects, and sends the
\* header.
StartPull ==
    /\ pull = NoPull /\ pulls < MaxPulls /\ LockIsFree /\ Selectable
    /\ pulls' = pulls + 1
    /\ op' = [Idle EXCEPT !.kind = "export", !.at = "stream", !.bundle = status.success.bundle]
    /\ pull' = [NoPull EXCEPT !.at = "receiving", !.bundle = status.success.bundle]
    /\ UNCHANGED <<version, clock, disk, damaged, status, elsewhere, known, faults, back, proved>>
\* receive_file_bytes: both ends compute the digest of what passes.
ReceivedExactly(bytes) == bytes = content[pull.bundle]
Stream ==
    /\ op.at = "stream" /\ pull.at = "receiving"
    /\ LET bytes == IF Rot("server", op.bundle) THEN Rotten ELSE content[op.bundle] IN
       IF ReceivedExactly(bytes)
       THEN op' = [op EXCEPT !.at = "reselect"] /\ pull' = [pull EXCEPT !.at = "eof", !.bytes = bytes]
       ELSE op' = Idle /\ pull' = NoPull
    /\ UNCHANGED <<version, clock, disk, damaged, status, elsewhere, known, counters, proved>>
\* The server selects again; the exit code of ssh tells the workstation.
EndExport ==
    /\ op.at = "reselect"
    /\ op' = Idle
    /\ pull' = IF Selectable /\ status.success.bundle = op.bundle
               THEN [pull EXCEPT !.at = "staged"] ELSE NoPull
    /\ UNCHANGED <<version, clock, disk, damaged, status, elsewhere, known, counters, proved>>
\* The staged bundle is verified and restored; a final directory of this name is verified and
\* used again, and is never replaced.
PublishSnapshot ==
    /\ pull.at = "staged"
    /\ snapshots' = [snapshots EXCEPT ![pull.bundle] = IF @ = None THEN pull.bytes ELSE @]
    /\ pull' = NoPull
    /\ UNCHANGED <<version, clock, disk, damaged, status, op, copies, mounted, known, counters, proved>>

(***************************************************************************)
(* Around the server.                                                      *)
(***************************************************************************)
WriteCatalogue ==
    /\ version < MaxVersion
    /\ version' = version + 1
    /\ UNCHANGED <<clock, disk, damaged, status, op, pull, elsewhere, known, counters, proved>>
SetClockBack ==
    /\ back < MaxBack /\ faults < MaxFaults /\ clock > 1
    /\ back' = back + 1 /\ faults' = faults + 1
    /\ clock' = 1
    /\ UNCHANGED <<version, disk, damaged, status, op, pull, elsewhere, known, pulls, proved>>

\* The process that holds the lock is killed: the lock is free, the status file says what it
\* said.  The workstation sees the end of the stream and gives up.
Killed ==
    /\ op # Idle /\ faults < MaxFaults
    /\ faults' = faults + 1
    /\ op' = Idle
    /\ pull' = IF op.kind = "export" THEN NoPull ELSE pull
    /\ UNCHANGED <<version, clock, disk, damaged, status, elsewhere, known, pulls, back, proved>>
\* The pull is killed, or ends at its deadline: the export fails at the broken pipe.
PullEnds ==
    /\ pull # NoPull /\ faults < MaxFaults
    /\ faults' = faults + 1
    /\ pull' = NoPull
    /\ op' = IF op.kind = "export" THEN Idle ELSE op
    /\ UNCHANGED <<version, clock, disk, damaged, status, elsewhere, known, pulls, back, proved>>
Damage(place, b) ==
    /\ faults < MaxFaults /\ ~Rot(place, b)
    /\ CASE place = "server" -> "catalog" \in has[b]
         [] place = "volume" -> copies[b] # None
         [] place = "workstation" -> snapshots[b] # None
    /\ faults' = faults + 1
    /\ damaged' = damaged \cup {<<place, b>>}
    /\ UNCHANGED <<version, clock, disk, status, op, pull, elsewhere, known, pulls, back, proved>>
Unmount ==
    /\ mounted /\ faults < MaxFaults
    /\ faults' = faults + 1
    /\ mounted' = FALSE
    /\ UNCHANGED <<version, clock, disk, damaged, status, op, pull, copies, snapshots, known, pulls, back, proved>>
Mount ==
    /\ ~mounted
    /\ mounted' = TRUE
    /\ UNCHANGED <<version, clock, disk, damaged, status, op, pull, copies, snapshots, known, counters, proved>>

Pipeline == StartScheduled \/ Snapshot \/ PublishPart \/ RestoreAndSemantic
            \/ (\E left \in BOOLEAN : RecordScheduledSuccess(left)) \/ StepFails
Retention == StartExpire \/ BuildRetentionPlan \/ RevalidateAndDelete \/ DeletePart
             \/ RemoveLedgerEntry \/ FinishRetention
Verification == (\E b \in Bundles : StartVerifyRestore(b))
                \/ (\E left \in BOOLEAN : RecordManualVerification(left))
Copying == StartOffdevice \/ SelectForCopy \/ PublishOrReuse \/ RecordOffdeviceSuccess
Pulling == StartPull \/ Stream \/ EndExport \/ PublishSnapshot
Surroundings ==
    \/ WriteCatalogue \/ SetClockBack \/ Killed \/ PullEnds \/ Unmount \/ Mount
    \/ \E place \in {"server", "volume", "workstation"}, b \in Bundles : Damage(place, b)

Next == Pipeline \/ Retention \/ Verification \/ Copying \/ Pulling \/ Surroundings
Spec == Init /\ [][Next]_vars

(***************************************************************************)
(* Properties.                                                             *)
(***************************************************************************)

\* A retention that begins to delete a bundle leaves MIN_KEEP_AUTO others in the ledger that can
\* be restored, whatever was damaged, stopped or deleted in part before; a bundle an operator
\* made is never deleted.
Restorables == {b \in status.ledger \cap Automatic : Whole(b)}
FloorIsKept ==
    [][/\ \A b \in status.ledger :
             "manifest" \in has[b] /\ "manifest" \notin has'[b] => Cardinality(Restorables') >= MinKeep
       /\ has'[Pinned] = Parts]_vars

\* Ready is never said over a failure: of the daily attempts whose end was recorded the last one
\* had restored its bundle, unless a later attempt was cut off, which the status shows as still
\* running and which hides the failure before it.
ReadinessIsHonest ==
    Readiness = "ready" => known = "proved" \/ status.attempt.state = "running"

\* What is on the volume or in the workstation's store, under a name that can be listed, is a
\* bundle that a daily attempt has restored, byte for byte, unless that disk has damaged it; and
\* a volume that is said to be ready has the copy.
CopiesAreProved ==
    /\ \A b \in Bundles :
          /\ copies[b] # None => b \in proved /\ (CopyWhole(b) \/ Rot("volume", b))
          /\ snapshots[b] # None => b \in proved /\ (SnapshotWhole(b) \/ Rot("workstation", b))
    /\ OffdeviceReadiness = "ready" => copies[status.offSuccess.bundle] # None
=================================================================================
