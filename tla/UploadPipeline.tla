---------------------------- MODULE UploadPipeline -----------------------------
(* Uploads from the moment their bytes are complete to the media catalogue: the *)
(* validation, publication and catalog coordinators (application/upload_*_      *)
(* coordinator.py), the services they call, the rows they commit and the files  *)
(* they move from quarantine into the published library.                        *)
(*                                                                              *)
(* Each coordinator is one consumer: a wake event starts a pass, a pass takes a *)
(* page of candidates from the database and handles them one by one, each under *)
(* the lock of its session (UploadSessionLock).  Services run on executor       *)
(* threads, so the three coordinators and the clients' requests interleave, and *)
(* the process may stop between any two effects.                                *)
EXTENDS Naturals, FiniteSets

CONSTANTS
    Sessions,   \* upload session identities
    None,       \* no session
    Values,     \* byte contents (what the byte identity distinguishes)
    Content,    \* session -> the bytes its client sent
    Silent,     \* sessions whose duplicates are kept without asking the client
    Faults      \* what may go wrong: steps that raise, the process that stops,
                \* power losses, quarantine files that somebody else damages

ASSUME PipelineAssumption ==
    /\ None \notin Sessions
    /\ Silent \subseteq Sessions
    /\ Faults \subseteq {"error", "stop", "power", "damage"}
    /\ Content \in [Sessions -> Values]

VARIABLES
    upload,       \* session -> its upload_sessions row: state and disposition
    publication,  \* session -> its upload_publications row: state, cleanup, media
    staged,       \* session -> its file in quarantine: whole, damaged or gone
    target,       \* session -> what the published root holds: the destination
                  \* inode's data, its temporary name, its final name
    worker,       \* coordinator -> step, leased session, rest of the page, whether
                  \* something of this pass has to be tried again
    wake,         \* the coordinators whose wake event is set
    startup,      \* validation has not finished its first pass since the start
    adopted,      \* history: sessions whose target was found in place and taken
                  \* over before its directory entry was durable
    calm          \* history: no fault and no stop from here on

vars == <<upload, publication, staged, target, worker, wake, startup, adopted, calm>>

Workers == {"validation", "publication", "catalog"}

States == {"receiving", "received", "validating", "duplicate_pending",
           "publish_pending", "published", "cataloged", "rejected", "cancelled",
           "expired", "failed"}

\* The states in which a session counts as the canonical holder of its bytes.
Canonical == {"publish_pending", "published", "cataloged"}

Steps == {"scanning", "examining", "recording", "reserving", "looking", "opening",
          "copying", "flushing", "linking", "confirming", "unlinking",
          "committing", "cleaning", "marking", "cataloging"}

Uploads ==
    [state : States, disposition : {"none", "keep_separate", "discard"}]
\* The rows that the constraint ck_upload_publications_progress admits, or none.
Publications ==
    {p \in [state : {"none", "reserved", "verified"}, cleanup : {"none", "pending", "complete"},
            media : BOOLEAN] :
        /\ (p.cleanup = "none") = (p.state = "none")
        /\ p.cleanup = "complete" \/ p.media => p.state = "verified"}
Targets ==
    [data : {"none", "partial", "written", "synced"}, temporary : BOOLEAN,
     final : {"absent", "volatile", "durable"}]

Unpublished == [state |-> "none", cleanup |-> "none", media |-> FALSE]
Untouched == [data |-> "none", temporary |-> FALSE, final |-> "absent"]
Resting == [pc |-> "scanning", on |-> None, page |-> {}, retry |-> FALSE]

\* A fault of this kind may happen now.
May(fault) == fault \in Faults /\ ~calm

\* Nobody holds the session's lock.
Free(s) == \A w \in Workers : worker[w].on # s

--------------------------------------------------------------------------------
Init ==
    /\ upload = [s \in Sessions |-> [state |-> "receiving", disposition |-> "none"]]
    /\ publication = [s \in Sessions |-> Unpublished]
    /\ staged = [s \in Sessions |-> "whole"]
    /\ target = [s \in Sessions |-> Untouched]
    /\ worker = [w \in Workers |-> Resting]
    /\ wake = Workers
    /\ startup = TRUE
    /\ adopted = {}
    /\ calm = FALSE

SetState(s, state) == upload' = [upload EXCEPT ![s].state = state]

--------------------------------------------------------------------------------
(* Requests of clients.  Each holds the session's lock and runs on the event    *)
(* loop without awaiting anything, so it is one step; a stop or an I/O error    *)
(* may keep it from the file removal that follows its commit.                   *)

Requested == UNCHANGED <<publication, target, worker, startup, adopted, calm>>

\* remove(): the file is gone, or its removal did not happen this time.
MayRemove(s) ==
    \/ staged' = [staged EXCEPT ![s] = "gone"]
    \/ (May("error") \/ May("stop")) /\ UNCHANGED staged

\* Mutant: an upload is received and nobody is told.
CompleteSilently(s) ==
    /\ Free(s)
    /\ upload[s].state \in {"receiving", "received"}
    /\ SetState(s, IF staged[s] = "whole" THEN "received" ELSE "failed")
    /\ UNCHANGED <<staged, wake>>
    /\ Requested

(* POST complete, again if the client likes: the staged file is compared with   *)
(* the declared size, and the validation coordinator is notified.               *)
Complete(s) ==
    /\ Free(s)
    /\ upload[s].state \in {"receiving", "received"}
    /\ IF staged[s] = "whole"
       THEN SetState(s, "received") /\ wake' = wake \cup {"validation"}
       ELSE SetState(s, "failed") /\ UNCHANGED wake
    /\ UNCHANGED staged
    /\ Requested

(* PATCH or complete after expires_at_ms: _expire_if_needed, where the          *)
(* transition table still allows it.                                            *)
Expire(s) ==
    /\ Free(s)
    /\ upload[s].state \in {"receiving", "received", "duplicate_pending"}
    /\ SetState(s, "expired")
    /\ UNCHANGED <<staged, wake>>
    /\ Requested

\* Mutant: an upload on its way to the library can still be cancelled.
CancelPublishing(s) ==
    /\ Free(s)
    /\ upload[s].state \in {"receiving", "received", "duplicate_pending", "publish_pending",
                          "cancelled"}
    /\ SetState(s, "cancelled")
    /\ MayRemove(s)
    /\ UNCHANGED wake
    /\ Requested

(* DELETE: the transition, then the file; on a cancelled session the file alone. *)
Cancel(s) ==
    /\ Free(s)
    /\ upload[s].state \in {"receiving", "received", "duplicate_pending", "cancelled"}
    /\ SetState(s, "cancelled")
    /\ MayRemove(s)
    /\ UNCHANGED wake
    /\ Requested

(* resolve_duplicate(KEEP_SEPARATE), which also wakes the publication           *)
(* coordinator; a second request only does that.                                *)
KeepSeparate(s) ==
    /\ Free(s)
    /\ s \notin Silent
    /\ \/ upload[s].state = "duplicate_pending"
       \/ upload[s].state = "publish_pending" /\ upload[s].disposition = "keep_separate"
    /\ upload' = [upload EXCEPT ![s].state = "publish_pending",
                                ![s].disposition = "keep_separate"]
    /\ wake' = wake \cup {"publication"}
    /\ UNCHANGED staged
    /\ Requested

(* resolve_duplicate(DISCARD): the disposition, then the file; a second request *)
(* tries the file again.                                                        *)
Discard(s) ==
    /\ Free(s)
    /\ s \notin Silent
    /\ \/ upload[s].state = "duplicate_pending"
       \/ upload[s].state = "cancelled" /\ upload[s].disposition = "discard"
    /\ upload' = [upload EXCEPT ![s].state = "cancelled", ![s].disposition = "discard"]
    /\ MayRemove(s)
    /\ UNCHANGED wake
    /\ Requested

--------------------------------------------------------------------------------
(* Coordinators.  A pass ends when its page is empty; the next one starts when  *)
(* the wake event is set or something has to be retried.                        *)

ValidationDue(s) ==
    upload[s].state = "received" \/ (startup /\ upload[s].state = "validating")

PublicationDue(s) ==
    \/ upload[s].state = "publish_pending"
    \/ upload[s].state = "published" /\ publication[s].cleanup = "pending"

\* Mutant: a published upload is catalogued before its source is cleaned up.
CatalogDueEarly(s) == upload[s].state = "published" /\ ~publication[s].media

CatalogDue(s) ==
    /\ upload[s].state = "published"
    /\ publication[s].cleanup = "complete"
    /\ ~publication[s].media

Eligible(w) ==
    {s \in Sessions :
        \/ w = "validation" /\ ValidationDue(s)
        \/ w = "publication" /\ PublicationDue(s)
        \/ w = "catalog" /\ CatalogDue(s)}

Quiet(w) == worker[w].on = None /\ worker[w].page = {}

(* The event is cleared first and the candidates are listed next, so what       *)
(* becomes eligible later finds the event set again.  Only the first pass of    *)
(* validation after a start lists validating rows.                              *)
StartPass(w) ==
    /\ Quiet(w)
    /\ w \in wake \/ worker[w].retry
    /\ worker' = [worker EXCEPT ![w].page = Eligible(w), ![w].retry = FALSE]
    /\ wake' = wake \ {w}
    /\ startup' = (startup /\ w # "validation")
    /\ UNCHANGED <<upload, publication, staged, target, adopted, calm>>

(* The list query fails: the pass is repeated after a delay.                    *)
DiscoveryFails(w) ==
    /\ May("error")
    /\ Quiet(w)
    /\ w \in wake \/ worker[w].retry
    /\ worker' = [worker EXCEPT ![w].retry = TRUE]
    /\ wake' = wake \ {w}
    /\ UNCHANGED <<upload, publication, staged, target, startup, adopted, calm>>

--------------------------------------------------------------------------------
(* One candidate: the lease, the service's steps, the release.                  *)

Goto(w, step) == worker' = [worker EXCEPT ![w].pc = step]

\* The lease ends; what is left of the page comes next.
Done(w) == worker' = [worker EXCEPT ![w].pc = "scanning", ![w].on = None]

Takes(w, s, step) ==
    worker' = [worker EXCEPT ![w].pc = step, ![w].on = s, ![w].page = @ \ {s}]

Drops(w, s) == worker' = [worker EXCEPT ![w].page = @ \ {s}]

At(w, s, step) == worker[w].on = s /\ worker[w].pc = step

\* The lock is granted for a member of the page, after which the row is read.
Leases(w, s) ==
    /\ worker[w].on = None
    /\ s \in worker[w].page
    /\ Free(s)
    /\ UNCHANGED <<publication, staged, target, startup, adopted, calm>>

\* Mutant: the state listed with the page is trusted under the lock.
LeaseStale(s) ==
    /\ Leases("validation", s)
    /\ UNCHANGED wake
    /\ SetState(s, "validating")
    /\ Takes("validation", s, "examining")

(* validate_owned_blocking claims a received session; at startup                *)
(* recover_abandoned_validating_owned_blocking goes on with one that was being  *)
(* validated when the process stopped.  Any other state ends the attempt.       *)
LeaseValidation(s) ==
    /\ Leases("validation", s)
    /\ UNCHANGED wake
    /\ IF upload[s].state \in {"received", "validating"}
       THEN SetState(s, "validating") /\ Takes("validation", s, "examining")
       ELSE UNCHANGED upload /\ Drops("validation", s)

(* start_validation fails: the session stays received and no retry is planned.  *)
ClaimFails(s) ==
    /\ May("error")
    /\ Leases("validation", s)
    /\ upload[s].state = "received"
    /\ Drops("validation", s)
    /\ UNCHANGED <<upload, wake>>

ValidationOnly == UNCHANGED <<publication, staged, target, startup, adopted, calm>>

(* The file is hashed, recognised, and hashed again, unchanged throughout.      *)
Examine(s) ==
    /\ At("validation", s, "examining")
    /\ staged[s] = "whole"
    /\ Goto("validation", "recording")
    /\ UNCHANGED <<upload, wake>>
    /\ ValidationOnly

(* The validator rejects the bytes, which stay in quarantine.                   *)
Reject(s) ==
    /\ At("validation", s, "examining")
    /\ staged[s] = "whole"
    /\ SetState(s, "rejected")
    /\ Done("validation")
    /\ UNCHANGED wake
    /\ ValidationOnly

(* _fail_if_possible: the file is not what the row says, or the validator       *)
(* cannot do its work.                                                          *)
FailValidation(s) ==
    /\ At("validation", s, "examining")
    /\ staged[s] # "whole" \/ May("error")
    /\ SetState(s, "failed")
    /\ Done("validation")
    /\ UNCHANGED wake
    /\ ValidationOnly

\* Mutant: a published upload no longer counts as the holder of its bytes.
CanonicalExistsPending(s) ==
    \E t \in Sessions \ {s} :
        Content[t] = Content[s] /\ upload[t].state = "publish_pending"

(* canonical_exists: another session of the same byte identity is on its way to *)
(* the library or in it.                                                        *)
CanonicalExists(s) ==
    \E t \in Sessions \ {s} :
        /\ Content[t] = Content[s]
        /\ \/ upload[t].state \in {"publish_pending", "published"}
           \/ upload[t].state = "cataloged" /\ publication[t].media

(* complete_validation_success, one immediate transaction: the evidence, the    *)
(* byte identity and the disposition.  The coordinator then notifies the next   *)
(* one.                                                                         *)
RecordSuccess(s) ==
    LET duplicate == CanonicalExists(s) IN
    /\ At("validation", s, "recording")
    /\ IF duplicate /\ s \notin Silent
       THEN SetState(s, "duplicate_pending") /\ UNCHANGED wake
       ELSE /\ upload' = [upload EXCEPT ![s].state = "publish_pending",
                              ![s].disposition = IF duplicate THEN "keep_separate" ELSE @]
            /\ wake' = wake \cup {"publication"}
    /\ Done("validation")
    /\ ValidationOnly

(* The row cannot be updated: it stays validating until the next start.         *)
RecordFails(s) ==
    /\ May("error")
    /\ \E step \in {"examining", "recording"} : At("validation", s, step)
    /\ Done("validation")
    /\ UNCHANGED <<upload, wake>>
    /\ ValidationOnly

--------------------------------------------------------------------------------
(* PublishPendingUpload.publish_owned_blocking and, between opening and         *)
(* unlinking, FilesystemPublishedMediaStorage.publish_from_reader.              *)

LeasePublication(s) ==
    /\ Leases("publication", s)
    /\ Takes("publication", s,
             IF upload[s].state = "published" THEN "cleaning"
             ELSE IF publication[s].state = "none" THEN "reserving" ELSE "looking")
    /\ UNCHANGED <<upload, wake>>

(* get_or_create_reservation: identity and relative path of the target become   *)
(* durable before anything is written there.                                    *)
Reserve(s) ==
    /\ At("publication", s, "reserving")
    /\ publication' = [publication EXCEPT ![s].state = "reserved", ![s].cleanup = "pending"]
    /\ Goto("publication", "looking")
    /\ UNCHANGED <<upload, staged, target, wake, startup, adopted, calm>>

\* The final name exists and its bytes are the expected ones.
Verified(s) == target[s].final # "absent" /\ target[s].data \in {"written", "synced"}

(* verify_target: a target that already verifies is taken over without going    *)
(* through publish_from_reader; otherwise the quarantine reader is opened.      *)
LookAtTarget(s) ==
    /\ At("publication", s, "looking")
    /\ \/ /\ Verified(s)
          /\ Goto("publication", "committing")
          /\ adopted' = IF target[s].final = "volatile" THEN adopted \cup {s} ELSE adopted
       \/ /\ target[s].final = "absent"
          /\ staged[s] = "whole"
          /\ Goto("publication", "opening")
          /\ UNCHANGED adopted
    /\ UNCHANGED <<upload, publication, staged, target, wake, startup, calm>>

\* A step that changes only the published root.
AtTarget(s, step, next) ==
    /\ At("publication", s, step)
    /\ Goto("publication", next)
    /\ UNCHANGED <<upload, publication, staged, wake, startup, adopted, calm>>

(* _open_owned_temporary: an abandoned temporary is truncated and used again.   *)
OpenTemporary(s) ==
    /\ AtTarget(s, "opening", "copying")
    /\ target' = [target EXCEPT ![s].temporary = TRUE, ![s].data = "partial"]

(* _copy_and_verify_source: size and digest are those of the validated upload.  *)
CopySource(s) ==
    /\ AtTarget(s, "copying", "flushing")
    /\ staged[s] = "whole"
    /\ target' = [target EXCEPT ![s].data = "written"]

\* Mutant: the copy is linked without having been flushed.
SkipFlush(s) ==
    /\ AtTarget(s, "flushing", "linking")
    /\ UNCHANGED target

FlushTemporary(s) ==
    /\ AtTarget(s, "flushing", "linking")
    /\ target' = [target EXCEPT ![s].data = "synced"]

(* os.link onto the final name, which it never overwrites.                      *)
LinkFinal(s) ==
    /\ AtTarget(s, "linking", "confirming")
    /\ target' = [target EXCEPT ![s].final = "volatile"]

(* fsync of the directory, and a last verification of the final name.           *)
FsyncDirectory(s) ==
    /\ AtTarget(s, "confirming", "unlinking")
    /\ target' = [target EXCEPT ![s].final = "durable"]

UnlinkTemporary(s) ==
    /\ AtTarget(s, "unlinking", "committing")
    /\ target' = [target EXCEPT ![s].temporary = FALSE]

(* commit_verified_publication: provenance and state in one transaction.        *)
CommitPublished(s) ==
    /\ At("publication", s, "committing")
    /\ publication' = [publication EXCEPT ![s].state = "verified"]
    /\ SetState(s, "published")
    /\ Goto("publication", "cleaning")
    /\ UNCHANGED <<staged, target, wake, startup, adopted, calm>>

(* _finish_cleanup removes the source, then records it and notifies the catalog *)
(* coordinator.                                                                 *)
RemoveSource(s) ==
    /\ At("publication", s, "cleaning")
    /\ staged' = [staged EXCEPT ![s] = "gone"]
    /\ Goto("publication", "marking")
    /\ UNCHANGED <<upload, publication, target, wake, startup, adopted, calm>>

MarkClean(s) ==
    /\ At("publication", s, "marking")
    /\ publication' = [publication EXCEPT ![s].cleanup = "complete"]
    /\ wake' = wake \cup {"catalog"}
    /\ Done("publication")
    /\ UNCHANGED <<upload, staged, target, startup, adopted, calm>>

\* What cannot succeed: neither target nor source is what the row promises.
Unusable(s) ==
    \/ worker["publication"].pc = "looking" /\ ~Verified(s)
       /\ (target[s].final # "absent" \/ staged[s] # "whole")
    \/ worker["publication"].pc = "copying" /\ staged[s] # "whole"

(* Any step of a publication fails: the row stays eligible and the candidate is *)
(* retried.  A full disk also removes the temporary.                            *)
PublicationFails(s) ==
    /\ worker["publication"].on = s
    /\ May("error") \/ Unusable(s)
    /\ worker' = [worker EXCEPT !["publication"].pc = "scanning",
                                !["publication"].on = None,
                                !["publication"].retry = TRUE]
    /\ \/ UNCHANGED target
       \/ /\ worker["publication"].pc \in {"copying", "flushing", "linking"}
          /\ May("error")
          /\ target' = [target EXCEPT ![s] = Untouched]
    /\ UNCHANGED <<upload, publication, staged, wake, startup, adopted, calm>>

--------------------------------------------------------------------------------
(* CatalogPublishedUpload.catalog_owned_blocking.                               *)

LeaseCatalog(s) ==
    /\ Leases("catalog", s)
    /\ Takes("catalog", s, "cataloging")
    /\ UNCHANGED <<upload, wake>>

(* commit_cataloged_publication: media, location, link and state together.      *)
CommitCataloged(s) ==
    /\ At("catalog", s, "cataloging")
    /\ publication' = [publication EXCEPT ![s].media = TRUE]
    /\ SetState(s, "cataloged")
    /\ Done("catalog")
    /\ UNCHANGED <<staged, target, wake, startup, adopted, calm>>

CatalogFails(s) ==
    /\ May("error")
    /\ At("catalog", s, "cataloging")
    /\ worker' = [worker EXCEPT !["catalog"].pc = "scanning", !["catalog"].on = None,
                                !["catalog"].retry = TRUE]
    /\ UNCHANGED <<upload, publication, staged, target, wake, startup, adopted, calm>>

--------------------------------------------------------------------------------
(* The outside world.                                                           *)

(* The process stops and starts again: what is volatile in it is gone and every *)
(* coordinator starts with its wake event set.                                  *)
Restart ==
    /\ worker' = [w \in Workers |-> Resting]
    /\ wake' = Workers
    /\ startup' = TRUE

ProcessStops ==
    /\ May("stop")
    /\ Restart
    /\ UNCHANGED <<upload, publication, staged, target, adopted, calm>>

\* What the disk holds of one target after a power loss, its unsynced names
\* surviving or not.
AfterPowerLoss(t, survives) ==
    IF survives
    THEN [t EXCEPT !.data = IF @ = "written" THEN "partial" ELSE @,
                   !.final = IF @ = "volatile" THEN "durable" ELSE @]
    ELSE IF t.final = "durable" THEN t ELSE Untouched

PowerLoss ==
    /\ May("power")
    /\ \E survivors \in SUBSET Sessions :
          target' = [s \in Sessions |-> AfterPowerLoss(target[s], s \in survivors)]
    /\ Restart
    /\ UNCHANGED <<upload, publication, staged, adopted, calm>>

(* Somebody removes or shortens a quarantine file.                              *)
Damage(s) ==
    /\ May("damage")
    /\ staged[s] = "whole"
    /\ staged' = [staged EXCEPT ![s] = "damaged"]
    /\ UNCHANGED <<upload, publication, target, worker, wake, startup, adopted, calm>>

(* From this start on, nothing fails any more; clients go on as they like.      *)
CalmDown ==
    /\ ~calm
    /\ calm' = TRUE
    /\ Restart
    /\ UNCHANGED <<upload, publication, staged, target, adopted>>

--------------------------------------------------------------------------------
Request(s) ==
    \/ Complete(s)
    \/ Expire(s)
    \/ Cancel(s)
    \/ KeepSeparate(s)
    \/ Discard(s)

Validate(s) ==
    \/ LeaseValidation(s)
    \/ Examine(s)
    \/ Reject(s)
    \/ FailValidation(s)
    \/ RecordSuccess(s)

Publish(s) ==
    \/ LeasePublication(s)
    \/ Reserve(s)
    \/ LookAtTarget(s)
    \/ OpenTemporary(s)
    \/ CopySource(s)
    \/ FlushTemporary(s)
    \/ LinkFinal(s)
    \/ FsyncDirectory(s)
    \/ UnlinkTemporary(s)
    \/ CommitPublished(s)
    \/ RemoveSource(s)
    \/ MarkClean(s)
    \/ PublicationFails(s)

Catalog(s) ==
    \/ LeaseCatalog(s)
    \/ CommitCataloged(s)

Fault(s) ==
    \/ ClaimFails(s)
    \/ RecordFails(s)
    \/ CatalogFails(s)
    \/ Damage(s)

Next ==
    \/ \E s \in Sessions : Request(s) \/ Validate(s) \/ Publish(s) \/ Catalog(s) \/ Fault(s)
    \/ \E w \in Workers : StartPass(w) \/ DiscoveryFails(w)
    \/ ProcessStops
    \/ PowerLoss

Spec == Init /\ [][Next]_vars

(* Each coordinator is a task of its own on the event loop, its service a       *)
(* thread of its own executor: one that can take a step eventually takes it.    *)
(* Faults may cease at any start.                                               *)
CalmingSpec ==
    /\ Init
    /\ [][Next \/ CalmDown]_vars
    /\ WF_vars(StartPass("validation") \/ \E s \in Sessions : Validate(s))
    /\ WF_vars(StartPass("publication") \/ \E s \in Sessions : Publish(s))
    /\ WF_vars(StartPass("catalog") \/ \E s \in Sessions : Catalog(s))

--------------------------------------------------------------------------------
TypeOK ==
    /\ upload \in [Sessions -> Uploads]
    /\ publication \in [Sessions -> Publications]
    /\ staged \in [Sessions -> {"whole", "damaged", "gone"}]
    /\ target \in [Sessions -> Targets]
    /\ worker \in [Workers -> [pc : Steps, on : Sessions \cup {None},
                               page : SUBSET Sessions, retry : BOOLEAN]]
    /\ wake \subseteq Workers
    /\ startup \in BOOLEAN
    /\ adopted \subseteq Sessions
    /\ calm \in BOOLEAN

(* Whatever stops or fails, the bytes of an upload nobody gave up are in        *)
(* quarantine or under their final name in the library: the source is removed   *)
(* only after the copy is in place, and no step of a copy that is repeated      *)
(* after a stop leaves less than there was.  Two cases are not covered: files   *)
(* that somebody else damaged, and targets adopted before their name was        *)
(* durable (see PublishedIsDurable).                                            *)
BytesKept ==
    \A s \in Sessions :
        upload[s].state \in {"received", "validating", "duplicate_pending"} \cup Canonical =>
            \/ staged[s] # "gone"
            \/ Verified(s)
            \/ s \in adopted

(* Of the sessions that hold the same bytes in the library or on the way there, *)
(* at most one is there without a recorded decision to keep it separately.      *)
OneCanonical ==
    \A s, t \in Sessions :
        /\ s # t
        /\ Content[s] = Content[t]
        /\ upload[s].state \in Canonical
        /\ upload[t].state \in Canonical
        => "keep_separate" \in {upload[s].disposition, upload[t].disposition}

(* A client is asked about a duplicate, and may discard it, only while another  *)
(* session holds the same bytes and will bring them to the library: discarding  *)
(* never removes the only copy.                                                 *)
DuplicateOfSomething ==
    \A s \in Sessions :
        upload[s].state = "duplicate_pending" \/ upload[s].disposition = "discard" =>
            \E t \in Sessions \ {s} :
                Content[t] = Content[s] /\ upload[t].state \in Canonical

(* A catalogued upload has left quarantine, and its row says so: nothing would  *)
(* ever clean up after it, because no coordinator looks at it again.            *)
CatalogedIsClean ==
    \A s \in Sessions :
        upload[s].state = "cataloged" =>
            /\ staged[s] = "gone"
            /\ publication[s] = [state |-> "verified", cleanup |-> "complete", media |-> TRUE]

(* ADR-0042: the containing directory is fsynced before the verified            *)
(* publication is persisted.                                                    *)
PublishedIsDurable ==
    \A s \in Sessions :
        upload[s].state \in {"published", "cataloged"} => target[s].final = "durable"

(* No commit of the repositories leaves the transition table, whichever row was *)
(* listed, leased and reloaded while clients cancelled, resolved or expired it. *)
Lifecycle == INSTANCE UploadLifecycle WITH state <- [s \in Sessions |-> upload[s].state]

ImplementsLifecycle == Lifecycle!Spec

\* Nothing is left to do for the session, or nothing can be done.
Settled(s) ==
    \/ upload[s].state \notin {"received", "validating"} \cup (Canonical \ {"cataloged"})
    \/ upload[s].state = "publish_pending" /\ staged[s] # "whole" /\ ~Verified(s)

(* After a start from which on nothing fails, every upload is catalogued,       *)
(* refused, given up, or waits for a client's decision, and one that a client   *)
(* decides to keep is catalogued too: no notification between coordinators is   *)
(* lost.                                                                        *)
EveryUploadSettles == \A s \in Sessions : (calm /\ ~Settled(s)) ~> Settled(s)

================================================================================
