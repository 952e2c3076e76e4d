--------------------------- MODULE YouTubeAcquisition ---------------------------
(* Saving a YouTube video (application/youtube_acquisition.py): an operator or   *)
(* an ordinary requester submits a video, one coordinator inspects, downloads    *)
(* and hands it to the upload pipeline, and then waits for what becomes of it.   *)
(*                                                                               *)
(* The coordinator works on the claim that was saved longest ago, one claim at a *)
(* time: while it waits for a tool or for the upload transport, requests are     *)
(* served, uploads go on, media are published and removed, and the process may   *)
(* stop.  A medium is named by the claim whose upload brought it into the        *)
(* library; two videos have the same bytes when they are the same video.         *)
EXTENDS Naturals, FiniteSets, SequencesExt

CONSTANTS
    MaxClaims,     \* bound: claims submitted
    Operators,     \* creators that manage duplicates; no limits apply to them
    Requesters,    \* ordinary creators
    Videos,
    ActiveLimit,   \* max_active_per_user
    GlobalLimit,   \* max_global_active
    PrivateLimit,  \* max_private_items
    MaxFaults      \* bound: stops of the process and errors that no outcome names

ASSUME YouTubeAssumption ==
    /\ MaxClaims \in Nat /\ MaxFaults \in Nat
    /\ ActiveLimit \in Nat /\ GlobalLimit \in Nat /\ PrivateLimit \in Nat
    /\ Operators \cap Requesters = {}

VARIABLES
    claim,      \* youtube_acquisition_claims
    queue,      \* the active claims, in the order of updated_at
    busy,       \* the claim the coordinator awaits something for, and the
                \* canonical medium that it has found for it
    staging,    \* claims with an artifact on disk
    upload,     \* the upload session of a claim
    published,  \* published media
    faults

youtubeVars == <<claim, queue, busy, staging, upload, published, faults>>

Claims == 1..MaxClaims      \* in the order of their creation
Creators == Operators \cup Requesters
Unoccupied == [claim |-> 0, media |-> 0]

ActiveStates == {"claimed", "inspecting", "download_pending", "downloading",
                 "downloaded", "handoff", "handed_off"}
SuccessStates == {"cataloged", "duplicate_resolved"}
TerminalStates == SuccessStates \cup {"catalog_removed", "failed"}

\* Sessions whose bytes are all there, and those that others are duplicates of.
Pending == {"received", "publishing"}
Ended == {"refused", "lost", "detached"}
UploadStates == {"none", "receiving", "duplicate", "cataloged", "cancelled", "discarded"}
                  \cup Pending \cup Ended

\* What the downloader attests, and makes of a video and of its download.
Versions == {"same", "changed", "unattested"}
Inspections == {"usable", "refused"}
Downloads == {"artifact", "refused"}

NoClaim == [state |-> "absent", who |-> "nobody", video |-> "nothing", media |-> 0,
            linked |-> FALSE, cleanup |-> "pending"]

Active == {c \in Claims : claim[c].state \in ActiveStates}
Success == {c \in Claims : claim[c].state \in SuccessStates /\ claim[c].media # 0}
ActiveOf(u, v) == {c \in Active : claim[c].who = u /\ claim[c].video = v}
Library == {c \in Claims : upload[c] = "cataloged"}
Fresh == {c \in Claims : claim[c].state = "absent" /\ \A d \in 1..c - 1 : claim[d].state # "absent"}

--------------------------------------------------------------------------------
YouTubeInit ==
    /\ claim = [c \in Claims |-> NoClaim] /\ queue = <<>> /\ busy = Unoccupied
    /\ staging = {} /\ upload = [c \in Claims |-> "none"] /\ published = {}
    /\ faults = 0

Fault == faults < MaxFaults /\ faults' = faults + 1

\* save: the claim is the one that was saved last.
Save(c, record) ==
    LET others == SelectSeq(queue, LAMBDA d : d # c) IN
    /\ claim' = [claim EXCEPT ![c] = record]
    /\ queue' = IF record.state \in ActiveStates THEN Append(others, c) ELSE others
AdvanceClaim(c, state) == Save(c, [claim[c] EXCEPT !.state = state])

New(u, v) == [NoClaim EXCEPT !.state = "claimed", !.who = u, !.video = v]
Reuse(u, v, m) == [New(u, v) EXCEPT !.state = "duplicate_resolved", !.media = m, !.cleanup = "complete"]

--------------------------------------------------------------------------------
\* The media an ordinary requester has from YouTube that are not published.
PrivateItems(u) == {c \in Success : claim[c].who = u /\ claim[c].media \notin published}

\* _enforce_admission_limits; the limits on rates only refuse more.
Admitted(u, private) ==
    /\ Cardinality({c \in Active : claim[c].who = u}) < ActiveLimit
    /\ Cardinality(Active) < GlobalLimit
    /\ private => Cardinality(PrivateItems(u)) < PrivateLimit

\* Mutant: whatever is in the library is offered to everyone.
ReusableByAll(v) == {c \in Success : claim[c].video = v}

\* What an ordinary requester may be given: what is published.
Reusable(v) == {c \in Success : claim[c].video = v /\ claim[c].media \in published}
\* What an operator may be given: anything.
Cataloged(v) == {c \in Success : claim[c].video = v}
OwnSuccess(u, v) == {c \in Success : claim[c].video = v /\ claim[c].who = u}

\* A claim on a medium of one of these claims, or else a new acquisition.
ReuseOrAcquire(u, v, c, reusable) ==
    /\ IF reusable = {}
       THEN Save(c, New(u, v))
       ELSE \E d \in reusable : Save(c, Reuse(u, v, claim[d].media))
    /\ UNCHANGED <<busy, staging, upload, published, faults>>

(* submit of the operator's service: an active claim of the creator is returned, *)
(* and what is in the library is reused.                                         *)
SubmitAsOperator(u, v, c) ==
    /\ u \in Operators /\ c \in Fresh /\ ActiveOf(u, v) = {}
    /\ ReuseOrAcquire(u, v, c, Cataloged(v))

(* submit of an ordinary requester, whose own successes are returned as well.    *)
Submit(u, v, c) ==
    /\ u \in Requesters /\ c \in Fresh
    /\ ActiveOf(u, v) = {} /\ OwnSuccess(u, v) = {}
    /\ Admitted(u, Reusable(v) = {})
    /\ ReuseOrAcquire(u, v, c, Reusable(v))

\* The staging of the failed claim is cleaned first, even if no claim is
\* admitted then, or an active one is returned.
CleanAndReplace(u, old, c, admitted) ==
    LET cleaned == [claim EXCEPT ![old].cleanup = "complete"] IN
    /\ claim[old].state = "failed"
    /\ staging' = staging \ {old}
    /\ IF admitted /\ ActiveOf(u, claim[old].video) = {}
       THEN /\ c \in Fresh
            /\ claim' = [cleaned EXCEPT ![c] = New(u, claim[old].video)]
            /\ queue' = Append(queue, c)
       ELSE claim' = cleaned /\ UNCHANGED queue
    /\ UNCHANGED <<busy, upload, published, faults>>

(* retry of the operator's service, of anybody's failed claim: the new one is    *)
(* the operator's.                                                               *)
RetryAsOperator(u, old, c) == u \in Operators /\ CleanAndReplace(u, old, c, TRUE)

(* retry of an own failed claim, admitted like a submission.                     *)
Retry(u, old, c) ==
    /\ u \in Requesters /\ claim[old].who = u
    /\ CleanAndReplace(u, old, c, Admitted(u, TRUE))

--------------------------------------------------------------------------------
\* list_cleanup_candidates, and the head of list_recovery_candidates: nothing
\* is processed while an ended claim has its staging to clean.
Uncleaned == {c \in Claims : claim[c].state \in SuccessStates \cup {"failed"} /\ claim[c].cleanup = "pending"}
Turn(c) == busy = Unoccupied /\ Uncleaned = {} /\ queue # <<>> /\ c = Head(queue)

(* _drain_once when there is something to clean; an error leaves it for later.   *)
Cleanup(c) ==
    /\ busy = Unoccupied /\ c \in Uncleaned
    /\ Save(c, [claim[c] EXCEPT !.cleanup = "complete"])
    /\ staging' = staging \ {c}
    /\ UNCHANGED <<busy, upload, published, faults>>

\* The state to be saved, with the trailing _cleanup, which may fail.
SaveAndClean(c, record) ==
    \/ /\ Save(c, [record EXCEPT !.cleanup = "complete"])
       /\ staging' = staging \ {c}
    \/ /\ record.cleanup = "pending" /\ Save(c, record)
       /\ UNCHANGED staging

\* _fail.
Fail(c) == SaveAndClean(c, [claim[c] EXCEPT !.state = "failed"])

(* _inspect up to the inspection.                                                *)
StartInspection(c) ==
    /\ Turn(c) /\ claim[c].state = "claimed"
    /\ AdvanceClaim(c, "inspecting")
    /\ busy' = [Unoccupied EXCEPT !.claim = c]
    /\ UNCHANGED <<staging, upload, published, faults>>

(* _inspect after it: the video can be downloaded, or the claim fails.           *)
Inspect(c) ==
    /\ busy.claim = c /\ claim[c].state = "inspecting"
    /\ \E found \in Inspections :
        IF found = "usable" THEN AdvanceClaim(c, "download_pending") /\ UNCHANGED staging ELSE Fail(c)
    /\ busy' = Unoccupied
    /\ UNCHANGED <<upload, published, faults>>

(* _download up to the download.                                                 *)
StartDownload(c) ==
    /\ Turn(c) /\ claim[c].state = "download_pending"
    /\ AdvanceClaim(c, "downloading")
    /\ busy' = [Unoccupied EXCEPT !.claim = c]
    /\ UNCHANGED <<staging, upload, published, faults>>

(* _download after it: the artifact is there, or the claim fails with or without *)
(* one; or an error keeps the claim from being saved.                            *)
Download(c) ==
    /\ busy.claim = c /\ claim[c].state = "downloading"
    /\ \/ /\ \E result \in Downloads :
             IF result = "artifact"
             THEN AdvanceClaim(c, "downloaded") /\ staging' = staging \cup {c}
             ELSE Fail(c)
          /\ UNCHANGED faults
       \/ staging' = staging \cup {c} /\ UNCHANGED <<claim, queue>> /\ Fault
    /\ busy' = Unoccupied
    /\ UNCHANGED <<upload, published>>

(* _process of a claim that is not waiting for anything outside, or that was     *)
(* left in the middle of an inspection or a download.                            *)
StepClaim(c) ==
    /\ Turn(c)
    /\ \/ claim[c].state = "downloaded" /\ AdvanceClaim(c, "handoff")
       \/ claim[c].state = "downloading" /\ AdvanceClaim(c, "download_pending")
       \/ claim[c].state = "inspecting" /\ AdvanceClaim(c, "claimed")
    /\ UNCHANGED <<busy, staging, upload, published, faults>>

--------------------------------------------------------------------------------
(* _handoff up to the copy: the session has the identity of the claim, so that   *)
(* an interrupted handoff finds its own.                                         *)
StartHandoff(c) ==
    /\ Turn(c) /\ claim[c].state = "handoff"
    /\ upload' = [upload EXCEPT ![c] = IF @ = "none" THEN "receiving" ELSE @]
    /\ IF claim[c].linked
       THEN UNCHANGED <<claim, queue>>
       ELSE Save(c, [claim[c] EXCEPT !.linked = TRUE])
    /\ busy' = [Unoccupied EXCEPT !.claim = c]
    /\ UNCHANGED <<staging, published, faults>>

\* open_artifact.
HasArtifact(c) == c \in staging

(* _handoff with its copy and the completion of the session.  A session that     *)
(* ended with only some of the bytes fails the claim; one that has all of them,  *)
(* whatever became of it, is handed off.                                         *)
Handoff(c) ==
    /\ busy.claim = c /\ claim[c].state = "handoff"
    /\ \/ /\ upload[c] # "lost" /\ HasArtifact(c)
          /\ upload' = [upload EXCEPT ![c] = IF @ = "receiving" THEN "received" ELSE @]
          /\ SaveAndClean(c, [claim[c] EXCEPT !.state = "handed_off"])
          /\ UNCHANGED faults
       \/ upload[c] = "lost" /\ Fail(c) /\ UNCHANGED <<upload, faults>>
       \/ \* An error on the way, the last bytes maybe completed.
          /\ upload[c] = "receiving" /\ Fault
          /\ \E left \in {"receiving", "received"} : upload' = [upload EXCEPT ![c] = left]
          /\ Fail(c) \/ UNCHANGED <<claim, queue, staging>>
    /\ busy' = Unoccupied
    /\ UNCHANGED published

\* find_cataloged_by_byte_identity: other uploads of these bytes in the library.
Canonical(c) == {d \in Library \ {c} : claim[d].video = claim[c].video}

\* The tail of _resolve_byte_duplicate.
Resolved(c, d) == [claim[c] EXCEPT !.state = "duplicate_resolved", !.media = d]

\* Mutant: a session that was cancelled is waited for.
ProjectUploadPatiently(c) ==
    /\ Turn(c) /\ claim[c].state = "handed_off"
    /\ claim[c].cleanup = "complete"
    /\ CASE upload[c] \in Pending \cup {"cancelled"} -> UNCHANGED <<claim, queue, busy, staging, upload>>
         [] upload[c] = "cataloged" ->
               Save(c, [claim[c] EXCEPT !.state = "cataloged", !.media = c]) /\ UNCHANGED <<busy, staging, upload>>
         [] OTHER -> Fail(c) /\ UNCHANGED <<busy, upload>>
    /\ UNCHANGED <<published, faults>>

(* _project_upload: staging first, then by the state of the session.  Of a       *)
(* duplicate, the operator's upload is discarded for the canonical one, and the  *)
(* answer awaited; a claim whose session was discarded before, by a coordinator  *)
(* that stopped or by its client, is resolved at once.                           *)
ProjectUpload(c) ==
    LET cleaned == [claim[c] EXCEPT !.cleanup = "complete"]
        operated == claim[c].who \in Operators
        Done(record) == Save(c, [record EXCEPT !.cleanup = "complete"])
        stays == UNCHANGED <<busy, upload>>
    IN
    /\ Turn(c) /\ claim[c].state = "handed_off"
    /\ staging' = staging \ {c}
    /\ \/ /\ upload[c] \in Pending /\ stays
          /\ IF claim[c].cleanup = "pending" THEN Save(c, cleaned) ELSE UNCHANGED <<claim, queue>>
       \/ upload[c] = "cataloged" /\ Done([claim[c] EXCEPT !.state = "cataloged", !.media = c]) /\ stays
       \/ /\ upload[c] \in {"duplicate", "discarded"} /\ ~(operated /\ Canonical(c) # {})
          /\ Done([claim[c] EXCEPT !.state = "failed"]) /\ stays
       \/ upload[c] \in Ended \cup {"cancelled"} /\ Done([claim[c] EXCEPT !.state = "failed"]) /\ stays
       \/ /\ upload[c] = "discarded" /\ operated
          /\ \E d \in Canonical(c) : Done(Resolved(c, d))
          /\ stays
       \/ /\ upload[c] = "duplicate" /\ operated
          /\ \E d \in Canonical(c) : busy' = [claim |-> c, media |-> d]
          /\ upload' = [upload EXCEPT ![c] = "discarded"]
          /\ IF claim[c].cleanup = "pending" THEN Save(c, cleaned) ELSE UNCHANGED <<claim, queue>>
    /\ UNCHANGED <<published, faults>>

\* Mutant: the claim may refer to a medium that is no longer there.
ResolveDuplicateUnchecked(c) ==
    /\ busy.claim = c /\ claim[c].state = "handed_off"
    /\ Save(c, Resolved(c, busy.media))
    /\ busy' = Unoccupied
    /\ UNCHANGED <<staging, upload, published, faults>>

(* _resolve_byte_duplicate after the discard: the save fails by its foreign key  *)
(* when the canonical medium was removed in the meantime.                        *)
ResolveDuplicate(c) ==
    /\ busy.claim = c /\ claim[c].state = "handed_off"
    /\ IF busy.media \in Library
       THEN Save(c, Resolved(c, busy.media))
       ELSE UNCHANGED <<claim, queue>>
    /\ busy' = Unoccupied
    /\ UNCHANGED <<staging, upload, published, faults>>

--------------------------------------------------------------------------------
(* The process stops and starts: _reconcile_startup takes interrupted tools back *)
(* and starts over, with a clean staging, what another version of the downloader *)
(* has inspected; without a version to attest those claims fail.                 *)
Restart ==
    /\ Fault
    /\ \E version \in Versions :
        LET tooled == {c \in Active : claim[c].state \in {"download_pending", "downloading"}}
            Recovered(c) ==
                CASE claim[c].state = "inspecting" \/ (c \in tooled /\ version = "changed") ->
                        [claim[c] EXCEPT !.state = "claimed"]
                  [] c \in tooled /\ version = "unattested" ->
                        [claim[c] EXCEPT !.state = "failed", !.cleanup = "complete"]
                  [] claim[c].state = "downloading" /\ version = "same" ->
                        [claim[c] EXCEPT !.state = "download_pending"]
                  [] OTHER -> claim[c]
            Touched(c) == Recovered(c) # claim[c]
        IN /\ claim' = [c \in Claims |-> Recovered(c)]
           /\ queue' = SelectSeq(SelectSeq(queue, LAMBDA c : ~Touched(c)) \o SelectSeq(queue, Touched),
                                 LAMBDA c : Recovered(c).state \in ActiveStates)
           /\ staging' = IF version = "same" THEN staging ELSE staging \ tooled
    /\ busy' = Unoccupied
    /\ UNCHANGED <<upload, published>>

--------------------------------------------------------------------------------
Becomes(c, states) ==
    /\ \E state \in states : upload' = [upload EXCEPT ![c] = state]
    /\ UNCHANGED <<claim, queue, busy, staging, published, faults>>

(* The upload pipeline: validation finds duplicates of bytes that are on their   *)
(* way into the library or in it, asks an operator and keeps an ordinary         *)
(* requester's upload separate; it may refuse the upload at each of its stages.  *)
Validate(c) ==
    LET duplicate == \E d \in Claims \ {c} :
                        upload[d] \in {"publishing", "cataloged"} /\ claim[d].video = claim[c].video
        valid == IF duplicate /\ claim[c].who \in Operators THEN "duplicate" ELSE "publishing"
    IN
    /\ upload[c] = "received"
    /\ Becomes(c, {valid, "refused"})

(* Publication and cataloguing of the file.                                      *)
Catalog(c) == upload[c] = "publishing" /\ Becomes(c, {"cataloged", "refused"})

(* The client of a session cancels it; an open one may also expire.              *)
Cancel(c) ==
    \/ upload[c] = "receiving" /\ Becomes(c, {"lost"})
    \/ upload[c] = "received" /\ Becomes(c, {"cancelled"})

(* The client answers for the duplicate.                                         *)
Answer(c) == upload[c] = "duplicate" /\ Becomes(c, {"discarded", "publishing"})

(* Publication of a medium, and its end.                                         *)
Publish(m) ==
    /\ m \in Library
    /\ published' = IF m \in published THEN published \ {m} ELSE published \cup {m}
    /\ UNCHANGED <<claim, queue, busy, staging, upload, faults>>

(* Removal of a medium from the catalogue, with the claims that refer to it      *)
(* (_transition_youtube_claims) and its publication.                             *)
RemoveMedia(m) ==
    LET Marked(r) == IF r.media = m THEN [r EXCEPT !.state = "catalog_removed", !.media = 0] ELSE r IN
    /\ m \in Library
    /\ claim' = [c \in Claims |-> Marked(claim[c])]
    /\ upload' = [upload EXCEPT ![m] = "detached"]
    /\ published' = published \ {m}
    /\ UNCHANGED <<queue, busy, staging, faults>>

--------------------------------------------------------------------------------
\* One iteration of the coordinator, or the rest of one that waited.
Drain(c) ==
    \/ Cleanup(c) \/ StartInspection(c) \/ Inspect(c) \/ StartDownload(c) \/ Download(c)
    \/ StepClaim(c) \/ StartHandoff(c) \/ Handoff(c) \/ ProjectUpload(c) \/ ResolveDuplicate(c)

YouTubeNext ==
    \/ \E c \in Claims :
        \/ \E u \in Creators, v \in Videos : SubmitAsOperator(u, v, c) \/ Submit(u, v, c)
        \/ \E u \in Creators, old \in Claims : RetryAsOperator(u, old, c) \/ Retry(u, old, c)
        \/ Drain(c) \/ Validate(c) \/ Catalog(c) \/ Cancel(c) \/ Answer(c) \/ Publish(c) \/ RemoveMedia(c)
    \/ Restart

\* The coordinator runs again when it made progress or a quarter of a second has
\* passed, its tools have timeouts, and uploads go on (shown of UploadPipeline).
YouTubeFairness ==
    /\ WF_youtubeVars(\E c \in Claims : Drain(c))
    /\ WF_youtubeVars(\E c \in Claims : Validate(c) \/ Catalog(c))

YouTubeSpec == YouTubeInit /\ [][YouTubeNext]_youtubeVars /\ YouTubeFairness

--------------------------------------------------------------------------------
(* Types, and that the queue holds the active claims.                            *)
YouTubeTypeOK ==
    /\ claim \in [Claims -> [state : {"absent"} \cup ActiveStates \cup TerminalStates,
                             who : Creators \cup {"nobody"}, video : Videos \cup {"nothing"},
                             media : 0..MaxClaims, linked : BOOLEAN,
                             cleanup : {"pending", "complete"}]]
    /\ ToSet(queue) = Active /\ Len(queue) = Cardinality(Active)
    /\ busy \in [claim : 0..MaxClaims, media : 0..MaxClaims]
    /\ staging \subseteq Claims /\ published \subseteq Library
    /\ upload \in [Claims -> UploadStates]
    /\ faults \in 0..MaxFaults

(* A claim that succeeded refers to a medium that is in the library, whatever    *)
(* was removed while the claim was resolved; a claim that refers to the medium   *)
(* of another one has brought none of its own.                                   *)
SuccessHasMedia ==
    \A c \in Claims : claim[c].state \in SuccessStates =>
        /\ claim[c].media \in Library
        /\ claim[c].media # c => upload[c] \in {"none", "discarded"}

(* A claim of an ordinary requester, which gives access to its medium, comes to  *)
(* refer to the requester's own upload or to a medium that is published then.    *)
OnlyOwnOrPublished ==
    [][\A c \in Claims :
        /\ claim'[c].who \in Requesters
        /\ claim'[c].media # claim[c].media /\ claim'[c].media # 0
        => claim'[c].media = c \/ claim'[c].media \in published]_youtubeVars

(* Every claim ends, although the coordinator waits at the head of its queue,    *)
(* and whatever stops, fails or is removed in between: time and again none is    *)
(* left active.                                                                  *)
EveryClaimEnds == []<>(Active = {})

================================================================================
