------------------------------ MODULE XAcquisition ------------------------------
(* Saving the media of an X post (application/x_acquisition.py): a requester    *)
(* submits a post, one coordinator inspects it, downloads each asset to staging *)
(* and hands it to the upload pipeline, which catalogues it; a failed claim may *)
(* be retried.                                                                  *)
(*                                                                              *)
(* Everything the coordinator knows is in the rows of claims and assets, in     *)
(* staging and in the upload sessions.  A handler is a chain of transactions;   *)
(* the chain breaks where the process stops or a call raises, and the next      *)
(* drain or process goes on from the rows.  While a handler awaits, requests    *)
(* are served, but they touch only claims that are no longer active.            *)
(*                                                                              *)
(* What an upload does once it is received is the subject of UploadPipeline:    *)
(* here it is an environment that catalogues the upload or gives it up.         *)
EXTENDS Naturals, FiniteSets

CONSTANTS
    MaxPosts,         \* bound: claims submitted
    PostRequesters, Posts,
    MaxAssets,        \* media of a post
    ActivePostLimit,  \* max_active_per_requester
    GlobalPostLimit,  \* max_global_active
    MaxTroubles       \* bound: broken chains, errors of disk or transport

ASSUME XAssumption ==
    /\ MaxPosts \in Nat /\ MaxAssets \in Nat /\ MaxTroubles \in Nat
    /\ ActivePostLimit \in Nat /\ GlobalPostLimit \in Nat

VARIABLES
    postClaim,  \* x_post_claims: state, requester, post and the counts
    asset,      \* x_assets: claim -> ordinal -> state, failure, upload linkage
    folder,     \* artifacts in the staging on disk: pairs of claim and ordinal
    transfer,   \* the upload session of an asset
    troubles    \* how many faults and retries happened

xVars == <<postClaim, asset, folder, transfer, troubles>>

PostClaims == 1..MaxPosts      \* in the order of their submission
Ordinals == 1..MaxAssets

ActivePostStates == {"submitted", "queued", "extracting", "acquiring", "handing_off"}
Successful == {"completed", "completed_partial"}
EndedPostStates == Successful \cup {"failed"}

Awaiting == {"pending", "extracted", "acquiring"}
ActiveAssetStates == Awaiting \cup {"staged", "handing_off"}

\* A failure code of an asset: one that a retry may cure, or one that none does.
Codes == {"none", "retryable", "final"}

\* What the extractor makes of a post, and of one of its media; some failures
\* of a download are failures of the whole post.
PostInspections == {"media", "unusable"}
AssetDownloads == {"artifact", "retryable", "final", "claim_wide"}

NoPostClaim == [state |-> "absent", who |-> "nobody", post |-> "nothing", success |-> 0, failure |-> 0]
NewAsset == [state |-> "pending", code |-> "none", linked |-> FALSE]
NoAsset == [NewAsset EXCEPT !.state = "absent"]

Discovered(c) == {o \in Ordinals : asset[c][o].state # "absent"}
In(c, states) == {o \in Discovered(c) : asset[c][o].state \in states}
First(S) == CHOOSE o \in S : \A p \in S : o <= p

ActivePosts == {c \in PostClaims : postClaim[c].state \in ActivePostStates}
SamePost(c) == {d \in PostClaims : postClaim[d].who = postClaim[c].who /\ postClaim[d].post = postClaim[c].post}

--------------------------------------------------------------------------------
XInit ==
    /\ postClaim = [c \in PostClaims |-> NoPostClaim]
    /\ asset = [c \in PostClaims |-> [o \in Ordinals |-> NoAsset]]
    /\ folder = {}
    /\ transfer = [c \in PostClaims |-> [o \in Ordinals |-> "none"]]
    /\ troubles = 0

PostFault == troubles < MaxTroubles /\ troubles' = troubles + 1

SetClaim(c, state) == postClaim' = [postClaim EXCEPT ![c].state = state]
SetAsset(c, o, record) == asset' = [asset EXCEPT ![c][o] = record]

\* _cleanup_claim and _clean_asset_staging: the artifacts of assets that ended
\* go; an error leaves them.  (The flag cleanup_state is never set: the save of
\* an unchanged state is refused, so the same artifacts are cleaned again.)
Cleaned(c, after) ==
    {s \in folder : s[1] = c /\ after[s[2]].state \in {"cataloged", "failed"}}

--------------------------------------------------------------------------------
(* submit: a claim of this requester for this post that is active or successful *)
(* is reused; another one passes the admission limits and is inserted in the    *)
(* transaction that looks for an active one once more.                          *)
SubmitPost(u, p, c) ==
    LET own == {d \in PostClaims : postClaim[d].who = u /\ postClaim[d].post = p} IN
    /\ postClaim[c].state = "absent" /\ \A d \in 1..c - 1 : postClaim[d].state # "absent"
    /\ \A d \in own : postClaim[d].state \notin ActivePostStates \cup Successful
    /\ Cardinality({d \in ActivePosts : postClaim[d].who = u}) < ActivePostLimit
    /\ Cardinality(ActivePosts) < GlobalPostLimit
    /\ postClaim' = [postClaim EXCEPT ![c] = [NoPostClaim EXCEPT !.state = "submitted", !.who = u, !.post = p]]
    /\ UNCHANGED <<asset, folder, transfer, troubles>>

\* retry refuses claims that did not fail; _asset_retryable counts an asset as
\* retryable when it failed for a passing reason, or did not end at all.
RetryAllowed(c) ==
    \/ postClaim[c].state = "failed"
    \/ postClaim[c].state = "completed_partial" /\ postClaim[c].failure > 0
Retryable(c) == {o \in In(c, {"failed"}) : asset[c][o].code = "retryable"}
                  \cup In(c, ActiveAssetStates)

\* The reset of an asset that did not fail is no legal transition: retry raises
\* there, after the resets of the assets before it were committed.
Resettable(c) ==
    LET stuck == Retryable(c) \ In(c, {"failed"})
    IN {o \in Retryable(c) : \A s \in stuck : o < s}

\* uq_x_post_claims_active_requester: the save of a second active claim fails.
Conflicts(c) == ActivePosts \cap (SamePost(c) \ {c}) # {}

(* retry of a claim whose extraction failed: it is queued again.                *)
RetryExtraction(c) ==
    /\ postClaim[c].state = "failed" /\ Discovered(c) = {} /\ ~Conflicts(c)
    /\ PostFault /\ SetClaim(c, "queued")
    /\ UNCHANGED <<asset, folder, transfer>>

(* retry of a claim with assets: the retryable ones become pending one by one,  *)
(* then the claim acquires again, whatever the admission limits say.  The chain *)
(* breaks at an asset that did not fail, at a conflicting claim, or at a stop.  *)
RetryAssets(c) ==
    LET whole == Resettable(c) = Retryable(c) IN
    /\ RetryAllowed(c) /\ Retryable(c) # {} /\ PostFault
    /\ \E n \in 0..Cardinality(Resettable(c)) :
        LET reset == {o \in Resettable(c) : Cardinality({p \in Resettable(c) : p <= o}) <= n}
            all == reset = Resettable(c)
            Again(o) == IF o \in reset
                        THEN [asset[c][o] EXCEPT !.state = "pending", !.code = "none"]
                        ELSE asset[c][o]
        IN /\ asset' = [asset EXCEPT ![c] = [o \in Ordinals |-> Again(o)]]
           /\ IF all /\ whole /\ ~Conflicts(c)
              THEN SetClaim(c, "acquiring")
              ELSE UNCHANGED postClaim
    /\ UNCHANGED <<folder, transfer>>

--------------------------------------------------------------------------------
(* _fail, with its trailing cleanup: the assets keep their states.              *)
FailPost(c, after) ==
    /\ SetClaim(c, "failed")
    /\ folder' = folder \ Cleaned(c, after)

(* An exception in a handler, before any of its transactions: _process fails    *)
(* the claim, whatever it was doing; also when _fail alone gets through.        *)
Trouble(c) ==
    /\ c \in ActivePosts
    /\ PostFault
    /\ FailPost(c, asset[c])
    /\ UNCHANGED <<asset, transfer>>

(* _queue.                                                                      *)
Queue(c) ==
    /\ postClaim[c].state = "submitted"
    /\ SetClaim(c, "queued")
    /\ UNCHANGED <<asset, folder, transfer, troubles>>

(* _extract up to the inspection.                                               *)
StartExtraction(c) ==
    /\ postClaim[c].state = "queued"
    /\ SetClaim(c, "extracting")
    /\ UNCHANGED <<asset, folder, transfer, troubles>>

(* _extract after the inspection of the post: nothing usable was found; or the  *)
(* claim acquires, and in a second transaction its assets are created.          *)
Extract(c) ==
    /\ postClaim[c].state = "extracting"
    /\ \E found \in PostInspections :
        \/ found = "unusable" /\ FailPost(c, asset[c]) /\ UNCHANGED <<asset, troubles>>
        \/ /\ found = "media"
           /\ SetClaim(c, "acquiring")
           /\ asset' = [asset EXCEPT ![c] = [o \in Ordinals |-> NewAsset]]
           /\ UNCHANGED <<folder, troubles>>
        \/ /\ found = "media" /\ PostFault
           /\ postClaim' \in {[postClaim EXCEPT ![c].state = s] : s \in {"acquiring", "failed"}}
           /\ UNCHANGED <<asset, folder>>
    /\ UNCHANGED transfer

--------------------------------------------------------------------------------
\* _advance_to_handoff: what the claim becomes when these are its assets.
Advanced(state, after) ==
    IF \E o \in Ordinals : after[o].state \in Awaiting THEN state ELSE "handing_off"

(* _acquire up to the download: the first asset that waits for it.              *)
StartAssetDownload(c) ==
    LET o == First(In(c, Awaiting)) IN
    /\ postClaim[c].state = "acquiring" /\ In(c, Awaiting) # {}
    /\ asset[c][o].state # "acquiring"
    /\ \/ SetAsset(c, o, [asset[c][o] EXCEPT !.state = "acquiring"]) /\ UNCHANGED troubles
       \/ /\ asset[c][o].state = "pending" /\ PostFault
          /\ SetAsset(c, o, [asset[c][o] EXCEPT !.state = "extracted"])
    /\ UNCHANGED <<postClaim, folder, transfer>>

(* _acquire with its download, which starts over an artifact that an earlier    *)
(* attempt left: the clearing of staging comes first.                           *)
DownloadAsset(c) ==
    LET o == First(In(c, Awaiting))
        ended(result) ==
            CASE result = "artifact" -> [asset[c][o] EXCEPT !.state = "staged"]
              [] result = "retryable" -> [asset[c][o] EXCEPT !.state = "failed", !.code = "retryable"]
              [] OTHER -> [asset[c][o] EXCEPT !.state = "failed", !.code = "final"]
    IN
    /\ postClaim[c].state = "acquiring" /\ In(c, Awaiting) # {}
    /\ asset[c][o].state = "acquiring"
    /\ \E result \in AssetDownloads :
        LET after == [asset[c] EXCEPT ![o] = ended(result)]
            kept == IF result = "artifact" THEN folder \cup {<<c, o>>} ELSE folder \ {<<c, o>>}
        IN \/ \* The chain breaks before the row of the asset is saved.
              PostFault /\ folder' = kept /\ UNCHANGED <<postClaim, asset>>
           \/ SetAsset(c, o, ended(result)) /\ PostFault /\ folder' = kept /\ UNCHANGED postClaim
           \/ /\ SetAsset(c, o, ended(result)) /\ UNCHANGED troubles
              /\ IF result = "claim_wide"
                 THEN SetClaim(c, "failed") /\ folder' = kept \ Cleaned(c, after)
                 ELSE SetClaim(c, Advanced("acquiring", after)) /\ folder' = kept
    /\ UNCHANGED transfer

(* _acquire when no asset waits: a claim without assets is no exception.        *)
AdvanceToHandoff(c) ==
    /\ postClaim[c].state = "acquiring" /\ In(c, Awaiting) = {}
    /\ SetClaim(c, "handing_off")
    /\ UNCHANGED <<asset, folder, transfer, troubles>>

--------------------------------------------------------------------------------
Linked(record) == [record EXCEPT !.state = "handing_off", !.linked = TRUE]

(* _handoff_asset: the session has the identity of the asset, so that an        *)
(* interrupted handoff finds its own.  An asset that is linked already, from an *)
(* attempt before a retry, is copied but stays staged.                          *)
HandoffAsset(c) ==
    LET o == First(In(c, {"staged"}))
        record == IF asset[c][o].linked THEN asset[c][o] ELSE Linked(asset[c][o])
        open == transfer[c][o] \in {"none", "receiving"}
    IN
    /\ postClaim[c].state = "handing_off" /\ In(c, {"staged"}) # {}
    /\ \/ /\ open /\ <<c, o>> \in folder
          /\ SetAsset(c, o, record)
          /\ transfer' = [transfer EXCEPT ![c][o] = "received"]
          /\ UNCHANGED <<postClaim, folder, troubles>>
       \/ \* The chain breaks after the session exists: the process stops, or
          \* the copy or the completion raises, the latter maybe after its commit.
          /\ open /\ PostFault
          /\ \E left \in {"receiving", "received"} :
                transfer' = [transfer EXCEPT ![c][o] = left]
          /\ \/ UNCHANGED <<postClaim, asset, folder>>
             \/ SetAsset(c, o, record) /\ UNCHANGED <<postClaim, folder>>
             \/ SetAsset(c, o, record) /\ FailPost(c, [asset[c] EXCEPT ![o] = record])
       \/ /\ open /\ <<c, o>> \notin folder
          /\ SetAsset(c, o, record)
          /\ transfer' = [transfer EXCEPT ![c][o] = "receiving"]
          /\ FailPost(c, [asset[c] EXCEPT ![o] = record])
          /\ UNCHANGED troubles
       \/ \* The session has ended with only some of the bytes.
          /\ transfer[c][o] = "lost"
          /\ SetAsset(c, o, record)
          /\ FailPost(c, [asset[c] EXCEPT ![o] = record])
          /\ UNCHANGED <<transfer, troubles>>
       \/ \* It has all of them, from an earlier attempt.
          /\ transfer[c][o] \in {"received", "cataloged", "refused"}
          /\ SetAsset(c, o, record)
          /\ UNCHANGED <<postClaim, folder, transfer, troubles>>

\* Mutant: an upload that is not catalogued yet counts as a failed one.
ProjectImpatiently(c) ==
    LET o == First(In(c, {"handing_off"}))
        failed == [asset[c][o] EXCEPT !.state = "failed", !.code = "retryable"]
    IN
    /\ postClaim[c].state = "handing_off"
    /\ In(c, {"staged"}) = {} /\ In(c, {"handing_off"}) # {}
    /\ IF transfer[c][o] = "cataloged"
       THEN /\ SetAsset(c, o, [asset[c][o] EXCEPT !.state = "cataloged"])
            /\ UNCHANGED <<postClaim, folder>>
       ELSE SetAsset(c, o, failed) /\ FailPost(c, [asset[c] EXCEPT ![o] = failed])
    /\ UNCHANGED <<transfer, troubles>>

(* _project_asset: staging is cleared first, whatever the upload needs.  An     *)
(* upload that is not on its way fails the asset; the claim is then advanced to *)
(* the state it has already, which raises and fails the claim as well.          *)
ProjectAsset(c) ==
    LET o == First(In(c, {"handing_off"}))
        gone == folder \ {<<c, o>>}
        failed == [asset[c][o] EXCEPT !.state = "failed", !.code = "retryable"]
    IN
    /\ postClaim[c].state = "handing_off"
    /\ In(c, {"staged"}) = {} /\ In(c, {"handing_off"}) # {}
    /\ CASE transfer[c][o] = "received" ->
               folder' = gone /\ UNCHANGED <<postClaim, asset, troubles>>
         [] transfer[c][o] = "cataloged" ->
               /\ \/ folder' = gone /\ UNCHANGED troubles
                  \/ UNCHANGED folder /\ PostFault
               /\ SetAsset(c, o, [asset[c][o] EXCEPT !.state = "cataloged"])
               /\ UNCHANGED postClaim
         [] OTHER ->
               /\ SetAsset(c, o, failed)
               /\ folder' = gone \ Cleaned(c, [asset[c] EXCEPT ![o] = failed])
               /\ \/ SetClaim(c, "failed") /\ UNCHANGED troubles
                  \/ UNCHANGED postClaim /\ PostFault
    /\ UNCHANGED transfer

(* _handoff when every asset has ended: the counts decide how the claim ends.   *)
FinishPost(c) ==
    LET success == Cardinality(In(c, {"cataloged"}))
        failure == Cardinality(In(c, {"failed"}))
        end == IF failure = 0 THEN "completed"
               ELSE IF success = 0 THEN "failed" ELSE "completed_partial"
    IN
    /\ postClaim[c].state = "handing_off" /\ In(c, {"staged", "handing_off"}) = {}
    /\ postClaim' = [postClaim EXCEPT ![c].state = end, ![c].success = success, ![c].failure = failure]
    /\ \/ folder' = folder \ Cleaned(c, asset[c]) /\ UNCHANGED troubles
       \/ UNCHANGED folder /\ PostFault
    /\ UNCHANGED <<asset, transfer>>

(* _reconcile_cleanup: the artifacts of claims that ended well.                 *)
ReconcileCleanup(c) ==
    /\ postClaim[c].state \in Successful
    /\ Cleaned(c, asset[c]) # {}
    /\ folder' = folder \ Cleaned(c, asset[c])
    /\ UNCHANGED <<postClaim, asset, transfer, troubles>>

--------------------------------------------------------------------------------
(* The upload pipeline, from reception to the library, or to a rejection.       *)
Progress(c, o) ==
    /\ transfer[c][o] = "received" /\ transfer' = [transfer EXCEPT ![c][o] = "cataloged"]
    /\ UNCHANGED <<postClaim, asset, folder, troubles>>

(* Validation rejects the upload, or an open session expires.                   *)
GiveUp(c, o) ==
    /\ \/ transfer[c][o] = "received" /\ transfer' = [transfer EXCEPT ![c][o] = "refused"]
       \/ transfer[c][o] = "receiving" /\ transfer' = [transfer EXCEPT ![c][o] = "lost"]
    /\ UNCHANGED <<postClaim, asset, folder, troubles>>

--------------------------------------------------------------------------------
\* _process: the handler for the claim's state.
Process(c) ==
    \/ Queue(c) \/ StartExtraction(c) \/ Extract(c)
    \/ StartAssetDownload(c) \/ DownloadAsset(c) \/ AdvanceToHandoff(c)
    \/ HandoffAsset(c) \/ ProjectAsset(c) \/ FinishPost(c)

XNext ==
    \/ \E c \in PostClaims :
        \/ \E u \in PostRequesters, p \in Posts : SubmitPost(u, p, c)
        \/ RetryExtraction(c) \/ RetryAssets(c)
        \/ Process(c) \/ Trouble(c) \/ ReconcileCleanup(c)
        \/ \E o \in Ordinals : Progress(c, o) \/ GiveUp(c, o)

\* The drain processes every active claim (there are fewer than its batch), and
\* it runs again whenever it made progress or a quarter of a second has passed.
\* That the pipeline goes on with an upload is shown of UploadPipeline.
XFairness ==
    \A c \in PostClaims :
        /\ WF_xVars(Process(c))
        /\ \A o \in Ordinals : WF_xVars(Progress(c, o))

XSpec == XInit /\ [][XNext]_xVars /\ XFairness

--------------------------------------------------------------------------------
(* Types, and that only discovered assets have artifacts and uploads.           *)
XTypeOK ==
    /\ postClaim \in [PostClaims -> [state : {"absent"} \cup ActivePostStates \cup EndedPostStates,
                                     who : PostRequesters \cup {"nobody"}, post : Posts \cup {"nothing"},
                                     success : 0..MaxAssets, failure : 0..MaxAssets]]
    /\ asset \in [PostClaims -> [Ordinals ->
                    [state : {"absent", "cataloged", "failed"} \cup ActiveAssetStates,
                     code : Codes, linked : BOOLEAN]]]
    /\ folder \subseteq PostClaims \X Ordinals
    /\ transfer \in [PostClaims -> [Ordinals -> {"none", "receiving", "received", "cataloged",
                                                 "refused", "lost"}]]
    /\ troubles \in 0..MaxTroubles
    /\ \A c \in PostClaims, o \in Ordinals :
        asset[c][o].state = "absent" => <<c, o>> \notin folder /\ transfer[c][o] = "none"

(* Media that reached the library through a claim is known to the claim: its    *)
(* asset is not waiting to be downloaded again, and has not failed.             *)
LibraryIsAccounted ==
    \A c \in PostClaims, o \in Ordinals :
        transfer[c][o] = "cataloged" => asset[c][o].state \in {"staged", "handing_off", "cataloged"}

\* An asset that was linked before a retry is never handed over to the end.
Stranded(c) == \E o \in In(c, {"staged"}) : asset[c][o].linked

(* Every submitted claim ends, or hangs on an asset that was retried after its  *)
(* handoff had failed: whatever breaks on the way and whoever retries what, time *)
(* and again no other claim is left active.                                     *)
EveryPostEnds == []<>(\A c \in ActivePosts : Stranded(c))

================================================================================
