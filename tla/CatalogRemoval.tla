----------------------------- MODULE CatalogRemoval -----------------------------
(***************************************************************************)
(* Accepted covers, gallery previews and the removal of a medium from the  *)
(* catalogue: application/media_cover.py, gallery_preview.py and           *)
(* catalog_removal.py, with the repositories and the file storage below    *)
(* them.  Requests run in the server's thread pool, so the steps of one    *)
(* request interleave with those of the others wherever the code leaves a  *)
(* transaction or a file operation; a stop of the server forgets every     *)
(* request and keeps the database and the files.                           *)
(*                                                                         *)
(* A frame stands for the JPEG cut from one version of one file, and for   *)
(* its digest: both storages are addressed by content.                     *)
(***************************************************************************)
EXTENDS Naturals, FiniteSets

CONSTANTS
    Media,          \* logical media, each with its own identity for ever
    Locations,      \* physical locations, each with its own identity for ever
    MediaOf,        \* the medium a location belongs to
    Acceptors,      \* requests that accept a cover
    Generators,     \* workers that generate gallery previews
    Admins,         \* administrators that remove media and retry cleanups
    MaxSource,      \* bound: versions of a file
    MaxRevision,    \* bound: revisions of a cover
    Origins         \* bound: what may have brought a medium, of upload, youtube, x, scan

ASSUME RemovalAssumption ==
    /\ MediaOf \in [Locations -> Media]
    /\ MaxSource \in Nat \ {0} /\ MaxRevision \in Nat \ {0}
    /\ Origins \subseteq {"upload", "youtube", "x", "scan"}

Versions == 1..MaxSource
Nothing == [none |-> TRUE]
Idle == [at |-> "idle"]

VARIABLES
    alive,          \* the rows of logical_media
    linked,         \* the rows of physical_media_locations
    source,         \* the version of the file at a location
    origin,         \* what brought the medium: its row in upload_publications,
                    \* youtube_acquisition_claims or x_assets
    detached,       \* media whose upload or claim no longer points at them
    publications,   \* media_content_publications; the analysis runs of a medium, which the
                    \* fingerprint counts as well, and the category are like it
    described,      \* media_metadata with genres, tags and aliases: the media somebody
                    \* described, and so gave a title
    bound,          \* media a record is bound to
    covers,         \* media_covers
    artifacts,      \* <<medium, frame>>: durable cover artifacts on disk
    thumbnails,     \* <<medium, frame>>: cover thumbnails on disk
    previews,       \* [location, key, shown]: gallery previews on disk
    receipts,       \* media_catalog_removal_receipts
    late,           \* files that were written for a medium already removed
    acceptor, generator, admin

database == <<alive, linked, origin, detached, publications, described, bound, covers, receipts>>
files == <<source, artifacts, thumbnails, previews, late>>
requests == <<acceptor, generator, admin>>
removalVars == <<database, files, requests>>

RemovalInit ==
    /\ alive = Media
    /\ linked \in {chosen \in SUBSET Locations : {MediaOf[l] : l \in chosen} = Media}
    /\ source = [l \in Locations |-> 1]
    /\ origin \in [Media -> Origins]
    /\ detached = {} /\ publications = {} /\ described = {} /\ bound = {}
    /\ covers = [m \in Media |-> Nothing]
    /\ artifacts = {} /\ thumbnails = {} /\ previews = {} /\ late = {}
    /\ receipts = [m \in Media |-> Nothing]
    /\ acceptor = [a \in Acceptors |-> Idle]
    /\ generator = [g \in Generators |-> Idle]
    /\ admin = [a \in Admins |-> Idle]

-----------------------------------------------------------------------------
(* What changes around these requests.                                       *)

\* A file is replaced on disk: its size or its time of modification differ
\* from every earlier one.
ReplaceFile(l) ==
    /\ source[l] < MaxSource
    /\ source' = [source EXCEPT ![l] = @ + 1]
    /\ UNCHANGED <<database, artifacts, thumbnails, previews, late, requests>>

\* A scan finds another file of the same medium.
FindLocation(l) ==
    /\ MediaOf[l] \in alive
    /\ linked' = linked \union {l}
    /\ UNCHANGED <<alive, origin, detached, publications, described, bound, covers, receipts, files,
                   requests>>

PublishMedium(m) ==
    /\ m \in alive
    /\ publications' = publications \union {m}
    /\ UNCHANGED <<alive, linked, origin, detached, described, bound, covers, receipts, files, requests>>

\* Somebody saves the title and the other texts, tags, genres and aliases.
SaveMetadata(m) ==
    /\ m \in alive
    /\ described' = described \union {m}
    /\ UNCHANGED <<alive, linked, origin, detached, publications, bound, covers, receipts, files,
                   requests>>

BindRecord(m) ==
    /\ m \in alive
    /\ bound' = bound \union {m}
    /\ UNCHANGED <<alive, linked, origin, detached, publications, described, covers, receipts, files,
                   requests>>

-----------------------------------------------------------------------------
(* Accepting a cover.                                                        *)

AcceptorAt(a, at) == acceptor[a].at = at
SetAcceptor(a, state) ==
    /\ acceptor' = [acceptor EXCEPT ![a] = state]
    /\ UNCHANGED <<generator, admin>>

\* The author opens the cover page: the timeline with the version of the
\* source and the state with the revision of the cover.
OpenCoverPage(a, l) ==
    /\ AcceptorAt(a, "idle")
    /\ MediaOf[l] \in alive /\ l \in linked
    /\ SetAcceptor(a, [at |-> "chosen", location |-> l, version |-> source[l],
                       revision |-> IF covers[MediaOf[l]] = Nothing THEN 0 ELSE covers[MediaOf[l]].revision])
    /\ UNCHANGED <<database, files>>

\* The request: the medium and the location are still there and the first
\* probe finds the version the author saw; otherwise it is refused.
ResolveSupported(a) == MediaOf[acceptor[a].location] \in alive /\ acceptor[a].location \in linked

EnsureSourceVersion(a) == source[acceptor[a].location] = acceptor[a].version

BeginAccept(a) ==
    /\ AcceptorAt(a, "chosen")
    /\ IF ResolveSupported(a) /\ EnsureSourceVersion(a)
       THEN SetAcceptor(a, [acceptor[a] EXCEPT !.at = "probed"])
       ELSE SetAcceptor(a, Idle)
    /\ UNCHANGED <<database, files>>

\* The frame is cut from what the file holds at that moment.
ExtractFrame(a) ==
    /\ AcceptorAt(a, "probed")
    /\ SetAcceptor(a, [at |-> "extracted", location |-> acceptor[a].location,
                       version |-> acceptor[a].version, revision |-> acceptor[a].revision,
                       frame |-> [location |-> acceptor[a].location,
                                  version |-> source[acceptor[a].location]]])
    /\ UNCHANGED <<database, files>>

\* Mutant: the version the author saw is not compared again.
NotProbedAgain(a) == TRUE

\* The second probe must find what the first one found.
UnchangedByExtraction(a) == EnsureSourceVersion(a)

ProbeAgain(a) ==
    /\ AcceptorAt(a, "extracted")
    /\ IF UnchangedByExtraction(a)
       THEN SetAcceptor(a, [acceptor[a] EXCEPT !.at = "encoded"])
       ELSE SetAcceptor(a, Idle)
    /\ UNCHANGED <<database, files>>

\* A publication is a write to a temporary file, linked to its name at once
\* and never over an existing one.
NoClobberPublish(m, frame, written) == written \union {<<m, frame>>}
Lateness(m, kind, file) == IF m \in alive THEN late ELSE late \union {<<kind, m, file>>}

PublishArtifact(a) ==
    LET m == MediaOf[acceptor[a].location] IN
    /\ AcceptorAt(a, "encoded")
    /\ artifacts' = NoClobberPublish(m, acceptor[a].frame, artifacts)
    /\ late' = Lateness(m, "artifact", acceptor[a].frame)
    /\ SetAcceptor(a, [acceptor[a] EXCEPT !.at = "published"])
    /\ UNCHANGED <<database, source, thumbnails, previews>>

\* One transaction: the medium must exist and the revision be the one the
\* author saw; the same payload changes nothing.
SamePayload(m, draft) == covers[m] # Nothing /\ covers[m].frame = draft.frame /\ covers[m].version = draft.version

SetCover(a) ==
    LET m == MediaOf[acceptor[a].location]
        draft == [frame |-> acceptor[a].frame, version |-> acceptor[a].version]
        revision == IF covers[m] = Nothing THEN 0 ELSE covers[m].revision IN
    /\ AcceptorAt(a, "published")
    /\ revision < MaxRevision
    /\ IF m \in alive /\ acceptor[a].revision = revision
       THEN /\ SetAcceptor(a, [acceptor[a] EXCEPT !.at = "accepted"])
            /\ covers' = IF SamePayload(m, draft) THEN covers
                         ELSE [covers EXCEPT ![m] = [frame |-> draft.frame, version |-> draft.version,
                                                     revision |-> revision + 1]]
       ELSE SetAcceptor(a, Idle) /\ UNCHANGED covers
    /\ UNCHANGED <<alive, linked, origin, detached, publications, described, bound, receipts, files>>

\* The thumbnail is made from the artifact that is read back; a failure is
\* only reported.  The reading and the writing are two steps.
ReadArtifact(a) ==
    LET m == MediaOf[acceptor[a].location] IN
    /\ AcceptorAt(a, "accepted")
    /\ IF <<m, acceptor[a].frame>> \in artifacts /\ <<m, acceptor[a].frame>> \notin thumbnails
       THEN SetAcceptor(a, [acceptor[a] EXCEPT !.at = "thumbnail"])
       ELSE SetAcceptor(a, Idle)
    /\ UNCHANGED <<database, files>>

PublishThumbnail(a) ==
    LET m == MediaOf[acceptor[a].location] IN
    /\ AcceptorAt(a, "thumbnail")
    /\ \/ /\ thumbnails' = NoClobberPublish(m, acceptor[a].frame, thumbnails)
          /\ late' = Lateness(m, "thumbnail", acceptor[a].frame)
       \/ UNCHANGED <<thumbnails, late>>
    /\ SetAcceptor(a, Idle)
    /\ UNCHANGED <<database, source, artifacts, previews>>

\* `covers regenerate`: the thumbnail of the current cover, from its artifact.
RegenerateThumbnail(a, l) ==
    LET m == MediaOf[l] IN
    /\ AcceptorAt(a, "idle")
    /\ m \in alive /\ covers[m] # Nothing
    /\ SetAcceptor(a, [at |-> "accepted", location |-> l, version |-> covers[m].version,
                       revision |-> covers[m].revision, frame |-> covers[m].frame])
    /\ UNCHANGED <<database, files>>

-----------------------------------------------------------------------------
(* Gallery previews: the key names the version of the source.                *)

GeneratorAt(g, at) == generator[g].at = at
SetGenerator(g, state) ==
    /\ generator' = [generator EXCEPT ![g] = state]
    /\ UNCHANGED <<acceptor, admin>>

ContainsCurrent(l, key) == \E p \in previews : p.location = l /\ p.key = key

\* The status is computed first, and with it the key.
BeginPreview(g, l) ==
    /\ GeneratorAt(g, "idle")
    /\ MediaOf[l] \in alive /\ l \in linked
    /\ ~ContainsCurrent(l, source[l])
    /\ SetGenerator(g, [at |-> "keyed", location |-> l, key |-> source[l]])
    /\ UNCHANGED <<database, files>>

\* The frame is prepared from what the file holds then.
PrepareFrame(g) ==
    /\ GeneratorAt(g, "keyed")
    /\ SetGenerator(g, [at |-> "prepared", location |-> generator[g].location,
                        key |-> generator[g].key, shown |-> source[generator[g].location]])
    /\ UNCHANGED <<database, files>>

CacheKey(g) == generator[g].key

PublishPreview(g) ==
    LET l == generator[g].location IN
    /\ GeneratorAt(g, "prepared")
    /\ previews' = {p \in previews : ~(p.location = l /\ p.key = CacheKey(g))}
                   \union {[location |-> l, key |-> CacheKey(g), shown |-> generator[g].shown]}
    /\ late' = Lateness(MediaOf[l], "preview", l)
    /\ SetGenerator(g, Idle)
    /\ UNCHANGED <<database, source, artifacts, thumbnails>>

-----------------------------------------------------------------------------
(* Removal.                                                                  *)

AdminAt(a, at) == admin[a].at = at
SetAdmin(a, state) ==
    /\ admin' = [admin EXCEPT ![a] = state]
    /\ UNCHANGED <<acceptor, generator>>

\* What the preview tells the administrator of the medium.
CoverSeen(m) == IF covers[m] = Nothing THEN Nothing
                ELSE [revision |-> covers[m].revision, frame |-> covers[m].frame]
LoadSnapshot(m) ==
    [titled |-> m \in described, locations |-> {l \in linked : MediaOf[l] = m},
     published |-> m \in publications, cover |-> CoverSeen(m)]

\* The title, like the other texts, is no part of what is confirmed.
Fingerprint(m) == [part \in DOMAIN LoadSnapshot(m) \ {"titled"} |-> LoadSnapshot(m)[part]]

Preview(a, m) ==
    /\ AdminAt(a, "idle")
    /\ m \in alive
    /\ SetAdmin(a, [at |-> "confirming", medium |-> m, seen |-> Fingerprint(m)])
    /\ UNCHANGED <<database, files>>

\* A medium a record is bound to is refused, one that is gone or has changed
\* as well; the row of an asset taken from X keeps its medium by the foreign
\* key, so the whole transaction fails.
Removable(a) ==
    LET m == admin[a].medium IN
    /\ m \in alive
    /\ m \notin bound
    /\ Fingerprint(m) = admin[a].seen
    /\ origin[m] # "x"

BuildReceipt(m) ==
    [titled |-> LoadSnapshot(m).titled,
     frame |-> IF covers[m] = Nothing THEN Nothing ELSE covers[m].frame,
     locations |-> LoadSnapshot(m).locations,
     cover |-> IF covers[m] = Nothing THEN "none" ELSE "pending",
     preview |-> IF \E l \in linked : MediaOf[l] = m THEN "pending" ELSE "none"]

Refuse(a) ==
    /\ AdminAt(a, "confirming") /\ ~Removable(a)
    /\ SetAdmin(a, Idle)
    /\ UNCHANGED <<database, files>>

\* One transaction: the receipt, the claim or the upload, and every row of the
\* medium, what was written about it included, seen or not.  The cleanup that
\* follows works from the receipt.
RemoveCatalogMedia(a) ==
    LET m == admin[a].medium IN
    /\ AdminAt(a, "confirming") /\ Removable(a)
    /\ receipts' = [receipts EXCEPT ![m] = BuildReceipt(m)]
    /\ detached' = IF origin[m] \in {"upload", "youtube"} THEN detached \union {m} ELSE detached
    /\ covers' = [covers EXCEPT ![m] = Nothing]
    /\ described' = described \ {m}
    /\ publications' = publications \ {m}
    /\ linked' = {l \in linked : MediaOf[l] # m}
    /\ alive' = alive \ {m}
    /\ SetAdmin(a, [at |-> "cleaning", medium |-> m, read |-> BuildReceipt(m), cover |-> BuildReceipt(m).cover])
    /\ UNCHANGED <<origin, bound, files>>

\* The administrator retries from the receipt, at any time.
RetryCleanup(a, m) ==
    /\ AdminAt(a, "idle")
    /\ receipts[m] # Nothing
    /\ SetAdmin(a, [at |-> "cleaning", medium |-> m, read |-> receipts[m], cover |-> receipts[m].cover])
    /\ UNCHANGED <<database, files>>

Unfinished(state) == state \in {"pending", "failed"}

\* What an error of the file system makes of a state.
Swallowed(state) == "complete"
AfterError(state) == "failed"

\* The tree of the medium's artifacts.  An error may leave any part of it.
RemoveTree(a) ==
    LET m == admin[a].medium
        mine == {f \in artifacts : f[1] = m} IN
    /\ AdminAt(a, "cleaning")
    /\ IF Unfinished(admin[a].cover)
       THEN \/ /\ artifacts' = artifacts \ mine
               /\ SetAdmin(a, [admin[a] EXCEPT !.at = "thumbnail"])
            \/ \E left \in SUBSET mine :
                  /\ artifacts' = (artifacts \ mine) \union left
                  /\ SetAdmin(a, [admin[a] EXCEPT !.at = "previews", !.cover = AfterError(@)])
       ELSE SetAdmin(a, [admin[a] EXCEPT !.at = "previews"]) /\ UNCHANGED artifacts
    /\ UNCHANGED <<database, source, thumbnails, previews, late>>

\* Then the thumbnail of the digest the receipt names.
RemoveThumbnail(a) ==
    /\ AdminAt(a, "thumbnail")
    /\ \/ /\ thumbnails' = thumbnails \ {<<admin[a].medium, admin[a].read.frame>>}
          /\ SetAdmin(a, [admin[a] EXCEPT !.at = "previews", !.cover = "complete"])
       \/ /\ UNCHANGED thumbnails
          /\ SetAdmin(a, [admin[a] EXCEPT !.at = "previews", !.cover = AfterError(@)])
    /\ UNCHANGED <<database, source, artifacts, previews, late>>

\* The directories of the receipt's locations, one after the other; an error
\* ends the loop.  The outcomes are written in one update, whatever the
\* receipt says by then, and only when they differ from what was read.
CleanupPreviews(a) ==
    LET m == admin[a].medium
        mine == {p \in previews : p.location \in admin[a].read.locations} IN
    /\ AdminAt(a, "previews")
    /\ IF Unfinished(admin[a].read.preview)
       THEN \/ /\ previews' = previews \ mine
               /\ SetAdmin(a, [at |-> "saving", medium |-> m, read |-> admin[a].read,
                               cover |-> admin[a].cover, preview |-> "complete"])
            \/ \E left \in SUBSET mine :
                  /\ previews' = (previews \ mine) \union left
                  /\ SetAdmin(a, [at |-> "saving", medium |-> m, read |-> admin[a].read,
                                  cover |-> admin[a].cover, preview |-> AfterError(admin[a].read.preview)])
       ELSE /\ UNCHANGED previews
            /\ SetAdmin(a, [at |-> "saving", medium |-> m, read |-> admin[a].read,
                            cover |-> admin[a].cover, preview |-> admin[a].read.preview])
    /\ UNCHANGED <<database, source, artifacts, thumbnails, late>>

UpdateCleanupStates(a) ==
    LET m == admin[a].medium IN
    /\ AdminAt(a, "saving")
    /\ receipts' = IF admin[a].cover = admin[a].read.cover /\ admin[a].preview = admin[a].read.preview
                   THEN receipts
                   ELSE [receipts EXCEPT ![m].cover = admin[a].cover, ![m].preview = admin[a].preview]
    /\ SetAdmin(a, Idle)
    /\ UNCHANGED <<alive, linked, origin, detached, publications, described, bound, covers, files>>

\* The server stops: requests are forgotten, a confirmation page stays open.
OnPage(state) == state.at \in {"chosen", "confirming"}
Stop ==
    /\ \/ \E a \in Acceptors : ~OnPage(acceptor[a]) /\ acceptor[a] # Idle
       \/ \E g \in Generators : generator[g] # Idle
       \/ \E b \in Admins : ~OnPage(admin[b]) /\ admin[b] # Idle
    /\ acceptor' = [a \in Acceptors |-> IF OnPage(acceptor[a]) THEN acceptor[a] ELSE Idle]
    /\ generator' = [g \in Generators |-> Idle]
    /\ admin' = [a \in Admins |-> IF OnPage(admin[a]) THEN admin[a] ELSE Idle]
    /\ UNCHANGED <<database, files>>

Covering(a) ==
    \/ \E l \in Locations : OpenCoverPage(a, l) \/ RegenerateThumbnail(a, l)
    \/ BeginAccept(a) \/ ExtractFrame(a) \/ ProbeAgain(a) \/ PublishArtifact(a)
    \/ SetCover(a) \/ ReadArtifact(a) \/ PublishThumbnail(a)

Previewing(g) ==
    \/ \E l \in Locations : BeginPreview(g, l)
    \/ PrepareFrame(g) \/ PublishPreview(g)

Removing(a) ==
    \/ \E m \in Media : Preview(a, m) \/ RetryCleanup(a, m)
    \/ Refuse(a) \/ RemoveCatalogMedia(a)
    \/ RemoveTree(a) \/ RemoveThumbnail(a) \/ CleanupPreviews(a) \/ UpdateCleanupStates(a)

RemovalNext ==
    \/ \E a \in Acceptors : Covering(a)
    \/ \E g \in Generators : Previewing(g)
    \/ \E a \in Admins : Removing(a)
    \/ \E l \in Locations : ReplaceFile(l) \/ FindLocation(l)
    \/ \E m \in Media : PublishMedium(m) \/ SaveMetadata(m) \/ BindRecord(m)
    \/ Stop

RemovalSpec == RemovalInit /\ [][RemovalNext]_removalVars

-----------------------------------------------------------------------------
Frames == [location : Locations, version : Versions]
CoverRows == [frame : Frames, version : Versions, revision : 1..MaxRevision]
Outcomes == {"none", "pending", "failed", "complete"}
ReceiptRows == [titled : BOOLEAN, frame : Frames \union {Nothing}, locations : SUBSET Locations,
                cover : Outcomes, preview : Outcomes]
Fingerprints == [locations : SUBSET Locations, published : BOOLEAN,
                 cover : [revision : 1..MaxRevision, frame : Frames] \union {Nothing}]

AcceptorStates ==
    {Idle}
    \union [at : {"chosen", "probed"}, location : Locations, version : Versions,
            revision : 0..MaxRevision]
    \union [at : {"extracted", "encoded", "published", "accepted", "thumbnail"},
            location : Locations, version : Versions, revision : 0..MaxRevision, frame : Frames]
GeneratorStates ==
    {Idle}
    \union [at : {"keyed"}, location : Locations, key : Versions]
    \union [at : {"prepared"}, location : Locations, key : Versions, shown : Versions]
AdminStates ==
    {Idle}
    \union [at : {"confirming"}, medium : Media, seen : Fingerprints]
    \union [at : {"cleaning", "thumbnail", "previews"}, medium : Media, read : ReceiptRows,
            cover : Outcomes]
    \union [at : {"saving"}, medium : Media, read : ReceiptRows, cover : Outcomes, preview : Outcomes]

(* A medium that was removed is gone from every table but the receipts.      *)
RemovalTypeOK ==
    /\ alive \subseteq Media
    /\ linked \subseteq Locations /\ \A l \in linked : MediaOf[l] \in alive
    /\ source \in [Locations -> Versions]
    /\ origin \in [Media -> Origins]
    /\ detached \subseteq Media
    /\ publications \subseteq alive /\ described \subseteq alive /\ bound \subseteq alive
    /\ covers \in [Media -> CoverRows \union {Nothing}]
    /\ \A m \in Media \ alive : covers[m] = Nothing
    /\ artifacts \subseteq Media \X Frames
    /\ thumbnails \subseteq Media \X Frames
    /\ previews \subseteq [location : Locations, key : Versions, shown : Versions]
    /\ late \subseteq ({"artifact", "thumbnail"} \X Media \X Frames)
                      \union ({"preview"} \X Media \X Locations)
    /\ receipts \in [Media -> ReceiptRows \union {Nothing}]
    /\ \A m \in Media : receipts[m] # Nothing <=> m \notin alive
    /\ acceptor \in [Acceptors -> AcceptorStates]
    /\ generator \in [Generators -> GeneratorStates]
    /\ admin \in [Admins -> AdminStates]

(* A receipt that calls the cleanup complete tells the truth of what the     *)
(* removal left behind: of the files its receipt names only those remain     *)
(* that were still being written while the medium was removed, although      *)
(* cleanups overlap, fail half way and overwrite each other's outcome        *)
(* (CatalogMediaRemovalService._run_cleanup, update_cleanup_states).         *)
CompleteMeansGone ==
    \A m \in Media : receipts[m] # Nothing =>
        /\ receipts[m].cover = "complete" =>
              /\ \A f \in artifacts : f[1] = m => <<"artifact", m, f[2]>> \in late
              /\ <<m, receipts[m].frame>> \in thumbnails => <<"thumbnail", m, receipts[m].frame>> \in late
        /\ receipts[m].preview = "complete" =>
              \A p \in previews : p.location \in receipts[m].locations => <<"preview", m, p.location>> \in late

(* An image is what its name claims: an accepted cover has its artifact on   *)
(* disk, cut from the version of the file it names, and a gallery preview    *)
(* under the key of a file as it is now shows that file, although files are  *)
(* replaced while a frame is cut, requests overlap with removals and their   *)
(* cleanups, and the server stops between any two steps (CoverService.accept,*)
(* GalleryPreviewService.generate_one).                                      *)
ImagesAreOfTheirSource ==
    /\ \A m \in Media : covers[m] # Nothing =>
          /\ covers[m].frame.version = covers[m].version
          /\ <<m, covers[m].frame>> \in artifacts
    /\ \A p \in previews : p.key = source[p.location] => p.shown = p.key

=============================================================================
