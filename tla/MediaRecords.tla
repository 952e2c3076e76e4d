------------------------------ MODULE MediaRecords ------------------------------
(* One medium of the catalogue and the people around it: its metadata, the       *)
(* suggestions of its analysis runs and the review that accepts them             *)
(* (companion_review_repository.py), its explicit publication                    *)
(* (content_publication_repository.py) and the common record that may be bound   *)
(* to it, with an administrator's approvals for the family                       *)
(* (record_repository.py).  Every operation is one database transaction, except  *)
(* the approval, whose request prepares a candidate in one transaction and       *)
(* approves it in another.                                                       *)
(*                                                                               *)
(* A text is named by the run that suggests it, though a person may type it as   *)
(* well; Blank is no text.  Runs are numbered in the order of (completed_at_ms,  *)
(* id), in which they need not finish: clocks are set back.                      *)
EXTENDS Naturals, FiniteSetsExt, SequencesExt

CONSTANTS
    Texts,       \* the text fields: display_title and description
    Tags,        \* canonical tags
    MaxRuns,     \* bound: analysis runs of the medium
    Eligible,    \* eligible_mapped_tag_keys of a run, in its order
    MaxTags,     \* MAX_MEDIA_TAGS
    Openers,     \* the members who open suggestions
    Covers,      \* artifact digests of covers, numbers above 0
    MaxVersion   \* bound: the version of the record

Runs == 1..MaxRuns

ASSUME RecordsAssumption ==
    /\ "tags" \notin Texts /\ MaxRuns \in Nat /\ MaxTags \in Nat /\ MaxVersion \in Nat
    /\ Covers \subseteq Nat \ {0}
    /\ Eligible \in [Runs -> Seq(Tags)] /\ \A r \in Runs : IsInjective(Eligible[r])

VARIABLES
    meta,       \* media_metadata and media_canonical_tags
    cover,      \* media_covers: the artifact's digest, or 0
    located,    \* whether a second location of the medium is known
    published,  \* a row in media_content_publications
    done,       \* analysed runs
    record,     \* kronika_records and the rows of the approved snapshot
    receipt,    \* companion_review_field_sources
    tagSource,  \* companion_review_tag_sources: the run, or 0
    opened,     \* companion_review_open_states: the run, or 0
    screen,     \* the panel of the review: the version it was given, and, as history,
                \* what the medium was then
    looked,     \* history: what its page showed since the panel has this version
    candidate,  \* the approval candidate of a request under way
    appended    \* history: the run whose review put a present tag there, or 0

vars == <<meta, cover, located, published, done, record, receipt, tagSource, opened,
          screen, looked, candidate, appended>>

Blank == 0
Values == Blank..MaxRuns
TagLists == {s \in SeqOf(Tags, MaxTags) : IsInjective(s)}
Fields == Texts \cup {"tags"}

\* An ordinary reader is the owner of the record, who also contributed the
\* medium, or another member of the family.
Members == {"owner", "member"}
Readers == {"administrator"} \cup Members

None == [none |-> TRUE]

ValueOf(m, f) == IF f = "tags" THEN m.tags ELSE m.text[f]
Ready(m) == m.tags # <<>> /\ \A f \in Texts : m.text[f] # Blank
Bound == record # None

\* What an approval freezes, the number of locations included.
Content == [text |-> meta.text, tags |-> meta.tags, cover |-> cover,
            run |-> IF Bound THEN record.run ELSE 0]
Projection == [content |-> Content, located |-> located, version |-> record.version]

Init ==
    /\ meta \in [persisted : BOOLEAN, text : [Texts -> {Blank}], tags : {<<>>}]
    /\ cover = 0 /\ located = FALSE /\ published = FALSE /\ done = {}
    /\ record = None /\ receipt = [f \in Fields |-> None]
    /\ tagSource = [t \in Tags |-> 0] /\ opened = [p \in Openers |-> 0]
    /\ screen = None /\ looked = None /\ candidate = None
    /\ appended = [t \in Tags |-> 0]

Contents == [text : [Texts -> Values], tags : TagLists, cover : Covers \cup {0}, run : Values]
Looks == [text : [Texts -> Values], tags : TagLists, cover : Covers \cup {0}]
Projections == [content : Contents, located : BOOLEAN, version : Nat]
Records == [version : Nat, family : BOOLEAN, run : Values, completed : BOOLEAN,
            approved : Projections \cup {None}, rows : Projections \cup {None}, timeline : BOOLEAN]
Receipts(f) == [run : Runs, digest : IF f = "tags" THEN TagLists ELSE Values] \cup {None}

(* INVARIANT of types: the rows of the medium and of its record, what the        *)
(* administrator was given to read and the candidate of an approval.             *)
TypeOK ==
    /\ meta \in [persisted : BOOLEAN, text : [Texts -> Values], tags : TagLists]
    /\ cover \in Covers \cup {0} /\ located \in BOOLEAN /\ published \in BOOLEAN
    /\ done \in SUBSET Runs
    /\ record \in Records \cup {None}
    /\ \A f \in Fields : receipt[f] \in Receipts(f)
    /\ tagSource \in [Tags -> Values] /\ appended \in [Tags -> Values]
    /\ opened \in [Openers -> Values]
    /\ screen \in [version : Nat, held : Contents] \cup {None}
    /\ looked \in Looks \cup {None}
    /\ candidate \in Projections \cup {None}

\* bump_bound_record_version, with what else changes of the record.
Changed(new) == [new EXCEPT !.version = @ + 1]
Bump ==
    /\ Bound => record.version < MaxVersion
    /\ record' = IF Bound THEN Changed(record) ELSE record

--------------------------------------------------------------------------------
\* _delete_stale_companion_receipts: a receipt goes with the value it is about.
KeptIfCurrent(f, new) ==
    IF receipt[f] # None /\ receipt[f].digest = ValueOf(new, f) THEN receipt[f] ELSE None

\* Mutant: the source of a tag stays when somebody takes the tag away.
KeptForEver(t, tags) == tagSource[t]

\* _delete_removed_companion_tag_sources
KeptIfPresent(t, tags) == IF Contains(tags, t) THEN tagSource[t] ELSE 0

(* save_media_metadata: somebody saves the form, the whole of it.                *)
Save(text, tags) ==
    LET new == [persisted |-> TRUE, text |-> text, tags |-> tags] IN
    /\ new # meta
    /\ meta' = new
    /\ receipt' = [f \in Fields |-> KeptIfCurrent(f, new)]
    /\ tagSource' = [t \in Tags |-> KeptIfPresent(t, tags)]
    /\ appended' = [t \in Tags |-> IF Contains(meta.tags, t) /\ Contains(tags, t) THEN appended[t] ELSE 0]
    /\ Bump
    /\ UNCHANGED <<cover, located, published, done, opened, screen, looked, candidate>>

\* set_cover with another artifact.
AcceptCover(d) ==
    /\ d # cover
    /\ cover' = d
    /\ Bump
    /\ UNCHANGED <<meta, located, published, done, receipt, tagSource, opened, screen, looked,
                   candidate, appended>>

\* A scan or an import adds a location: no version moves.
AddLocation ==
    /\ ~located /\ located' = TRUE
    /\ UNCHANGED <<meta, cover, published, done, record, receipt, tagSource, opened, screen, looked,
                   candidate, appended>>

(* An analysis run succeeds; note_successful_analysis points a bound record at   *)
(* it, in the same transaction.                                                  *)
FinishAnalysis(r) ==
    /\ r \notin done /\ done' = done \cup {r}
    /\ Bound => record.version < MaxVersion
    /\ record' = IF Bound THEN Changed([record EXCEPT !.run = r, !.completed = TRUE]) ELSE record
    /\ UNCHANGED <<meta, cover, located, published, receipt, tagSource, opened, screen, looked,
                   candidate, appended>>

--------------------------------------------------------------------------------
\* _require_eligible_run; movies, which have no review, are left out.
Reviewable(r) == r \in done

\* is_ordered_subsequence
OrderedSubsequence(chosen, eligible) ==
    \E S \in SUBSET ToSet(eligible) : chosen = SelectSeq(eligible, LAMBDA t : t \in S)

\* _preserve_append_tag_keys
PreserveAppend(current, chosen) ==
    LET after[i \in 0..Len(chosen)] ==
          IF i = 0 THEN current
          ELSE IF Contains(current, chosen[i]) THEN after[i - 1] ELSE Append(after[i - 1], chosen[i])
    IN after[Len(chosen)]

\* _upsert_field_source
Upsert(f, r, new) == [run |-> r, digest |-> ValueOf(new, f)]

(* apply_review: the chosen fields take what run r suggested, and the chosen     *)
(* tags are appended.  The version moves even when no value does.                *)
ApplyReview(r, fields, chosen) ==
    LET tags == PreserveAppend(meta.tags, chosen)
        new == [meta EXCEPT !.persisted = TRUE, !.tags = tags,
                            !.text = [f \in Texts |-> IF f \in fields THEN r ELSE @[f]]]
        fresh == ToSet(chosen) \ ToSet(meta.tags) IN
    /\ fields # {} /\ ("tags" \in fields <=> chosen # <<>>)
    /\ Reviewable(r) /\ OrderedSubsequence(chosen, Eligible[r])
    /\ Len(tags) <= MaxTags
    /\ meta' = new
    /\ receipt' = [f \in Fields |-> IF f \in fields THEN Upsert(f, r, new) ELSE receipt[f]]
    /\ tagSource' = [t \in Tags |-> IF t \in fresh /\ tagSource[t] = 0 THEN r ELSE tagSource[t]]
    /\ appended' = [t \in Tags |-> IF t \in fresh THEN r ELSE appended[t]]
    /\ Bump
    /\ UNCHANGED <<cover, located, published, done, opened, screen, looked, candidate>>

(* mark_opened, which may arrive after the mark of a later run.                  *)
MarkOpened(p, r) ==
    /\ Reviewable(r)
    /\ opened' = [opened EXCEPT ![p] = IF @ > r THEN @ ELSE r]
    /\ UNCHANGED <<meta, cover, located, published, done, record, receipt, tagSource, screen, looked,
                   candidate, appended>>

--------------------------------------------------------------------------------
(* publish and unpublish, for media without a record.                            *)
Publish ==
    /\ ~Bound /\ ~published /\ Ready(meta)
    /\ published' = TRUE
    /\ UNCHANGED <<meta, cover, located, done, record, receipt, tagSource, opened, screen, looked,
                   candidate, appended>>

Unpublish ==
    /\ ~Bound /\ published
    /\ published' = FALSE
    /\ UNCHANGED <<meta, cover, located, done, record, receipt, tagSource, opened, screen, looked,
                   candidate, appended>>

(* bind_media_record: the medium gets a private record.                          *)
Bind ==
    /\ ~Bound
    /\ record' = [version |-> 1, family |-> FALSE, run |-> 0, completed |-> FALSE,
                  approved |-> None, rows |-> None, timeline |-> FALSE]
    /\ UNCHANGED <<meta, cover, located, published, done, receipt, tagSource, opened, screen, looked,
                   candidate, appended>>

(* The panel of the review reads the record (kronikaLoadReviewDetail): a version *)
(* and a summary, without anything of the medium.  It does so as often as the    *)
(* administrator chooses, after a conflict as well.                              *)
ReadVersion ==
    /\ Bound
    /\ screen' = [version |-> record.version, held |-> Content]
    /\ looked' = IF screen # None /\ screen.version = record.version THEN looked ELSE None
    /\ UNCHANGED <<meta, cover, located, published, done, record, receipt, tagSource, opened,
                   candidate, appended>>

\* What the page of the medium shows an administrator; it carries no version.
Visible == [text |-> meta.text, tags |-> meta.tags, cover |-> cover]

(* "Open details": the content is read in a request of its own.  Looking before  *)
(* the panel has a version leaves no trace here.                                 *)
OpenDetails ==
    /\ screen # None
    /\ looked' = Visible
    /\ UNCHANGED <<meta, cover, located, published, done, record, receipt, tagSource, opened,
                   screen, candidate, appended>>

\* _build_projection refuses a record without a result, and an unready medium.
Approvable == record.completed /\ record.run \in done /\ Ready(meta)

(* A request to approve, which names the version of the panel: prepare_approval, *)
(* and the version compared with that of the candidate.                          *)
Prepare ==
    /\ screen # None /\ candidate = None
    /\ Approvable /\ record.version = screen.version
    /\ candidate' = Projection
    /\ UNCHANGED <<meta, cover, located, published, done, record, receipt, tagSource, opened,
                   screen, looked, appended>>

\* Mutant: the candidate is approved whatever happened since.
UnchangedSince == Approvable

\* digest: a hash of everything in the projection.
SameDigest(p, q) == p = q

\* The checks of approve: version, digest and run.
StillAsPrepared ==
    /\ record.version = candidate.version
    /\ Approvable /\ SameDigest(Projection, candidate)

\* _same_approval_substance: the version is not compared.
SameSubstance == /\ record.approved # None
                 /\ record.approved = [Projection EXCEPT !.version = record.approved.version]

\* The snapshot, as JSON and, by _replace_approved_media, as rows for the lists.
Frozen == [record EXCEPT !.approved = Projection, !.rows = Projection]

(* approve: the snapshot is frozen and the family sees it.                       *)
Approve ==
    /\ candidate # None
    /\ candidate' = None
    /\ IF StillAsPrepared /\ ~(record.family /\ SameSubstance)
       THEN /\ record.version < MaxVersion
            /\ record' = Changed([Frozen EXCEPT !.family = TRUE, !.timeline = TRUE])
       ELSE UNCHANGED record
    /\ UNCHANGED <<meta, cover, located, published, done, receipt, tagSource, opened, screen, looked,
                   appended>>

(* withdraw, with the version of the panel; the snapshot stays stored.           *)
Withdraw ==
    /\ screen # None /\ record.version = screen.version /\ record.family
    /\ record.version < MaxVersion
    /\ record' = Changed([record EXCEPT !.family = FALSE])
    /\ UNCHANGED <<meta, cover, located, published, done, receipt, tagSource, opened, screen, looked,
                   candidate, appended>>

--------------------------------------------------------------------------------
Next ==
    \/ \E text \in [Texts -> Values], tags \in TagLists : Save(text, tags)
    \/ \E d \in Covers : AcceptCover(d)
    \/ AddLocation
    \/ \E r \in Runs : FinishAnalysis(r)
    \/ \E r \in Runs, fields \in SUBSET Fields, chosen \in TagLists : ApplyReview(r, fields, chosen)
    \/ \E p \in Openers, r \in Runs : MarkOpened(p, r)
    \/ Publish \/ Unpublish \/ Bind \/ ReadVersion \/ OpenDetails \/ Prepare \/ Approve \/ Withdraw

Spec == Init /\ [][Next]_vars

--------------------------------------------------------------------------------
(* Who may read, as the item-level policy decides it.                            *)

\* decide_bound_read
BoundDecision(p) ==
    IF p \in {"administrator", "owner"} THEN "current"
    ELSE IF record.family /\ record.approved # None /\ record.completed THEN "approved"
    ELSE "deny"

\* ContentAudiencePolicy.read_decision; the owner is the requester of the medium.
ReadDecision(p) ==
    IF Bound THEN BoundDecision(p)
    ELSE IF p = "administrator" THEN "current"
    ELSE IF published \/ p = "owner" THEN "legacy"
    ELSE "deny"

(* Who may read, as the SQL of the lists decides it.                             *)

OwnOrUnbound(p) == (Bound /\ p = "owner") \/ ~Bound

\* Mutant: what was approved once is listed.
ApprovedOnce(p) == Bound /\ p # "owner" /\ record.approved # None

\* member_approved_media_predicate
ApprovedOfOthers(p) ==
    /\ Bound /\ p # "owner"
    /\ record.family /\ record.approved # None /\ record.completed

\* catalog_scope_predicate
InScope(p) == p = "administrator" \/ OwnOrUnbound(p) \/ ApprovedOfOthers(p)

\* unbound_published_or_owned, which alone does not look for a record.
InGallery(p) == (Bound /\ p = "owner") \/ ApprovedOfOthers(p) \/ published

\* The list of media of a member, and the one of an administrator.
Listed(p) == InScope(p) /\ (p \in Members => InGallery(p))

\* A title asked for is compared with the live one or with the approved one.
Found(p, v) ==
    /\ Listed(p)
    /\ IF p = "administrator" THEN meta.text["display_title"] = v
       ELSE \/ OwnOrUnbound(p) /\ meta.text["display_title"] = v
            \/ ApprovedOfOthers(p) /\ record.rows.content.text["display_title"] = v

\* What a list shows of the medium: the approved rows laid over the live ones.
Shown(p) == IF p \in Members /\ p # "owner" /\ Bound /\ record.family
            THEN record.rows.content ELSE Content

\* What the page of the medium shows.
Page(p) == IF ReadDecision(p) = "approved" THEN record.approved.content ELSE Content

\* _load_field_sources: a receipt is shown while its digest is that of the value.
ShownSource(f) == IF receipt[f] # None /\ receipt[f].digest = ValueOf(meta, f) THEN receipt[f].run ELSE 0

\* _load_tag_sources, of the tags that are present.
ShownTagSource(t) == IF Contains(meta.tags, t) THEN tagSource[t] ELSE 0

InTimeline == Bound /\ record.family /\ record.approved # None /\ record.timeline

(* INVARIANT. The lists (SQL) and the pages (Python) decide alike: what a reader *)
(* is shown in a list, finds by title or sees in the Timeline is what the page   *)
(* of the medium gives, and it is the frozen snapshot for a member of the family *)
(* who does not own it, never the draft.                                         *)
SurfacesAgree ==
    \A p \in Readers :
        /\ Listed(p) => ReadDecision(p) # "deny" /\ Shown(p) = Page(p)
        /\ Bound => (Listed(p) <=> ReadDecision(p) # "deny")
        /\ InTimeline => ReadDecision(p) # "deny"
        /\ \A v \in Values : Found(p, v) => Page(p).text["display_title"] = v

(* ACTION PROPERTY. The family begins to see a snapshot only when it is what the *)
(* medium was when the panel was given the version that the approval names, and  *)
(* what its page showed the administrator since then: approve compares the       *)
(* version, which every edit, cover and analysis moves, and the digest.  What    *)
(* was read before the panel had that version may differ from it.                *)
FamilySeesTheNamedVersion ==
    [][Bound /\ record'.family /\ (~record.family \/ record'.approved # record.approved)
         => LET content == record'.approved.content IN
            /\ record'.approved = candidate /\ candidate.version = screen.version
            /\ content = screen.held
            /\ looked # None => \A part \in DOMAIN looked : content[part] = looked[part]]_vars

(* INVARIANT. A receipt that is shown for a text tells the run whose text it is, *)
(* and the source shown for a tag is the run whose review put it there: nothing  *)
(* that a person typed or chose is ascribed to a model.                          *)
ReceiptsAreHonest ==
    /\ \A f \in Texts : ShownSource(f) # 0 => meta.text[f] = ShownSource(f)
    /\ \A t \in Tags : ShownTagSource(t) # 0 => appended[t] = ShownTagSource(t)

================================================================================
