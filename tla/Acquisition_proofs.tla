--------------------------- MODULE Acquisition_proofs ---------------------------
(* Proofs about the acquisition of media of posts (XAcquisition) and of videos *)
(* (YouTubeAcquisition), for any number of claims, assets, requesters, faults  *)
(* and library items, and about the end of the process (Shutdown), for any set *)
(* of working coordinators and any number of cancellations.                    *)
EXTENDS YouTubeAcquisition, XAcquisition, Shutdown, FiniteSetTheorems, WellFoundedInduction, TLAPS

LEMMA LeastNumber ==
  ASSUME NEW T \in SUBSET Nat, T # {}
  PROVE  \E n \in T : \A m \in T : n <= m
<1> DEFINE R == OpToRel(<, Nat)
<1>1. IsWellFoundedOn(R, Nat)
  BY NatLessThanWellFounded
<1>2. \E n \in T : \A m \in T : ~ (<<m, n>> \in R)
  BY <1>1, WFMin
<1>3. ASSUME NEW n \in T, NEW m \in T, ~ (<<m, n>> \in R)
      PROVE  n <= m
  BY <1>3 DEF OpToRel
<1> QED
  BY <1>2, <1>3

-----------------------------------------------------------------------------
(* XAcquisition: the media of posts.                                         *)

PostRows == [state : {"absent"} \cup ActivePostStates \cup EndedPostStates,
             who : PostRequesters \cup {"nobody"}, post : Posts \cup {"nothing"},
             success : 0..MaxAssets, failure : 0..MaxAssets]
AssetRows == [state : {"absent", "cataloged", "failed"} \cup ActiveAssetStates,
              code : Codes, linked : BOOLEAN]
Transfers == {"none", "receiving", "received", "cataloged", "refused", "lost"}

\* A claim whose post has not been inspected since it was queued.
Uninspected == {"absent", "submitted", "queued", "extracting"}
Inspected == {"acquiring", "handing_off", "completed", "completed_partial", "failed"}

\* An asset whose bytes are all in its upload session, or in the library.
Accountable == {"staged", "handing_off", "cataloged"}

NothingDiscovered ==
    \A c \in PostClaims : postClaim[c].state \in Uninspected =>
        \A o \in Ordinals : asset[c][o].state = "absent"
WholeUploadsKnown ==
    \A c \in PostClaims, o \in Ordinals :
        transfer[c][o] \in {"received", "cataloged"} => asset[c][o].state \in Accountable

XInv == XTypeOK /\ NothingDiscovered /\ WholeUploadsKnown

LEMMA FirstIsMember ==
  ASSUME NEW S \in SUBSET Ordinals, S # {}
  PROVE  First(S) \in S
<1>1. S \in SUBSET Nat
  BY XAssumption DEF Ordinals
<1>2. \E o \in S : \A p \in S : o <= p
  BY <1>1, LeastNumber
<1> QED
  BY <1>2 DEF First

\* What an asset that is First among those in some states is.
LEMMA FirstIn ==
  ASSUME NEW c, NEW states, In(c, states) # {}
  PROVE  /\ First(In(c, states)) \in Ordinals
         /\ asset[c][First(In(c, states))].state \in states
         /\ asset[c][First(In(c, states))].state # "absent"
<1>1. In(c, states) \in SUBSET Ordinals
  BY DEF In, Discovered
<1>2. First(In(c, states)) \in In(c, states)
  BY <1>1, FirstIsMember
<1> QED
  BY <1>2 DEF In, Discovered

\* A count of assets is a number of at most MaxAssets.
LEMMA CountOfAssets ==
  ASSUME NEW S \in SUBSET Ordinals
  PROVE  Cardinality(S) \in 0..MaxAssets
<1>1. IsFiniteSet(Ordinals) /\ Cardinality(Ordinals) = MaxAssets
  BY XAssumption, FS_Interval DEF Ordinals
<1>2. IsFiniteSet(S) /\ Cardinality(S) <= Cardinality(Ordinals)
  BY <1>1, FS_Subset
<1>3. Cardinality(S) \in Nat
  BY <1>2, FS_CardinalityType
<1> QED
  BY <1>1, <1>2, <1>3, XAssumption

LEMMA AfterFault ==
  ASSUME XTypeOK, PostFault \/ UNCHANGED troubles
  PROVE  troubles' \in 0..MaxTroubles
  BY XAssumption DEF XTypeOK, PostFault

\* SetClaim in the form of ClaimSaved.
LEMMA ClaimSet ==
  ASSUME XTypeOK, NEW c \in PostClaims, NEW s \in ActivePostStates \cup EndedPostStates, SetClaim(c, s)
  PROVE  \E r \in PostRows : r.state = s /\ postClaim' = [postClaim EXCEPT ![c] = r]
<1> DEFINE r == [postClaim[c] EXCEPT !.state = s]
<1>1. r \in PostRows /\ r.state = s
  BY ZenonT(60) DEF XTypeOK, PostRows
<1>2. postClaim' = [postClaim EXCEPT ![c] = r]
  BY DEF XTypeOK, SetClaim
<1> QED
  BY <1>1, <1>2

(* One asset of an inspected claim is saved, with what its upload, its artifact *)
(* and its claim become.                                                        *)
LEMMA AssetSaved ==
  ASSUME XInv, NEW c \in PostClaims, NEW o \in Ordinals,
         postClaim[c].state \notin Uninspected, asset[c][o].state # "absent",
         NEW r \in AssetRows, r.state # "absent", asset' = [asset EXCEPT ![c][o] = r],
         NEW x \in Transfers, transfer' = [transfer EXCEPT ![c][o] = x],
         x \in {"received", "cataloged"} => r.state \in Accountable,
         folder' \subseteq folder \cup {<<c, o>>},
         UNCHANGED postClaim \/ \E s \in Inspected : SetClaim(c, s),
         PostFault \/ UNCHANGED troubles
  PROVE  XInv'
<1>1. /\ postClaim \in [PostClaims -> PostRows] /\ asset \in [PostClaims -> [Ordinals -> AssetRows]]
      /\ transfer \in [PostClaims -> [Ordinals -> Transfers]] /\ folder \subseteq PostClaims \X Ordinals
  BY DEF XInv, XTypeOK, PostRows, AssetRows, Transfers
<1>2. /\ postClaim' \in [PostClaims -> PostRows]
      /\ \A d \in PostClaims : postClaim'[d].state \in Uninspected =>
            postClaim[d].state \in Uninspected /\ d # c
  <2>1. CASE UNCHANGED postClaim
    BY <1>1, <2>1
  <2>2. ASSUME NEW s \in Inspected, SetClaim(c, s)
        PROVE  /\ postClaim' \in [PostClaims -> PostRows]
               /\ \A d \in PostClaims : postClaim'[d].state \in Uninspected =>
                     postClaim[d].state \in Uninspected /\ d # c
    <3>1. s \in ActivePostStates \cup EndedPostStates /\ s \notin Uninspected
      BY DEF Inspected, Uninspected, ActivePostStates, EndedPostStates, Successful
    <3>2. PICK row \in PostRows : row.state = s /\ postClaim' = [postClaim EXCEPT ![c] = row]
      BY <2>2, <3>1, ClaimSet DEF XInv
    <3> QED
      BY <1>1, <3>1, <3>2
  <2> QED
    BY <2>1, <2>2
<1>3. /\ asset' \in [PostClaims -> [Ordinals -> AssetRows]]
      /\ asset'[c][o] = r
      /\ \A d \in PostClaims, p \in Ordinals : ~(d = c /\ p = o) => asset'[d][p] = asset[d][p]
  BY <1>1
<1>4. /\ transfer' \in [PostClaims -> [Ordinals -> Transfers]]
      /\ transfer'[c][o] = x
      /\ \A d \in PostClaims, p \in Ordinals : ~(d = c /\ p = o) => transfer'[d][p] = transfer[d][p]
  BY <1>1
<1>5. \A d \in PostClaims, p \in Ordinals : <<d, p>> \in folder' => <<d, p>> \in folder \/ (d = c /\ p = o)
  OBVIOUS
<1>6. folder' \subseteq PostClaims \X Ordinals
  BY <1>1
<1>7. XTypeOK'
  <2>1. \A d \in PostClaims, p \in Ordinals :
            asset'[d][p].state = "absent" => <<d, p>> \notin folder' /\ transfer'[d][p] = "none"
    BY <1>3, <1>4, <1>5 DEF XInv, XTypeOK
  <2>2. troubles' \in 0..MaxTroubles
    BY AfterFault DEF XInv
  <2> QED
    BY <1>2, <1>3, <1>4, <1>6, <2>1, <2>2 DEF XTypeOK, PostRows, AssetRows, Transfers
<1>8. NothingDiscovered'
  BY <1>2, <1>3 DEF XInv, NothingDiscovered
<1>9. WholeUploadsKnown'
  BY <1>3, <1>4 DEF XInv, WholeUploadsKnown
<1> QED
  BY <1>7, <1>8, <1>9 DEF XInv

(* A claim moves on, and its assets and uploads are what they were.             *)
LEMMA ClaimSaved ==
  ASSUME XInv, NEW c \in PostClaims, UNCHANGED <<asset, transfer>>, folder' \subseteq folder,
         NEW r \in PostRows, postClaim' = [postClaim EXCEPT ![c] = r],
         r.state \in Uninspected => \A o \in Ordinals : asset[c][o].state = "absent",
         PostFault \/ UNCHANGED troubles
  PROVE  XInv'
<1>1. /\ postClaim' \in [PostClaims -> PostRows] /\ postClaim'[c] = r
      /\ \A d \in PostClaims : d # c => postClaim'[d] = postClaim[d]
  BY DEF XInv, XTypeOK, PostRows
<1>2. troubles' \in 0..MaxTroubles
  BY AfterFault DEF XInv
<1>3. XTypeOK'
  BY <1>1, <1>2 DEF XInv, XTypeOK, PostRows
<1>4. NothingDiscovered'
  BY <1>1 DEF XInv, NothingDiscovered
<1>5. WholeUploadsKnown'
  BY DEF XInv, WholeUploadsKnown
<1> QED
  BY <1>3, <1>4, <1>5 DEF XInv

LEMMA ClaimMoved ==
  ASSUME XInv, NEW c \in PostClaims, UNCHANGED <<asset, transfer>>, folder' \subseteq folder,
         NEW s \in ActivePostStates \cup EndedPostStates, SetClaim(c, s),
         s \in Uninspected => \A o \in Ordinals : asset[c][o].state = "absent",
         PostFault \/ UNCHANGED troubles
  PROVE  XInv'
<1>1. PICK r \in PostRows : r.state = s /\ postClaim' = [postClaim EXCEPT ![c] = r]
  BY ClaimSet DEF XInv
<1> QED
  BY <1>1, ClaimSaved

-----------------------------------------------------------------------------
(* The actions.                                                              *)

LEMMA StatesApart ==
  /\ Uninspected \cap Inspected = {}
  /\ Inspected \subseteq ActivePostStates \cup EndedPostStates
  /\ Uninspected \cup Inspected = {"absent"} \cup ActivePostStates \cup EndedPostStates
  BY DEF Uninspected, Inspected, ActivePostStates, EndedPostStates, Successful

LEMMA RowsAreRows ==
  ASSUME XTypeOK, NEW c \in PostClaims
  PROVE  /\ postClaim[c] \in PostRows
         /\ asset[c] \in [Ordinals -> AssetRows]
         /\ transfer[c] \in [Ordinals -> Transfers]
         /\ \A o \in Ordinals : /\ asset[c][o] \in AssetRows /\ transfer[c][o] \in Transfers
                                /\ asset = [asset EXCEPT ![c][o] = asset[c][o]]
                                /\ transfer = [transfer EXCEPT ![c][o] = transfer[c][o]]
  BY DEF XTypeOK, PostRows, AssetRows, Transfers

LEMMA SubmitPostKeeps ==
  ASSUME XInv, NEW u \in PostRequesters, NEW p \in Posts, NEW c \in PostClaims, SubmitPost(u, p, c)
  PROVE  XInv'
<1> DEFINE r == [NoPostClaim EXCEPT !.state = "submitted", !.who = u, !.post = p]
<1>1. r \in PostRows
  <2>1. NoPostClaim \in PostRows
    BY XAssumption DEF NoPostClaim, PostRows
  <2>2. \A row \in PostRows : [row EXCEPT !.state = "submitted", !.who = u, !.post = p] \in PostRows
    BY DEF PostRows, ActivePostStates
  <2> QED
    BY <2>1, <2>2
<1>2. /\ postClaim' = [postClaim EXCEPT ![c] = r] /\ UNCHANGED <<asset, folder, transfer, troubles>>
      /\ postClaim[c].state = "absent"
  BY DEF SubmitPost
<1>3. \A o \in Ordinals : asset[c][o].state = "absent"
  BY <1>2 DEF XInv, NothingDiscovered, Uninspected
<1> HIDE DEF r
<1> QED
  BY <1>1, <1>2, <1>3, ClaimSaved

LEMMA RetryExtractionKeeps ==
  ASSUME XInv, NEW c \in PostClaims, RetryExtraction(c)
  PROVE  XInv'
<1>1. SetClaim(c, "queued") /\ PostFault /\ UNCHANGED <<asset, folder, transfer>> /\ Discovered(c) = {}
  BY DEF RetryExtraction
<1>2. \A o \in Ordinals : asset[c][o].state = "absent"
  BY <1>1 DEF Discovered
<1>3. "queued" \in ActivePostStates \cup EndedPostStates
  BY DEF ActivePostStates
<1> QED
  BY <1>1, <1>2, <1>3, ClaimMoved

LEMMA RetryAssetsKeeps ==
  ASSUME XInv, NEW c \in PostClaims, RetryAssets(c)
  PROVE  XInv'
<1>1. PICK reset \in SUBSET Resettable(c) :
        asset' = [asset EXCEPT ![c] = [o \in Ordinals |->
                    IF o \in reset THEN [asset[c][o] EXCEPT !.state = "pending", !.code = "none"]
                    ELSE asset[c][o]]]
  BY DEF RetryAssets
<1>2. UNCHANGED postClaim \/ SetClaim(c, "acquiring")
  BY DEF RetryAssets
<1>3. PostFault /\ UNCHANGED <<folder, transfer>> /\ RetryAllowed(c)
  BY DEF RetryAssets
<1>4. \A o \in reset : o \in Ordinals /\ asset[c][o].state = "failed"
  <2>1. ASSUME NEW o \in Resettable(c)
        PROVE  o \in In(c, {"failed"})
    <3>1. o \in Ordinals /\ ~(o < o)
      BY XAssumption DEF Resettable, Retryable, In, Discovered, Ordinals
    <3>2. o \in Retryable(c) /\ o \notin Retryable(c) \ In(c, {"failed"})
      BY <3>1 DEF Resettable
    <3> QED
      BY <3>2
  <2> QED
    BY <2>1 DEF In, Discovered
<1>5. asset \in [PostClaims -> [Ordinals -> AssetRows]]
  BY DEF XInv, XTypeOK, AssetRows
<1>6. /\ asset' \in [PostClaims -> [Ordinals -> AssetRows]]
      /\ \A d \in PostClaims, p \in Ordinals :
            \/ asset'[d][p] = asset[d][p]
            \/ asset[d][p].state = "failed" /\ asset'[d][p].state = "pending"
  <2>1. PICK f : f = [o \in Ordinals |->
                       IF o \in reset THEN [asset[c][o] EXCEPT !.state = "pending", !.code = "none"]
                       ELSE asset[c][o]]
    OBVIOUS
  <2>2. asset' = [asset EXCEPT ![c] = f]
    BY <1>1, <2>1
  <2>3. /\ f \in [Ordinals -> AssetRows]
        /\ \A o \in Ordinals : IF o \in reset THEN f[o].state = "pending" ELSE f[o] = asset[c][o]
    <3>1. \A row \in AssetRows : /\ [row EXCEPT !.state = "pending", !.code = "none"] \in AssetRows
                                 /\ [row EXCEPT !.state = "pending", !.code = "none"].state = "pending"
      BY DEF AssetRows, ActiveAssetStates, Awaiting, Codes
    <3>2. \A o \in Ordinals : asset[c][o] \in AssetRows
      BY <1>5
    <3> QED
      BY <2>1, <3>1, <3>2
  <2>4. /\ asset'[c] = f
        /\ \A d \in PostClaims : d # c => asset'[d] = asset[d]
        /\ asset' \in [PostClaims -> [Ordinals -> AssetRows]]
    BY <1>5, <2>2, <2>3
  <2> QED
    BY <1>4, <2>3, <2>4
<1>7. /\ postClaim' \in [PostClaims -> PostRows]
      /\ \A d \in PostClaims : postClaim'[d].state \in Uninspected => postClaim'[d] = postClaim[d]
  <2>1. CASE UNCHANGED postClaim
    BY <2>1 DEF XInv, XTypeOK, PostRows
  <2>2. CASE SetClaim(c, "acquiring")
    <3>1. "acquiring" \in ActivePostStates \cup EndedPostStates /\ "acquiring" \notin Uninspected
      BY DEF ActivePostStates, Uninspected
    <3>2. PICK row \in PostRows : row.state = "acquiring" /\ postClaim' = [postClaim EXCEPT ![c] = row]
      BY <2>2, <3>1, ClaimSet DEF XInv
    <3> QED
      BY <3>1, <3>2 DEF XInv, XTypeOK, PostRows
  <2> QED
    BY <1>2, <2>1, <2>2
<1>8. XTypeOK'
  <2>1. troubles' \in 0..MaxTroubles
    BY <1>3, AfterFault DEF XInv
  <2>2. \A d \in PostClaims, p \in Ordinals :
            asset'[d][p].state = "absent" => <<d, p>> \notin folder' /\ transfer'[d][p] = "none"
    <3>1. \A d \in PostClaims, p \in Ordinals :
            asset[d][p].state = "absent" => <<d, p>> \notin folder /\ transfer[d][p] = "none"
      BY DEF XInv, XTypeOK
    <3> QED
      BY <1>3, <1>6, <3>1
  <2> QED
    BY <1>3, <1>6, <1>7, <2>1, <2>2 DEF XInv, XTypeOK, PostRows, AssetRows
<1>9. NothingDiscovered'
  BY <1>6, <1>7 DEF XInv, NothingDiscovered
<1>10. WholeUploadsKnown'
  BY <1>3, <1>6 DEF XInv, WholeUploadsKnown, Accountable
<1> QED
  BY <1>8, <1>9, <1>10 DEF XInv

LEMMA ExtractKeeps ==
  ASSUME XInv, NEW c \in PostClaims, Extract(c)
  PROVE  XInv'
<1>1. postClaim[c].state = "extracting" /\ UNCHANGED transfer
  BY DEF Extract
<1>2. \A o \in Ordinals : asset[c][o].state = "absent" /\ transfer[c][o] = "none"
  BY <1>1 DEF XInv, XTypeOK, NothingDiscovered, Uninspected
<1>3. {"acquiring", "failed"} \subseteq Inspected
  BY DEF Inspected
<1>4. CASE /\ FailPost(c, asset[c]) /\ UNCHANGED <<asset, troubles>>
  BY <1>1, <1>3, <1>4, StatesApart, ClaimMoved DEF FailPost
<1>5. CASE /\ SetClaim(c, "acquiring")
           /\ asset' = [asset EXCEPT ![c] = [o \in Ordinals |-> NewAsset]]
           /\ UNCHANGED <<folder, troubles>>
  <2>1. PICK row \in PostRows : row.state = "acquiring" /\ postClaim' = [postClaim EXCEPT ![c] = row]
    BY <1>3, <1>5, StatesApart, ClaimSet DEF XInv
  <2>2. /\ postClaim' \in [PostClaims -> PostRows]
        /\ \A d \in PostClaims : postClaim'[d].state \in Uninspected => postClaim'[d] = postClaim[d] /\ d # c
    BY <2>1 DEF XInv, XTypeOK, PostRows, Uninspected
  <2>3. NewAsset \in AssetRows /\ NewAsset.state = "pending"
    BY DEF NewAsset, AssetRows, ActiveAssetStates, Awaiting, Codes
  <2>4. /\ asset' \in [PostClaims -> [Ordinals -> AssetRows]]
        /\ \A o \in Ordinals : asset'[c][o] = NewAsset
        /\ \A d \in PostClaims : d # c => asset'[d] = asset[d]
    BY <1>5, <2>3 DEF XInv, XTypeOK, AssetRows
  <2>5. \A d \in PostClaims, p \in Ordinals :
            asset'[d][p].state = "absent" => <<d, p>> \notin folder' /\ transfer'[d][p] = "none"
    BY <1>1, <1>5, <2>3, <2>4 DEF XInv, XTypeOK
  <2>6. XTypeOK'
    BY <1>1, <1>5, <2>2, <2>4, <2>5 DEF XInv, XTypeOK, PostRows, AssetRows
  <2>7. NothingDiscovered'
    BY <2>2, <2>4 DEF XInv, NothingDiscovered
  <2>8. WholeUploadsKnown'
    BY <1>1, <1>2, <2>4 DEF XInv, WholeUploadsKnown
  <2> QED
    BY <2>6, <2>7, <2>8 DEF XInv
<1>6. ASSUME NEW s \in {"acquiring", "failed"}, SetClaim(c, s), PostFault, UNCHANGED <<asset, folder>>
      PROVE  XInv'
  BY <1>1, <1>3, <1>6, StatesApart, ClaimMoved
<1> QED
  BY <1>4, <1>5, <1>6 DEF Extract, SetClaim

\* A claim that handles assets has been inspected.
LEMMA Handling ==
  ASSUME NEW c, postClaim[c].state \in {"acquiring", "handing_off"}
  PROVE  postClaim[c].state \notin Uninspected
  BY DEF Uninspected

LEMMA StartDownloadKeeps ==
  ASSUME XInv, NEW c \in PostClaims, StartAssetDownload(c)
  PROVE  XInv'
<1>1. PICK o : o = First(In(c, Awaiting))
  OBVIOUS
<1>2. /\ postClaim[c].state \notin Uninspected
      /\ o \in Ordinals /\ asset[c][o].state \in Awaiting /\ asset[c][o].state # "absent"
  BY <1>1, Handling, FirstIn DEF StartAssetDownload
<1>3. PICK s \in {"acquiring", "extracted"} : SetAsset(c, o, [asset[c][o] EXCEPT !.state = s])
  BY <1>1 DEF StartAssetDownload
<1>4. PICK r : r = [asset[c][o] EXCEPT !.state = s]
  OBVIOUS
<1>5. r \in AssetRows /\ r.state # "absent" /\ asset' = [asset EXCEPT ![c][o] = r]
  BY <1>2, <1>3, <1>4, RowsAreRows DEF XInv, AssetRows, SetAsset, ActiveAssetStates, Awaiting
<1>6. UNCHANGED <<postClaim, folder, transfer>> /\ (PostFault \/ UNCHANGED troubles)
  BY DEF StartAssetDownload
<1>7. transfer[c][o] \in Transfers /\ transfer' = [transfer EXCEPT ![c][o] = transfer[c][o]]
  BY <1>2, <1>6, RowsAreRows DEF XInv
<1>8. transfer[c][o] \notin {"received", "cataloged"}
  BY <1>2 DEF XInv, WholeUploadsKnown, Accountable, Awaiting
<1> QED
  BY <1>2, <1>5, <1>6, <1>7, <1>8, AssetSaved

LEMMA DownloadKeeps ==
  ASSUME XInv, NEW c \in PostClaims, DownloadAsset(c)
  PROVE  XInv'
<1>1. PICK o : o = First(In(c, Awaiting))
  OBVIOUS
<1>2. /\ postClaim[c].state \notin Uninspected
      /\ o \in Ordinals /\ asset[c][o].state \in Awaiting /\ asset[c][o].state # "absent"
  BY <1>1, Handling, FirstIn DEF DownloadAsset
<1>3. \E r \in AssetRows :
        /\ r.state # "absent" /\ asset' = [asset EXCEPT ![c][o] = r]
        /\ UNCHANGED postClaim \/ \E s \in Inspected : SetClaim(c, s)
        /\ folder' \subseteq folder \cup {<<c, o>>}
        /\ PostFault \/ UNCHANGED troubles
  <2>1. PICK result, ended, after, kept :
          /\ result \in AssetDownloads
          /\ ended = CASE result = "artifact" -> [asset[c][o] EXCEPT !.state = "staged"]
                       [] result = "retryable" -> [asset[c][o] EXCEPT !.state = "failed", !.code = "retryable"]
                       [] OTHER -> [asset[c][o] EXCEPT !.state = "failed", !.code = "final"]
          /\ after = [asset[c] EXCEPT ![o] = ended]
          /\ kept = IF result = "artifact" THEN folder \cup {<<c, o>>} ELSE folder \ {<<c, o>>}
          /\ \/ PostFault /\ folder' = kept /\ UNCHANGED <<postClaim, asset>>
             \/ SetAsset(c, o, ended) /\ PostFault /\ folder' = kept /\ UNCHANGED postClaim
             \/ /\ SetAsset(c, o, ended) /\ UNCHANGED troubles
                /\ IF result = "claim_wide"
                   THEN SetClaim(c, "failed") /\ folder' = kept \ Cleaned(c, after)
                   ELSE SetClaim(c, Advanced("acquiring", after)) /\ folder' = kept
    BY <1>1 DEF DownloadAsset
  <2>2. asset[c][o] \in AssetRows
    BY <1>2, RowsAreRows DEF XInv
  <2>3. ended \in AssetRows /\ ended.state # "absent"
    BY <2>1, <2>2 DEF AssetRows, ActiveAssetStates, Codes
  <2>4. Advanced("acquiring", after) \in Inspected /\ "failed" \in Inspected
    BY DEF Advanced, Inspected
  <2>5. kept \subseteq folder \cup {<<c, o>>}
    BY <2>1
  <2>6. CASE PostFault /\ folder' = kept /\ UNCHANGED <<postClaim, asset>>
    <3>1. asset' = [asset EXCEPT ![c][o] = asset[c][o]]
      BY <1>2, <2>6, RowsAreRows DEF XInv
    <3> QED
      BY <1>2, <2>2, <2>5, <2>6, <3>1
  <2>7. CASE SetAsset(c, o, ended) /\ PostFault /\ folder' = kept /\ UNCHANGED postClaim
    BY <2>3, <2>5, <2>7 DEF SetAsset
  <2>8. CASE /\ SetAsset(c, o, ended) /\ UNCHANGED troubles
             /\ \E s \in Inspected : SetClaim(c, s)
             /\ folder' \subseteq kept
    BY <2>3, <2>5, <2>8 DEF SetAsset
  <2> QED
    BY <2>1, <2>4, <2>6, <2>7, <2>8
<1>4. PICK r \in AssetRows :
        /\ r.state # "absent" /\ asset' = [asset EXCEPT ![c][o] = r]
        /\ UNCHANGED postClaim \/ \E s \in Inspected : SetClaim(c, s)
        /\ folder' \subseteq folder \cup {<<c, o>>}
        /\ PostFault \/ UNCHANGED troubles
  BY <1>3
<1>5. UNCHANGED transfer
  BY DEF DownloadAsset
<1>6. transfer[c][o] \in Transfers /\ transfer' = [transfer EXCEPT ![c][o] = transfer[c][o]]
  BY <1>2, <1>5, RowsAreRows DEF XInv
<1>7. transfer[c][o] \notin {"received", "cataloged"}
  BY <1>2 DEF XInv, WholeUploadsKnown, Accountable, Awaiting
<1> QED
  BY <1>2, <1>4, <1>6, <1>7, AssetSaved

LEMMA HandoffAssetKeeps ==
  ASSUME XInv, NEW c \in PostClaims, HandoffAsset(c)
  PROVE  XInv'
<1>1. PICK o, record :
        /\ o = First(In(c, {"staged"}))
        /\ record = IF asset[c][o].linked THEN asset[c][o] ELSE Linked(asset[c][o])
  OBVIOUS
<1>2. /\ postClaim[c].state \notin Uninspected
      /\ o \in Ordinals /\ asset[c][o].state = "staged"
  BY <1>1, Handling, FirstIn DEF HandoffAsset
<1>3. asset[c][o] \in AssetRows
  BY <1>2, RowsAreRows DEF XInv
<1>4. record \in AssetRows /\ record.state \in Accountable /\ record.state # "absent"
  BY <1>1, <1>2, <1>3 DEF AssetRows, ActiveAssetStates, Linked, Accountable
<1>5. \E r \in {asset[c][o], record} : asset' = [asset EXCEPT ![c][o] = r]
  <2>1. UNCHANGED asset \/ SetAsset(c, o, record)
    BY <1>1 DEF HandoffAsset
  <2>2. asset = [asset EXCEPT ![c][o] = asset[c][o]]
    BY <1>2, RowsAreRows DEF XInv
  <2> QED
    BY <2>1, <2>2 DEF SetAsset
<1>6. \E x \in Transfers : transfer' = [transfer EXCEPT ![c][o] = x]
  <2>1. UNCHANGED transfer \/ \E x \in {"received", "receiving"} : transfer' = [transfer EXCEPT ![c][o] = x]
    BY <1>1 DEF HandoffAsset
  <2>2. transfer[c][o] \in Transfers /\ transfer = [transfer EXCEPT ![c][o] = transfer[c][o]]
    BY <1>2, RowsAreRows DEF XInv
  <2> QED
    BY <2>1, <2>2 DEF Transfers
<1>7. UNCHANGED postClaim \/ \E s \in Inspected : SetClaim(c, s)
  BY DEF HandoffAsset, FailPost, Inspected
<1>8. folder' \subseteq folder /\ (PostFault \/ UNCHANGED troubles)
  BY DEF HandoffAsset, FailPost
<1>9. PICK r \in AssetRows :
        asset' = [asset EXCEPT ![c][o] = r] /\ r.state # "absent" /\ r.state \in Accountable
  BY <1>2, <1>3, <1>4, <1>5 DEF Accountable
<1>10. PICK x \in Transfers : transfer' = [transfer EXCEPT ![c][o] = x]
  BY <1>6
<1>11. asset[c][o].state # "absent" /\ folder' \subseteq folder \cup {<<c, o>>}
  BY <1>2, <1>8
<1> QED
  BY <1>2, <1>7, <1>8, <1>9, <1>10, <1>11, AssetSaved

LEMMA ProjectAssetKeeps ==
  ASSUME XInv, NEW c \in PostClaims, ProjectAsset(c)
  PROVE  XInv'
<1>1. PICK o, failed, done :
        /\ o = First(In(c, {"handing_off"}))
        /\ failed = [asset[c][o] EXCEPT !.state = "failed", !.code = "retryable"]
        /\ done = [asset[c][o] EXCEPT !.state = "cataloged"]
  OBVIOUS
<1>2. /\ postClaim[c].state \notin Uninspected
      /\ o \in Ordinals /\ asset[c][o].state = "handing_off"
  BY <1>1, Handling, FirstIn DEF ProjectAsset
<1>3. asset[c][o] \in AssetRows /\ transfer[c][o] \in Transfers
  BY <1>2, RowsAreRows DEF XInv
<1>4. /\ failed \in AssetRows /\ failed.state = "failed"
      /\ done \in AssetRows /\ done.state = "cataloged"
  BY <1>1, <1>3 DEF AssetRows, Codes
<1>5. asset = [asset EXCEPT ![c][o] = asset[c][o]]
  BY <1>2, RowsAreRows DEF XInv
<1>6. \E r \in AssetRows :
        /\ asset' = [asset EXCEPT ![c][o] = r] /\ r.state # "absent"
        /\ transfer[c][o] \in {"received", "cataloged"} => r.state \in Accountable
  <2>1. CASE transfer[c][o] = "received"
    <3>1. UNCHANGED asset
      BY <1>1, <2>1 DEF ProjectAsset
    <3> QED
      BY <1>2, <1>3, <1>5, <3>1 DEF Accountable
  <2>2. CASE transfer[c][o] = "cataloged"
    <3>1. SetAsset(c, o, done)
      BY <1>1, <2>2 DEF ProjectAsset
    <3> QED
      BY <1>4, <3>1 DEF SetAsset, Accountable
  <2>3. CASE transfer[c][o] \notin {"received", "cataloged"}
    <3>1. SetAsset(c, o, failed)
      BY <1>1, <2>3 DEF ProjectAsset
    <3> QED
      BY <1>4, <2>3, <3>1 DEF SetAsset
  <2> QED
    BY <2>1, <2>2, <2>3
<1>7. transfer' = [transfer EXCEPT ![c][o] = transfer[c][o]]
  <2>1. UNCHANGED transfer
    BY DEF ProjectAsset
  <2> QED
    BY <1>2, <2>1, RowsAreRows DEF XInv
<1>8. UNCHANGED postClaim \/ \E s \in Inspected : SetClaim(c, s)
  BY DEF ProjectAsset, Inspected
<1>9. folder' \subseteq folder /\ (PostFault \/ UNCHANGED troubles)
  BY DEF ProjectAsset
<1> QED
  BY <1>2, <1>3, <1>6, <1>7, <1>8, <1>9, AssetSaved

LEMMA FinishPostKeeps ==
  ASSUME XInv, NEW c \in PostClaims, FinishPost(c)
  PROVE  XInv'
<1>1. PICK end \in Inspected, success \in 0..MaxAssets, failure \in 0..MaxAssets :
        postClaim' = [postClaim EXCEPT ![c].state = end, ![c].success = success, ![c].failure = failure]
  <2>1. /\ Cardinality(In(c, {"cataloged"})) \in 0..MaxAssets
        /\ Cardinality(In(c, {"failed"})) \in 0..MaxAssets
    BY CountOfAssets DEF In, Discovered
  <2> QED
    BY <2>1 DEF FinishPost, Inspected
<1>2. PICK r : r = [postClaim[c] EXCEPT !.state = end, !.success = success, !.failure = failure]
  OBVIOUS
<1>3. postClaim \in [PostClaims -> PostRows]
  BY DEF XInv, XTypeOK, PostRows
<1>4. r \in PostRows /\ r.state = end
  BY <1>2, <1>3, StatesApart DEF PostRows
<1>5. postClaim' = [postClaim EXCEPT ![c] = r]
  BY <1>1, <1>2, <1>3
<1>6. UNCHANGED <<asset, transfer>> /\ folder' \subseteq folder /\ (PostFault \/ UNCHANGED troubles)
  BY DEF FinishPost
<1>7. end \notin Uninspected
  BY StatesApart
<1> QED
  BY <1>4, <1>5, <1>6, <1>7, ClaimSaved

\* What the uploads do by themselves.
LEMMA TransferKeeps ==
  ASSUME XInv, NEW c \in PostClaims, NEW o \in Ordinals, Progress(c, o) \/ GiveUp(c, o)
  PROVE  XInv'
<1>1. UNCHANGED <<postClaim, asset, folder, troubles>>
  BY DEF Progress, GiveUp
<1>2. PICK x \in Transfers :
        /\ transfer' = [transfer EXCEPT ![c][o] = x]
        /\ transfer[c][o] # "none"
        /\ x \in {"received", "cataloged"} => transfer[c][o] = "received"
  BY DEF Progress, GiveUp, Transfers
<1>3. /\ transfer' \in [PostClaims -> [Ordinals -> Transfers]]
      /\ transfer'[c][o] = x
      /\ \A d \in PostClaims, p \in Ordinals : ~(d = c /\ p = o) => transfer'[d][p] = transfer[d][p]
  BY <1>2 DEF XInv, XTypeOK, Transfers
<1>4. \A d \in PostClaims, p \in Ordinals :
        asset[d][p].state = "absent" => <<d, p>> \notin folder /\ transfer[d][p] = "none"
  BY DEF XInv, XTypeOK
<1>5. \A d \in PostClaims, p \in Ordinals :
        asset'[d][p].state = "absent" => <<d, p>> \notin folder' /\ transfer'[d][p] = "none"
  BY <1>1, <1>2, <1>3, <1>4
<1>6. XTypeOK'
  BY <1>1, <1>3, <1>5 DEF XInv, XTypeOK, Transfers
<1>7. NothingDiscovered'
  BY <1>1 DEF XInv, NothingDiscovered
<1>8. WholeUploadsKnown'
  BY <1>1, <1>2, <1>3 DEF XInv, WholeUploadsKnown
<1> QED
  BY <1>6, <1>7, <1>8 DEF XInv

LEMMA OtherPostStepsKeep ==
  ASSUME XInv, NEW c \in PostClaims,
         \/ Queue(c) \/ StartExtraction(c) \/ AdvanceToHandoff(c) \/ Trouble(c)
         \/ ReconcileCleanup(c)
  PROVE  XInv'
<1>1. CASE Queue(c) \/ StartExtraction(c)
  <2>1. PICK s \in {"queued", "extracting"} : SetClaim(c, s)
    BY <1>1 DEF Queue, StartExtraction
  <2>2. /\ postClaim[c].state \in Uninspected /\ s \in ActivePostStates
        /\ UNCHANGED <<asset, folder, transfer, troubles>>
    BY <1>1, <2>1 DEF Queue, StartExtraction, Uninspected, ActivePostStates
  <2>3. \A o \in Ordinals : asset[c][o].state = "absent"
    BY <2>2 DEF XInv, NothingDiscovered
  <2> QED
    BY <2>1, <2>2, <2>3, ClaimMoved
<1>2. CASE AdvanceToHandoff(c) \/ Trouble(c)
  <2>1. PICK s \in {"handing_off", "failed"} : SetClaim(c, s)
    BY <1>2 DEF AdvanceToHandoff, Trouble, FailPost
  <2>2. s \in Inspected
    BY <2>1 DEF Inspected
  <2>3. UNCHANGED <<asset, transfer>> /\ folder' \subseteq folder /\ (PostFault \/ UNCHANGED troubles)
    BY <1>2 DEF AdvanceToHandoff, Trouble, FailPost
  <2> QED
    BY <2>1, <2>2, <2>3, StatesApart, ClaimMoved
<1>3. CASE ReconcileCleanup(c)
  <2>1. UNCHANGED <<postClaim, asset, transfer, troubles>> /\ folder' \subseteq folder
    BY <1>3 DEF ReconcileCleanup
  <2> QED
    BY <2>1 DEF XInv, XTypeOK, NothingDiscovered, WholeUploadsKnown
<1> QED
  BY <1>1, <1>2, <1>3

LEMMA XNextKeeps ==
  ASSUME XInv, [XNext]_xVars
  PROVE  XInv'
<1>1. CASE UNCHANGED xVars
  BY <1>1 DEF xVars, XInv, XTypeOK, NothingDiscovered, WholeUploadsKnown
<1>2. ASSUME NEW c \in PostClaims, NEW u \in PostRequesters, NEW p \in Posts, SubmitPost(u, p, c)
      PROVE  XInv'
  BY <1>2, SubmitPostKeeps
<1>3. ASSUME NEW c \in PostClaims, RetryExtraction(c) \/ RetryAssets(c)
      PROVE  XInv'
  BY <1>3, RetryExtractionKeeps, RetryAssetsKeeps
<1>4. ASSUME NEW c \in PostClaims, Process(c) \/ Trouble(c) \/ ReconcileCleanup(c)
      PROVE  XInv'
  BY <1>4, ExtractKeeps, StartDownloadKeeps, DownloadKeeps, HandoffAssetKeeps, ProjectAssetKeeps, FinishPostKeeps,
     OtherPostStepsKeep DEF Process
<1>5. ASSUME NEW c \in PostClaims, NEW o \in Ordinals, Progress(c, o) \/ GiveUp(c, o)
      PROVE  XInv'
  BY <1>5, TransferKeeps
<1> QED
  BY <1>1, <1>2, <1>3, <1>4, <1>5 DEF XNext

LEMMA XInitKeeps == XInit => XInv
<1> SUFFICES ASSUME XInit PROVE XInv
  OBVIOUS
<1>1. NoPostClaim \in PostRows /\ NoPostClaim.state = "absent"
  BY XAssumption DEF NoPostClaim, PostRows
<1>2. NoAsset \in AssetRows /\ NoAsset.state = "absent"
  BY DEF NoAsset, NewAsset, AssetRows, ActiveAssetStates, Awaiting, Codes
<1>3. /\ postClaim \in [PostClaims -> PostRows] /\ asset \in [PostClaims -> [Ordinals -> AssetRows]]
      /\ transfer \in [PostClaims -> [Ordinals -> Transfers]] /\ folder = {} /\ troubles \in 0..MaxTroubles
      /\ \A c \in PostClaims, o \in Ordinals : asset[c][o].state = "absent" /\ transfer[c][o] = "none"
  BY <1>1, <1>2, XAssumption DEF XInit, Transfers
<1>4. XTypeOK
  BY <1>3 DEF XTypeOK, PostRows, AssetRows, Transfers
<1> QED
  BY <1>3, <1>4 DEF XInv, NothingDiscovered, WholeUploadsKnown

\* The inductive invariant of x_acquisition.py: rows, staging and upload sessions
\* have their types; a post that was not inspected since it was queued has no
\* assets; an upload session that is complete or catalogued belongs to an asset
\* whose row has left the download.
THEOREM XInvariant == XSpec => []XInv
  BY XInitKeeps, XNextKeeps, PTL DEF XSpec

\* Every reachable row of a claim and of an asset is well typed, its counts are
\* those of at most MaxAssets assets, and an asset that was never discovered has
\* neither an artifact in the staging nor an upload session.
THEOREM XTypesAreKept == XSpec => []XTypeOK
<1>1. XInv => XTypeOK
  BY DEF XInv
<1> QED
  BY <1>1, XInvariant, PTL

\* Media that an upload brought to the library for a post is known to its claim:
\* no retry, broken chain or restart of the coordinator (x_acquisition.py) leaves
\* its asset failed or waiting to be downloaded again.
THEOREM XLibraryIsAccounted == XSpec => []LibraryIsAccounted
<1>1. XInv => LibraryIsAccounted
  BY DEF XInv, WholeUploadsKnown, Accountable, LibraryIsAccounted
<1> QED
  BY <1>1, XInvariant, PTL

-----------------------------------------------------------------------------
(* YouTubeAcquisition: the media of videos.                                  *)

ClaimStates == {"absent"} \cup ActiveStates \cup TerminalStates
ClaimRows == [state : ClaimStates,
              who : Creators \cup {"nobody"}, video : Videos \cup {"nothing"},
              media : 0..MaxClaims, linked : BOOLEAN, cleanup : {"pending", "complete"}]
Attentions == [claim : 0..MaxClaims, media : 0..MaxClaims]

\* YouTubeTypeOK without the queue.
TableTypes ==
    /\ claim \in [Claims -> ClaimRows]
    /\ busy \in Attentions
    /\ staging \subseteq Claims /\ published \subseteq Library
    /\ upload \in [Claims -> UploadStates]
    /\ faults \in 0..MaxFaults

\* No upload precedes its claim.
AbsentIsUntouched ==
    \A c \in Claims : claim[c].state = "absent" => upload[c] = "none"

\* While the coordinator awaits the discard of a duplicate, the upload is
\* discarded already, and the claim is an operator's.
ResolutionIsOperated ==
    \A c \in Claims : busy.claim = c /\ claim[c].state = "handed_off" =>
        upload[c] = "discarded" /\ claim[c].who \in Operators

YInv == TableTypes /\ AbsentIsUntouched /\ ResolutionIsOperated /\ SuccessHasMedia

\* What OnlyOwnOrPublished says of a step.
GivesOwnOrPublished ==
    \A c \in Claims :
        /\ claim'[c].who \in Requesters
        /\ claim'[c].media # claim[c].media /\ claim'[c].media # 0
        => claim'[c].media = c \/ claim'[c].media \in published

LEMMA AfterClaimFault ==
  ASSUME TableTypes, Fault \/ UNCHANGED faults
  PROVE  faults' \in 0..MaxFaults
  BY YouTubeAssumption DEF TableTypes, Fault

\* What an update of a row leaves.
Updated(r, row, s) == r \in ClaimRows /\ r.state = s /\ r.who = row.who

LEMMA RowUpdates ==
  ASSUME NEW row \in ClaimRows, NEW s \in ClaimStates
  PROVE  /\ LET r == [row EXCEPT !.state = s]
            IN  Updated(r, row, s) /\ r.media = row.media
         /\ LET r == [row EXCEPT !.linked = TRUE]
            IN  Updated(r, row, row.state) /\ r.media = row.media
         /\ LET r == [row EXCEPT !.cleanup = "complete"]
            IN  Updated(r, row, row.state) /\ r.media = row.media
         /\ \A m \in 0..MaxClaims :
              LET r == [row EXCEPT !.state = s, !.media = m]
              IN  Updated(r, row, s) /\ r.media = m
  BY DEF ClaimRows, Updated

LEMMA StatesOfClaims ==
  /\ SuccessStates \subseteq ClaimStates /\ ActiveStates \subseteq ClaimStates
  /\ "failed" \in ClaimStates /\ "catalog_removed" \in ClaimStates
  /\ SuccessStates \cap ActiveStates = {}
  /\ "absent" \notin SuccessStates \cup ActiveStates
  /\ "failed" \notin SuccessStates /\ "catalog_removed" \notin SuccessStates
  BY DEF ClaimStates, ActiveStates, SuccessStates, TerminalStates

LEMMA ClaimNumbers ==
  /\ Claims \subseteq 0..MaxClaims /\ 0 \notin Claims /\ Library \subseteq Claims
  /\ Unoccupied \in Attentions /\ Unoccupied.claim = 0
  /\ \A c \in Claims : /\ [Unoccupied EXCEPT !.claim = c] \in Attentions
                       /\ [Unoccupied EXCEPT !.claim = c].claim = c
  BY YouTubeAssumption DEF Claims, Library, Unoccupied, Attentions

(* One claim is saved, with what its upload becomes; of the others at most the  *)
(* cleanup is noted.                                                            *)
LEMMA OneClaimSaved ==
  ASSUME YInv, NEW c \in Claims,
         claim' \in [Claims -> ClaimRows],
         \A d \in Claims \ {c} : /\ claim'[d].state = claim[d].state
                                 /\ claim'[d].who = claim[d].who
                                 /\ claim'[d].media = claim[d].media,
         NEW x \in UploadStates, upload' = [upload EXCEPT ![c] = x],
         upload[c] = "cataloged" => x = "cataloged",
         claim'[c].state = "absent" => x = "none",
         claim'[c].state \in SuccessStates =>
            /\ claim'[c].media \in Library \/ (claim'[c].media = c /\ x = "cataloged")
            /\ claim'[c].media # c => x \in {"none", "discarded"},
         busy' \in Attentions, busy'.claim \in {0, c} \/ busy' = busy,
         busy'.claim = c /\ claim'[c].state = "handed_off" =>
            x = "discarded" /\ claim'[c].who \in Operators,
         claim'[c].who \in Requesters /\ claim'[c].media # claim[c].media /\ claim'[c].media # 0 =>
            claim'[c].media = c \/ claim'[c].media \in published,
         staging' \subseteq staging \cup {c}, UNCHANGED published,
         Fault \/ UNCHANGED faults
  PROVE  YInv' /\ GivesOwnOrPublished
<1>1. /\ claim \in [Claims -> ClaimRows] /\ upload \in [Claims -> UploadStates]
      /\ staging \subseteq Claims /\ published \subseteq Library
  BY DEF YInv, TableTypes
<1>2. /\ upload' \in [Claims -> UploadStates] /\ upload'[c] = x
      /\ \A d \in Claims : d # c => upload'[d] = upload[d]
  BY <1>1
<1>3. Library \subseteq Library'
  BY <1>2 DEF Library
<1>4. faults' \in 0..MaxFaults
  BY AfterClaimFault DEF YInv
<1>5. TableTypes'
  BY <1>1, <1>2, <1>3, <1>4 DEF TableTypes
<1>6. AbsentIsUntouched'
  BY <1>2 DEF YInv, AbsentIsUntouched
<1>7. ResolutionIsOperated'
  <2>1. ASSUME NEW d \in Claims, busy'.claim = d, claim'[d].state = "handed_off"
        PROVE  upload'[d] = "discarded" /\ claim'[d].who \in Operators
    <3>1. CASE d = c
      BY <2>1, <3>1, <1>2
    <3>2. CASE d # c
      <4>1. busy.claim = d /\ claim[d].state = "handed_off" /\ claim'[d].who = claim[d].who
        BY <2>1, <3>2, ClaimNumbers
      <4> QED
        BY <3>2, <4>1, <1>2 DEF YInv, ResolutionIsOperated
    <3> QED
      BY <3>1, <3>2
  <2> QED
    BY <2>1 DEF ResolutionIsOperated
<1>8. SuccessHasMedia'
  <2>1. ASSUME NEW d \in Claims, claim'[d].state \in SuccessStates
        PROVE  claim'[d].media \in Library' /\ (claim'[d].media # d => upload'[d] \in {"none", "discarded"})
    <3>1. CASE d = c
      BY <2>1, <3>1, <1>2, <1>3 DEF Library
    <3>2. CASE d # c
      BY <2>1, <3>2, <1>2, <1>3 DEF YInv, SuccessHasMedia
    <3> QED
      BY <3>1, <3>2
  <2> QED
    BY <2>1 DEF SuccessHasMedia
<1>9. GivesOwnOrPublished
  BY DEF GivesOwnOrPublished
<1> QED
  BY <1>5, <1>6, <1>7, <1>8, <1>9 DEF YInv

\* An upload that is left alone.
LEMMA SameUpload ==
  ASSUME YInv, NEW c \in Claims
  PROVE  /\ upload[c] \in UploadStates /\ claim[c] \in ClaimRows
         /\ upload = [upload EXCEPT ![c] = upload[c]]
  BY DEF YInv, TableTypes

(* A claim goes on or fails, and refers to no other medium than before.         *)
LEMMA ClaimAdvanced ==
  ASSUME YInv, NEW c \in Claims, NEW r \in ClaimRows, claim' = [claim EXCEPT ![c] = r],
         r.who = claim[c].who, r.media = claim[c].media, r.state # "absent",
         r.state \notin SuccessStates \/ (r.state = claim[c].state /\ UNCHANGED upload),
         NEW x \in UploadStates, upload' = [upload EXCEPT ![c] = x],
         upload[c] = "cataloged" => x = "cataloged",
         busy' \in {Unoccupied, [Unoccupied EXCEPT !.claim = c]},
         r.state = "handed_off" => busy' = Unoccupied,
         staging' \subseteq staging \cup {c}, UNCHANGED published,
         Fault \/ UNCHANGED faults
  PROVE  YInv' /\ GivesOwnOrPublished
<1>1. /\ claim' \in [Claims -> ClaimRows] /\ claim'[c] = r
      /\ \A d \in Claims \ {c} : claim'[d] = claim[d]
  BY DEF YInv, TableTypes
<1>2. /\ busy' \in Attentions /\ busy'.claim \in {0, c}
      /\ busy' = Unoccupied => busy'.claim # c
  BY ClaimNumbers
<1>3. x = upload'[c]
  BY DEF YInv, TableTypes
<1>4. r.state \in SuccessStates => /\ r.media \in Library
                                   /\ r.media # c => x \in {"none", "discarded"}
  BY <1>3 DEF YInv, SuccessHasMedia
<1>5. ~(busy'.claim = c /\ claim'[c].state = "handed_off")
  BY <1>1, <1>2
<1> QED
  BY <1>1, <1>2, <1>4, <1>5, OneClaimSaved

\* The same when the upload is left alone as well.
LEMMA ClaimMovedOn ==
  ASSUME YInv, NEW c \in Claims, NEW r \in ClaimRows, claim' = [claim EXCEPT ![c] = r],
         r.who = claim[c].who, r.media = claim[c].media, r.state # "absent",
         r.state \notin SuccessStates \/ r.state = claim[c].state,
         busy' \in {Unoccupied, [Unoccupied EXCEPT !.claim = c]},
         r.state = "handed_off" => busy' = Unoccupied,
         staging' \subseteq staging \cup {c}, UNCHANGED <<upload, published>>,
         Fault \/ UNCHANGED faults
  PROVE  YInv' /\ GivesOwnOrPublished
<1>1. upload[c] \in UploadStates /\ upload' = [upload EXCEPT ![c] = upload[c]]
  BY SameUpload
<1> QED
  BY <1>1, ClaimAdvanced

\* AdvanceClaim and Fail in the form of these lemmas.
LEMMA AdvanceRow ==
  ASSUME YInv, NEW c \in Claims, NEW s \in ClaimStates, AdvanceClaim(c, s)
  PROVE  \E r \in ClaimRows : /\ r.state = s /\ r.who = claim[c].who /\ r.media = claim[c].media
                              /\ claim' = [claim EXCEPT ![c] = r]
<1>1. PICK r : r = [claim[c] EXCEPT !.state = s]
  OBVIOUS
<1>2. r \in ClaimRows /\ r.state = s /\ r.who = claim[c].who /\ r.media = claim[c].media
  BY <1>1, SameUpload, RowUpdates, ZenonT(60) DEF Updated
<1>3. claim' = [claim EXCEPT ![c] = r]
  BY <1>1 DEF AdvanceClaim, Save
<1> QED
  BY <1>2, <1>3

LEMMA CleanedRow ==
  ASSUME NEW c, NEW record \in ClaimRows, SaveAndClean(c, record)
  PROVE  /\ \E r \in ClaimRows : /\ r.state = record.state /\ r.who = record.who /\ r.media = record.media
                                 /\ claim' = [claim EXCEPT ![c] = r]
         /\ staging' \subseteq staging
<1>1. PICK r : r = [record EXCEPT !.cleanup = "complete"]
  OBVIOUS
<1>2. r \in ClaimRows /\ r.state = record.state /\ r.who = record.who /\ r.media = record.media
  BY <1>1 DEF ClaimRows
<1>3. claim' = [claim EXCEPT ![c] = r] \/ claim' = [claim EXCEPT ![c] = record]
  BY <1>1 DEF SaveAndClean, Save
<1>4. staging' \subseteq staging
  BY DEF SaveAndClean
<1> QED
  BY <1>2, <1>3, <1>4

LEMMA FailRow ==
  ASSUME YInv, NEW c \in Claims, Fail(c)
  PROVE  /\ \E r \in ClaimRows : /\ r.state = "failed" /\ r.who = claim[c].who /\ r.media = claim[c].media
                                 /\ claim' = [claim EXCEPT ![c] = r]
         /\ staging' \subseteq staging
<1>1. PICK record : record = [claim[c] EXCEPT !.state = "failed"]
  OBVIOUS
<1>2. /\ record \in ClaimRows /\ record.state = "failed"
      /\ record.who = claim[c].who /\ record.media = claim[c].media
  <2>1. claim[c] \in ClaimRows /\ "failed" \in ClaimStates
    BY SameUpload, StatesOfClaims
  <2> QED
    BY <1>1, <2>1, RowUpdates DEF Updated
<1>3. SaveAndClean(c, record)
  BY <1>1 DEF Fail
<1> QED
  BY <1>2, <1>3, CleanedRow

-----------------------------------------------------------------------------
(* The requests.                                                             *)

LEMMA NewRows ==
  ASSUME NEW u \in Creators, NEW v \in Videos \cup {"nothing"}
  PROVE  /\ New(u, v) \in ClaimRows
         /\ New(u, v).state = "claimed" /\ New(u, v).who = u /\ New(u, v).media = 0
         /\ \A m \in 0..MaxClaims :
                /\ Reuse(u, v, m) \in ClaimRows
                /\ Reuse(u, v, m).state = "duplicate_resolved"
                /\ Reuse(u, v, m).who = u /\ Reuse(u, v, m).media = m
<1>1. NoClaim \in ClaimRows /\ NoClaim.media = 0
  BY YouTubeAssumption DEF NoClaim, ClaimRows, ClaimStates
<1>2. "claimed" \in ClaimStates /\ "duplicate_resolved" \in ClaimStates
  BY DEF ClaimStates, ActiveStates, SuccessStates, TerminalStates
<1>3. \A row \in ClaimRows : LET r == [row EXCEPT !.state = "claimed", !.who = u, !.video = v] IN
        r \in ClaimRows /\ r.state = "claimed" /\ r.who = u /\ r.media = row.media
  BY <1>2 DEF ClaimRows
<1>4. /\ New(u, v) \in ClaimRows
      /\ New(u, v).state = "claimed" /\ New(u, v).who = u /\ New(u, v).media = 0
  BY <1>1, <1>3 DEF New
<1>5. \A row \in ClaimRows, m \in 0..MaxClaims :
        LET r == [row EXCEPT !.state = "duplicate_resolved", !.media = m, !.cleanup = "complete"] IN
        r \in ClaimRows /\ r.state = "duplicate_resolved" /\ r.who = row.who /\ r.media = m
  BY <1>2 DEF ClaimRows
<1>6. \A m \in 0..MaxClaims :
        /\ Reuse(u, v, m) \in ClaimRows /\ Reuse(u, v, m).state = "duplicate_resolved"
        /\ Reuse(u, v, m).who = New(u, v).who /\ Reuse(u, v, m).media = m
  BY <1>4, <1>5, ZenonT(60) DEF Reuse
<1> QED
  BY <1>4, <1>6

\* A fresh claim on what is reusable, or for a new acquisition.
LEMMA ReuseOrAcquireKeeps ==
  ASSUME YInv, NEW u \in Creators, NEW v \in Videos, NEW c \in Fresh,
         NEW reusable \in SUBSET Success, ReuseOrAcquire(u, v, c, reusable),
         u \in Requesters => \A d \in reusable : claim[d].media \in published
  PROVE  YInv' /\ GivesOwnOrPublished
<1>1. c \in Claims /\ claim[c].state = "absent" /\ upload[c] = "none"
  BY DEF Fresh, YInv, AbsentIsUntouched
<1>2. PICK r \in ClaimRows :
        /\ claim' = [claim EXCEPT ![c] = r] /\ r.who = u
        /\ \/ r.state = "claimed" /\ r.media = 0
           \/ r.state = "duplicate_resolved" /\ \E d \in reusable : r.media = claim[d].media
  <2>1. CASE reusable = {}
    BY <2>1, NewRows DEF ReuseOrAcquire, Save
  <2>2. CASE reusable # {}
    <3>1. PICK d \in reusable : claim' = [claim EXCEPT ![c] = Reuse(u, v, claim[d].media)]
      BY <2>2 DEF ReuseOrAcquire, Save
    <3>2. d \in Claims /\ claim[d].media \in 0..MaxClaims
      BY DEF Success, YInv, TableTypes, ClaimRows
    <3>3. PICK r : r = Reuse(u, v, claim[d].media)
      OBVIOUS
    <3>4. /\ r \in ClaimRows /\ r.who = u /\ r.state = "duplicate_resolved"
          /\ r.media = claim[d].media
      BY <3>2, <3>3, NewRows
    <3> QED
      BY <3>1, <3>3, <3>4
  <2> QED
    BY <2>1, <2>2
<1>3. \A d \in reusable : claim[d].media \in Library
  BY DEF Success, YInv, SuccessHasMedia
<1>4. UNCHANGED <<busy, staging, upload, published, faults>>
  BY DEF ReuseOrAcquire
<1>5. /\ claim' \in [Claims -> ClaimRows] /\ claim'[c] = r
      /\ \A d \in Claims \ {c} : claim'[d] = claim[d]
  BY <1>1, <1>2 DEF YInv, TableTypes
<1>6. upload[c] \in UploadStates /\ upload' = [upload EXCEPT ![c] = upload[c]]
  BY <1>1, <1>4, SameUpload
<1>7. busy' \in Attentions
  BY <1>4 DEF YInv, TableTypes
<1>8. r.state \in SuccessStates => r.media \in Library
  BY <1>2, <1>3 DEF SuccessStates
<1>9. r.who \in Requesters /\ r.media # 0 => r.media \in published
  BY <1>2
<1>10. claim'[c].state # "handed_off" /\ claim'[c].state # "absent"
  BY <1>2, <1>5
<1> QED
  BY <1>1, <1>4, <1>5, <1>6, <1>7, <1>8, <1>9, <1>10, OneClaimSaved

LEMMA SubmitKeeps ==
  ASSUME YInv, NEW u \in Creators, NEW v \in Videos, NEW c \in Claims,
         SubmitAsOperator(u, v, c) \/ Submit(u, v, c)
  PROVE  YInv' /\ GivesOwnOrPublished
<1>1. CASE SubmitAsOperator(u, v, c)
  <2>1. /\ c \in Fresh /\ ReuseOrAcquire(u, v, c, Cataloged(v)) /\ u \notin Requesters
    BY <1>1, YouTubeAssumption DEF SubmitAsOperator
  <2>2. Cataloged(v) \in SUBSET Success
    BY DEF Cataloged
  <2> QED
    BY <2>1, <2>2, ReuseOrAcquireKeeps
<1>2. CASE Submit(u, v, c)
  <2>1. c \in Fresh /\ ReuseOrAcquire(u, v, c, Reusable(v))
    BY <1>2 DEF Submit
  <2>2. Reusable(v) \in SUBSET Success /\ \A d \in Reusable(v) : claim[d].media \in published
    BY DEF Reusable
  <2> QED
    BY <2>1, <2>2, ReuseOrAcquireKeeps
<1> QED
  BY <1>1, <1>2

LEMMA RetryKeeps ==
  ASSUME YInv, NEW u \in Creators, NEW old \in Claims, NEW c \in Claims, NEW admitted,
         CleanAndReplace(u, old, c, admitted)
  PROVE  YInv' /\ GivesOwnOrPublished
<1>1. PICK r : r = [claim[old] EXCEPT !.cleanup = "complete"]
  OBVIOUS
<1>2. /\ r \in ClaimRows /\ claim[old].state = "failed"
      /\ r.state = claim[old].state /\ r.who = claim[old].who /\ r.media = claim[old].media
  <2>1. claim[old] \in ClaimRows /\ claim[old].state \in ClaimStates
    BY SameUpload DEF ClaimRows
  <2>2. Updated(r, claim[old], claim[old].state) /\ r.media = claim[old].media
    BY <1>1, <2>1, RowUpdates
  <2> QED
    BY <2>2 DEF Updated, CleanAndReplace
<1>3. PICK cleaned : cleaned = [claim EXCEPT ![old].cleanup = "complete"]
  OBVIOUS
<1>4. cleaned = [claim EXCEPT ![old] = r]
  BY <1>1, <1>3
<1>5. /\ cleaned \in [Claims -> ClaimRows] /\ cleaned[old] = r
      /\ \A d \in Claims : d # old => cleaned[d] = claim[d]
  BY <1>2, <1>4 DEF YInv, TableTypes
<1>6. UNCHANGED <<busy, upload, published, faults>> /\ staging' \subseteq staging
  BY DEF CleanAndReplace
<1>7. busy' \in Attentions
  BY <1>6 DEF YInv, TableTypes
<1>8. CASE claim' = cleaned
  <2>1. upload[old] \in UploadStates /\ upload' = [upload EXCEPT ![old] = upload[old]]
    BY <1>6, SameUpload
  <2>2. /\ claim'[old].state = "failed" /\ claim'[old].media = claim[old].media
        /\ \A d \in Claims \ {old} : claim'[d] = claim[d]
    BY <1>2, <1>5, <1>8
  <2>3. /\ claim'[old].state \notin SuccessStates
        /\ claim'[old].state # "absent" /\ claim'[old].state # "handed_off"
    BY <2>2, StatesOfClaims
  <2>4. claim' \in [Claims -> ClaimRows] /\ staging' \subseteq staging \cup {old}
    BY <1>5, <1>6, <1>8
  <2> QED
    BY <1>6, <1>7, <2>1, <2>2, <2>3, <2>4, OneClaimSaved
<1>9. CASE c \in Fresh /\ claim' = [cleaned EXCEPT ![c] = New(u, claim[old].video)]
  <2>1. claim[old].video \in Videos \cup {"nothing"}
    BY SameUpload DEF ClaimRows
  <2>2. PICK n \in ClaimRows : n = New(u, claim[old].video) /\ n.state = "claimed" /\ n.media = 0
    BY <2>1, NewRows
  <2>3. claim[c].state = "absent" /\ upload[c] = "none"
    BY <1>9 DEF Fresh, YInv, AbsentIsUntouched
  <2>4. /\ claim' \in [Claims -> ClaimRows] /\ claim'[c] = n
        /\ \A d \in Claims \ {c} : /\ claim'[d].state = claim[d].state
                                   /\ claim'[d].who = claim[d].who
                                   /\ claim'[d].media = claim[d].media
    BY <1>2, <1>5, <1>9, <2>2
  <2>5. upload[c] \in UploadStates /\ upload' = [upload EXCEPT ![c] = upload[c]]
    BY <1>6, SameUpload
  <2>6. claim'[c].state = "claimed" /\ claim'[c].media = 0 /\ "claimed" \notin SuccessStates
    BY <2>2, <2>4 DEF SuccessStates
  <2> QED
    BY <1>6, <1>7, <2>3, <2>4, <2>5, <2>6, OneClaimSaved, ZenonT(60)
<1> QED
  BY <1>3, <1>8, <1>9 DEF CleanAndReplace

-----------------------------------------------------------------------------
(* The coordinator.                                                          *)

LEMMA CleanupKeeps ==
  ASSUME YInv, NEW c \in Claims, Cleanup(c)
  PROVE  YInv' /\ GivesOwnOrPublished
<1>1. PICK r : r = [claim[c] EXCEPT !.cleanup = "complete"]
  OBVIOUS
<1>2. claim[c] \in ClaimRows /\ claim[c].state \in ClaimStates
  BY SameUpload DEF ClaimRows
<1>3. Updated(r, claim[c], claim[c].state) /\ r.media = claim[c].media
  BY <1>1, <1>2, RowUpdates
<1>4. claim' = [claim EXCEPT ![c] = r]
  BY <1>1 DEF Cleanup, Save
<1>5. /\ busy' = Unoccupied /\ UNCHANGED <<upload, published, faults>>
      /\ staging' \subseteq staging \cup {c} /\ claim[c].state \in SuccessStates \cup {"failed"}
  BY DEF Cleanup, Uncleaned
<1>6. r.state # "absent"
  BY <1>3, <1>5, StatesOfClaims DEF Updated
<1> QED
  BY <1>3, <1>4, <1>5, <1>6, ClaimMovedOn DEF Updated

LEMMA AdvanceClaimKeeps ==
  ASSUME YInv, NEW c \in Claims, NEW s \in ActiveStates, AdvanceClaim(c, s),
         busy' \in {Unoccupied, [Unoccupied EXCEPT !.claim = c]},
         s = "handed_off" => busy' = Unoccupied,
         staging' \subseteq staging \cup {c}, UNCHANGED <<upload, published>>,
         Fault \/ UNCHANGED faults
  PROVE  YInv' /\ GivesOwnOrPublished
<1>1. s \in ClaimStates /\ s \notin SuccessStates /\ s # "absent"
  BY StatesOfClaims
<1>2. PICK r \in ClaimRows : /\ r.state = s /\ r.who = claim[c].who /\ r.media = claim[c].media
                             /\ claim' = [claim EXCEPT ![c] = r]
  BY <1>1, AdvanceRow
<1> QED
  BY <1>1, <1>2, ClaimMovedOn

LEMMA FailKeeps ==
  ASSUME YInv, NEW c \in Claims, Fail(c), busy' = Unoccupied,
         UNCHANGED published, Fault \/ UNCHANGED faults,
         NEW x \in UploadStates, upload' = [upload EXCEPT ![c] = x],
         upload[c] = "cataloged" => x = "cataloged"
  PROVE  YInv' /\ GivesOwnOrPublished
<1>1. /\ staging' \subseteq staging
      /\ \E r \in ClaimRows : /\ r.state = "failed" /\ r.who = claim[c].who /\ r.media = claim[c].media
                              /\ claim' = [claim EXCEPT ![c] = r]
  BY FailRow
<1>2. PICK r \in ClaimRows : /\ r.state = "failed" /\ r.who = claim[c].who /\ r.media = claim[c].media
                             /\ claim' = [claim EXCEPT ![c] = r]
  BY <1>1
<1>3. r.state \notin SuccessStates /\ r.state # "absent" /\ r.state # "handed_off"
  BY <1>2, StatesOfClaims
<1>4. staging' \subseteq staging \cup {c}
  BY <1>1
<1> QED
  BY <1>2, <1>3, <1>4, ClaimAdvanced

LEMMA ToolsKeep ==
  ASSUME YInv, NEW c \in Claims,
         StartInspection(c) \/ Inspect(c) \/ StartDownload(c) \/ Download(c) \/ StepClaim(c)
  PROVE  YInv' /\ GivesOwnOrPublished
<1>1. \A s \in {"inspecting", "download_pending", "downloading", "downloaded", "handoff", "claimed"} :
        s \in ActiveStates /\ s # "handed_off"
  BY DEF ActiveStates
<1>2. CASE StartInspection(c) \/ StartDownload(c)
  <2>1. /\ AdvanceClaim(c, "inspecting") \/ AdvanceClaim(c, "downloading")
        /\ busy' = [Unoccupied EXCEPT !.claim = c]
        /\ UNCHANGED <<staging, upload, published, faults>>
    BY <1>2 DEF StartInspection, StartDownload
  <2> QED
    BY <1>1, <2>1, AdvanceClaimKeeps
<1>3. CASE StepClaim(c)
  <2>1. /\ AdvanceClaim(c, "handoff") \/ AdvanceClaim(c, "download_pending") \/ AdvanceClaim(c, "claimed")
        /\ busy' = Unoccupied
        /\ UNCHANGED <<staging, upload, published, faults>>
    BY <1>3 DEF StepClaim, Turn
  <2> QED
    BY <1>1, <2>1, AdvanceClaimKeeps
<1>4. CASE Inspect(c)
  <2>1. /\ (AdvanceClaim(c, "download_pending") /\ UNCHANGED staging) \/ Fail(c)
        /\ busy' = Unoccupied /\ UNCHANGED <<upload, published, faults>>
    BY <1>4 DEF Inspect
  <2>2. upload[c] \in UploadStates /\ upload' = [upload EXCEPT ![c] = upload[c]]
    BY <2>1, SameUpload
  <2> QED
    BY <1>1, <2>1, <2>2, AdvanceClaimKeeps, FailKeeps
<1>5. CASE Download(c)
  <2>1. /\ \/ AdvanceClaim(c, "downloaded") /\ staging' = staging \cup {c} /\ UNCHANGED faults
           \/ Fail(c) /\ UNCHANGED faults
           \/ UNCHANGED claim /\ staging' = staging \cup {c} /\ Fault
        /\ busy' = Unoccupied /\ UNCHANGED <<upload, published>>
    BY <1>5 DEF Download
  <2>2. upload[c] \in UploadStates /\ upload' = [upload EXCEPT ![c] = upload[c]] /\ claim[c] \in ClaimRows
    BY <2>1, SameUpload
  <2>3. CASE AdvanceClaim(c, "downloaded") /\ staging' = staging \cup {c} /\ UNCHANGED faults
    BY <1>1, <2>1, <2>3, AdvanceClaimKeeps
  <2>4. CASE Fail(c) /\ UNCHANGED faults
    BY <2>1, <2>2, <2>4, FailKeeps
  <2>5. CASE UNCHANGED claim /\ staging' = staging \cup {c} /\ Fault
    <3>1. claim' = [claim EXCEPT ![c] = claim[c]]
      BY <2>5 DEF YInv, TableTypes
    <3>2. claim[c].state = "downloading"
      BY <1>5 DEF Download
    <3> QED
      BY <2>1, <2>2, <2>5, <3>1, <3>2, ClaimMovedOn
  <2> QED
    BY <2>1, <2>3, <2>4, <2>5
<1> QED
  BY <1>2, <1>3, <1>4, <1>5

LEMMA StartHandoffKeeps ==
  ASSUME YInv, NEW c \in Claims, StartHandoff(c)
  PROVE  YInv' /\ GivesOwnOrPublished
<1>1. claim[c].state = "handoff" /\ claim[c] \in ClaimRows /\ "handoff" \in ClaimStates
  BY SameUpload DEF StartHandoff, ClaimRows
<1>2. PICK r \in ClaimRows : /\ r.state = "handoff" /\ r.who = claim[c].who /\ r.media = claim[c].media
                             /\ claim' = [claim EXCEPT ![c] = r]
  <2>1. CASE claim[c].linked
    <3>1. claim' = [claim EXCEPT ![c] = claim[c]]
      BY <2>1 DEF StartHandoff, YInv, TableTypes
    <3> QED
      BY <1>1, <3>1
  <2>2. CASE ~claim[c].linked
    <3>1. PICK r : r = [claim[c] EXCEPT !.linked = TRUE]
      OBVIOUS
    <3>2. Updated(r, claim[c], "handoff") /\ r.media = claim[c].media
      BY <1>1, <3>1, RowUpdates
    <3>3. claim' = [claim EXCEPT ![c] = r]
      BY <2>2, <3>1 DEF StartHandoff, Save
    <3> QED
      BY <3>2, <3>3 DEF Updated
  <2> QED
    BY <2>1, <2>2
<1>3. PICK x : x = IF upload[c] = "none" THEN "receiving" ELSE upload[c]
  OBVIOUS
<1>4. /\ x \in UploadStates /\ upload' = [upload EXCEPT ![c] = x]
      /\ upload[c] = "cataloged" => x = "cataloged"
  BY <1>3, SameUpload DEF StartHandoff, UploadStates
<1>5. /\ busy' = [Unoccupied EXCEPT !.claim = c]
      /\ UNCHANGED <<staging, published, faults>>
  BY DEF StartHandoff
<1>6. "handoff" \notin SuccessStates
  BY DEF SuccessStates
<1> QED
  BY <1>2, <1>4, <1>5, <1>6, ClaimAdvanced

LEMMA HandoffKeeps ==
  ASSUME YInv, NEW c \in Claims, Handoff(c)
  PROVE  YInv' /\ GivesOwnOrPublished
<1>1. /\ claim[c].state = "handoff" /\ claim[c] \in ClaimRows
      /\ busy' = Unoccupied /\ UNCHANGED published
  BY SameUpload DEF Handoff
<1>2. \/ /\ SaveAndClean(c, [claim[c] EXCEPT !.state = "handed_off"]) /\ UNCHANGED faults
         /\ upload' = [upload EXCEPT ![c] = IF upload[c] = "receiving" THEN "received" ELSE upload[c]]
      \/ Fail(c) /\ UNCHANGED <<upload, faults>>
      \/ /\ upload[c] = "receiving" /\ Fault
         /\ \E left \in {"receiving", "received"} : upload' = [upload EXCEPT ![c] = left]
         /\ Fail(c) \/ UNCHANGED <<claim, queue, staging>>
  BY DEF Handoff
<1>3. PICK x \in UploadStates : /\ upload' = [upload EXCEPT ![c] = x]
                                /\ upload[c] = "cataloged" => x = "cataloged"
  <2>1. "receiving" \in UploadStates /\ "received" \in UploadStates
    BY DEF UploadStates, Pending
  <2>2. upload[c] \in UploadStates /\ upload = [upload EXCEPT ![c] = upload[c]]
    BY SameUpload
  <2>3. CASE UNCHANGED upload
    BY <2>2, <2>3
  <2>4. CASE upload[c] = "receiving" /\ \E left \in {"receiving", "received"} :
                                         upload' = [upload EXCEPT ![c] = left]
    BY <2>1, <2>4
  <2>5. CASE upload' = [upload EXCEPT ![c] = IF upload[c] = "receiving" THEN "received" ELSE upload[c]]
    <3>1. PICK x : x = IF upload[c] = "receiving" THEN "received" ELSE upload[c]
      OBVIOUS
    <3> QED
      BY <2>1, <2>2, <2>5, <3>1
  <2> QED
    BY <1>2, <2>3, <2>4, <2>5
<1>4. CASE SaveAndClean(c, [claim[c] EXCEPT !.state = "handed_off"]) /\ UNCHANGED faults
  <2>1. PICK record : record = [claim[c] EXCEPT !.state = "handed_off"]
    OBVIOUS
  <2>2. "handed_off" \in ClaimStates /\ "handed_off" \notin SuccessStates
    BY DEF ClaimStates, ActiveStates, SuccessStates
  <2>3. Updated(record, claim[c], "handed_off") /\ record.media = claim[c].media
    BY <1>1, <2>1, <2>2, RowUpdates
  <2>4. /\ staging' \subseteq staging
        /\ \E r \in ClaimRows : /\ r.state = "handed_off" /\ r.who = claim[c].who /\ r.media = claim[c].media
                                /\ claim' = [claim EXCEPT ![c] = r]
    <3>1. /\ record \in ClaimRows /\ record.state = "handed_off"
          /\ record.who = claim[c].who /\ SaveAndClean(c, record)
      BY <1>4, <2>1, <2>3 DEF Updated
    <3> QED
      BY <2>3, <3>1, CleanedRow
  <2>5. PICK r \in ClaimRows : /\ r.state = "handed_off" /\ r.who = claim[c].who /\ r.media = claim[c].media
                               /\ claim' = [claim EXCEPT ![c] = r]
    BY <2>4
  <2>6. staging' \subseteq staging \cup {c}
    BY <2>4
  <2> QED
    BY <1>1, <1>3, <1>4, <2>2, <2>5, <2>6, ClaimAdvanced
<1>5. CASE Fail(c) /\ (Fault \/ UNCHANGED faults)
  BY <1>1, <1>3, <1>5, FailKeeps
<1>6. CASE UNCHANGED <<claim, staging>> /\ Fault
  <2>1. claim' = [claim EXCEPT ![c] = claim[c]]
    BY <1>6 DEF YInv, TableTypes
  <2>2. "handoff" \notin SuccessStates
    BY DEF SuccessStates
  <2>3. staging' \subseteq staging \cup {c}
    BY <1>6
  <2> QED
    BY <1>1, <1>3, <1>6, <2>1, <2>2, <2>3, ClaimAdvanced
<1> QED
  BY <1>2, <1>4, <1>5, <1>6

\* The rows that _project_upload saves.
LEMMA EndedRow ==
  ASSUME YInv, NEW c \in Claims, NEW s \in ClaimStates,
         NEW r, r = [[claim[c] EXCEPT !.state = s] EXCEPT !.cleanup = "complete"]
  PROVE  Updated(r, claim[c], s) /\ r.media = claim[c].media
<1>1. PICK row : row = [claim[c] EXCEPT !.state = s]
  OBVIOUS
<1>2. Updated(row, claim[c], s) /\ row.media = claim[c].media
  BY <1>1, SameUpload DEF Updated, ClaimRows
<1>3. r = [row EXCEPT !.cleanup = "complete"]
  BY <1>1
<1>4. row \in ClaimRows /\ row.state = s /\ row.who = claim[c].who
  BY <1>2 DEF Updated
<1> QED
  BY <1>2, <1>3, <1>4 DEF Updated, ClaimRows

\* A claim comes to refer to a medium.
LEMMA ClaimSucceeds ==
  ASSUME YInv, NEW c \in Claims, NEW r \in ClaimRows, claim' = [claim EXCEPT ![c] = r],
         r.state \in SuccessStates, r.who = claim[c].who, r.media \in Library,
         r.media # c => upload[c] = "discarded" /\ claim[c].who \in Operators,
         busy' = Unoccupied, staging' \subseteq staging, UNCHANGED <<upload, published, faults>>
  PROVE  YInv' /\ GivesOwnOrPublished
<1>1. /\ claim' \in [Claims -> ClaimRows] /\ claim'[c] = r
      /\ \A d \in Claims \ {c} : claim'[d] = claim[d]
  BY DEF YInv, TableTypes
<1>2. upload[c] \in UploadStates /\ upload' = [upload EXCEPT ![c] = upload[c]]
  BY SameUpload
<1>3. busy' \in Attentions /\ busy'.claim = 0 /\ busy'.claim # c
  BY ClaimNumbers
<1>4. r.state # "absent" /\ staging' \subseteq staging \cup {c}
  BY StatesOfClaims
<1>5. r.who \in Requesters => r.media = c
  BY YouTubeAssumption
<1> QED
  BY <1>1, <1>2, <1>3, <1>4, <1>5, OneClaimSaved, ZenonT(60)

LEMMA ProjectKeeps ==
  ASSUME YInv, NEW c \in Claims, ProjectUpload(c)
  PROVE  YInv' /\ GivesOwnOrPublished
<1> DEFINE Done(record) == claim' = [claim EXCEPT ![c] = [record EXCEPT !.cleanup = "complete"]]
           Waits == \/ claim' = [claim EXCEPT ![c] = [claim[c] EXCEPT !.cleanup = "complete"]]
                    \/ UNCHANGED claim
           operated == claim[c].who \in Operators
           stays == UNCHANGED <<busy, upload>>
<1>1. /\ busy = Unoccupied /\ claim[c].state = "handed_off" /\ claim[c] \in ClaimRows
      /\ staging' \subseteq staging /\ UNCHANGED <<published, faults>>
  BY SameUpload DEF ProjectUpload, Turn
<1>2. \/ Waits /\ stays
      \/ upload[c] = "cataloged" /\ Done([claim[c] EXCEPT !.state = "cataloged", !.media = c]) /\ stays
      \/ Done([claim[c] EXCEPT !.state = "failed"]) /\ stays
      \/ /\ upload[c] = "discarded" /\ operated
         /\ \E d \in Canonical(c) : Done(Resolved(c, d))
         /\ stays
      \/ /\ upload[c] = "duplicate" /\ operated
         /\ \E d \in Canonical(c) : busy' = [claim |-> c, media |-> d]
         /\ upload' = [upload EXCEPT ![c] = "discarded"]
         /\ Waits
  BY DEF ProjectUpload, Save
<1>3. \E r \in ClaimRows : Waits => /\ claim' = [claim EXCEPT ![c] = r] /\ r.state = "handed_off"
                                    /\ r.who = claim[c].who /\ r.media = claim[c].media
  <2>1. CASE UNCHANGED claim
    <3>1. claim' = [claim EXCEPT ![c] = claim[c]]
      BY <2>1 DEF YInv, TableTypes
    <3> QED
      BY <1>1, <3>1
  <2>2. CASE claim' = [claim EXCEPT ![c] = [claim[c] EXCEPT !.cleanup = "complete"]]
    <3>1. PICK r : r = [claim[c] EXCEPT !.cleanup = "complete"]
      OBVIOUS
    <3>2. claim[c].state \in ClaimStates
      BY <1>1 DEF ClaimRows
    <3>3. Updated(r, claim[c], claim[c].state) /\ r.media = claim[c].media
      BY <1>1, <3>1, <3>2, RowUpdates
    <3> QED
      BY <1>1, <2>2, <3>1, <3>3 DEF Updated
  <2>3. CASE ~Waits
    BY <1>1, <2>3
  <2> QED
    BY <2>1, <2>2, <2>3
<1>4. /\ "cataloged" \in ClaimStates /\ "duplicate_resolved" \in ClaimStates /\ "failed" \in ClaimStates
      /\ "handed_off" \notin SuccessStates /\ "failed" \notin SuccessStates
      /\ "cataloged" \in SuccessStates /\ "duplicate_resolved" \in SuccessStates
  BY DEF ClaimStates, SuccessStates, TerminalStates
<1>5. ASSUME Waits, stays
      PROVE  YInv' /\ GivesOwnOrPublished
  <2>1. PICK r \in ClaimRows : /\ claim' = [claim EXCEPT ![c] = r] /\ r.state = "handed_off"
                               /\ r.who = claim[c].who /\ r.media = claim[c].media
    BY <1>3, <1>5
  <2>2. busy' = Unoccupied /\ UNCHANGED upload /\ staging' \subseteq staging \cup {c}
    BY <1>1, <1>5
  <2> QED
    BY <1>1, <1>4, <2>1, <2>2, ClaimMovedOn
<1>6. ASSUME upload[c] = "cataloged", Done([claim[c] EXCEPT !.state = "cataloged", !.media = c]), stays
      PROVE  YInv' /\ GivesOwnOrPublished
  <2>1. PICK r : r = [[claim[c] EXCEPT !.state = "cataloged", !.media = c] EXCEPT !.cleanup = "complete"]
    OBVIOUS
  <2>2. c \in 0..MaxClaims /\ c \in Library
    BY <1>6, ClaimNumbers DEF Library
  <2>3. Updated(r, claim[c], "cataloged") /\ r.media = c
    <3>1. PICK row : row = [claim[c] EXCEPT !.state = "cataloged", !.media = c]
      OBVIOUS
    <3>2. row \in ClaimRows /\ row.state = "cataloged" /\ row.who = claim[c].who /\ row.media = c
      BY <1>1, <1>4, <2>2, <3>1 DEF ClaimRows
    <3>3. r = [row EXCEPT !.cleanup = "complete"]
      BY <2>1, <3>1
    <3> QED
      BY <3>2, <3>3 DEF Updated, ClaimRows
  <2>4. claim' = [claim EXCEPT ![c] = r]
    BY <1>6, <2>1
  <2>5. /\ r \in ClaimRows /\ r.state \in SuccessStates /\ r.who = claim[c].who
        /\ r.media = c /\ r.media \in Library
        /\ busy' = Unoccupied /\ UNCHANGED <<upload, published, faults>>
    BY <1>1, <1>4, <1>6, <2>2, <2>3 DEF Updated
  <2> QED
    BY <1>1, <2>4, <2>5, ClaimSucceeds
<1>7. ASSUME Done([claim[c] EXCEPT !.state = "failed"]), stays
      PROVE  YInv' /\ GivesOwnOrPublished
  <2>1. PICK r : r = [[claim[c] EXCEPT !.state = "failed"] EXCEPT !.cleanup = "complete"]
    OBVIOUS
  <2>3. Updated(r, claim[c], "failed") /\ r.media = claim[c].media
    BY <1>4, <2>1, EndedRow
  <2>4. claim' = [claim EXCEPT ![c] = r]
    BY <1>7, <2>1
  <2>5. busy' = Unoccupied /\ UNCHANGED upload /\ staging' \subseteq staging \cup {c}
    BY <1>1, <1>7
  <2> QED
    BY <1>1, <1>4, <2>3, <2>4, <2>5, ClaimMovedOn DEF Updated
<1>8. ASSUME upload[c] = "discarded", operated, NEW d \in Canonical(c), Done(Resolved(c, d)), stays
      PROVE  YInv' /\ GivesOwnOrPublished
  <2>1. PICK r : r = [[claim[c] EXCEPT !.state = "duplicate_resolved", !.media = d] EXCEPT !.cleanup = "complete"]
    OBVIOUS
  <2>2. d \in 0..MaxClaims /\ d \in Library
    BY ClaimNumbers DEF Canonical
  <2>3. Updated(r, claim[c], "duplicate_resolved") /\ r.media = d
    <3>1. PICK row : row = [claim[c] EXCEPT !.state = "duplicate_resolved", !.media = d]
      OBVIOUS
    <3>2. row \in ClaimRows /\ row.state = "duplicate_resolved" /\ row.who = claim[c].who /\ row.media = d
      BY <1>1, <1>4, <2>2, <3>1 DEF ClaimRows
    <3>3. r = [row EXCEPT !.cleanup = "complete"]
      BY <2>1, <3>1
    <3> QED
      BY <3>2, <3>3 DEF Updated, ClaimRows
  <2>4. claim' = [claim EXCEPT ![c] = r]
    BY <1>8, <2>1 DEF Resolved
  <2> QED
    BY <1>1, <1>4, <1>8, <2>2, <2>3, <2>4, ClaimSucceeds DEF Updated
<1>9. ASSUME upload[c] = "duplicate", operated, NEW d \in Canonical(c),
             busy' = [claim |-> c, media |-> d], upload' = [upload EXCEPT ![c] = "discarded"], Waits
      PROVE  YInv' /\ GivesOwnOrPublished
  <2>1. PICK r \in ClaimRows : /\ claim' = [claim EXCEPT ![c] = r] /\ r.state = "handed_off"
                               /\ r.who = claim[c].who /\ r.media = claim[c].media
    BY <1>3, <1>9
  <2>2. /\ claim' \in [Claims -> ClaimRows] /\ claim'[c] = r
        /\ \A e \in Claims \ {c} : claim'[e] = claim[e]
    BY <2>1 DEF YInv, TableTypes
  <2>3. "discarded" \in UploadStates
    BY DEF UploadStates
  <2>4. c \in 0..MaxClaims /\ d \in 0..MaxClaims
    BY ClaimNumbers DEF Canonical
  <2>5. busy' \in Attentions /\ busy'.claim = c
    BY <1>9, <2>4 DEF Attentions
  <2>6. staging' \subseteq staging \cup {c}
    BY <1>1
  <2> QED
    BY <1>1, <1>4, <1>9, <2>1, <2>2, <2>3, <2>5, <2>6, OneClaimSaved
<1> HIDE DEF Done, Waits, operated, stays
<1> QED
  BY <1>2, <1>5, <1>6, <1>7, <1>8, <1>9

LEMMA ResolveKeeps ==
  ASSUME YInv, NEW c \in Claims, ResolveDuplicate(c)
  PROVE  YInv' /\ GivesOwnOrPublished
<1>1. /\ busy.claim = c /\ claim[c].state = "handed_off" /\ claim[c] \in ClaimRows
      /\ busy' = Unoccupied /\ UNCHANGED <<staging, upload, published, faults>>
  BY SameUpload DEF ResolveDuplicate
<1>2. upload[c] = "discarded" /\ claim[c].who \in Operators
  BY <1>1 DEF YInv, ResolutionIsOperated
<1>3. /\ "duplicate_resolved" \in ClaimStates /\ "duplicate_resolved" \in SuccessStates
      /\ "handed_off" \notin SuccessStates
  BY DEF ClaimStates, SuccessStates, TerminalStates
<1>4. CASE busy.media \in Library
  <2>1. PICK r : r = [claim[c] EXCEPT !.state = "duplicate_resolved", !.media = busy.media]
    OBVIOUS
  <2>2. busy.media \in 0..MaxClaims
    BY <1>4, ClaimNumbers
  <2>3. Updated(r, claim[c], "duplicate_resolved") /\ r.media = busy.media
    BY <1>1, <1>3, <2>1, <2>2 DEF Updated, ClaimRows
  <2>4. claim' = [claim EXCEPT ![c] = r]
    BY <1>4, <2>1 DEF ResolveDuplicate, Save, Resolved
  <2> QED
    BY <1>1, <1>2, <1>3, <1>4, <2>3, <2>4, ClaimSucceeds DEF Updated
<1>5. CASE busy.media \notin Library
  <2>1. claim' = [claim EXCEPT ![c] = claim[c]]
    BY <1>5 DEF ResolveDuplicate, YInv, TableTypes
  <2> QED
    BY <1>1, <1>3, <2>1, ClaimMovedOn
<1> QED
  BY <1>4, <1>5

-----------------------------------------------------------------------------
(* What happens around the coordinator.                                      *)

LEMMA RestartKeeps ==
  ASSUME YInv, Restart
  PROVE  YInv' /\ GivesOwnOrPublished
<1>1. /\ Fault /\ busy' = Unoccupied /\ UNCHANGED <<upload, published>> /\ staging' \subseteq staging
  BY DEF Restart
<1>2. /\ claim' \in [Claims -> ClaimRows]
      /\ \A c \in Claims : /\ claim'[c].who = claim[c].who /\ claim'[c].media = claim[c].media
                           /\ claim'[c].state = "absent" => claim[c].state = "absent"
                           /\ claim'[c].state \in SuccessStates => claim[c].state \in SuccessStates
  <2>1. ASSUME NEW row \in ClaimRows,
               NEW r \in {row, [row EXCEPT !.state = "claimed"], [row EXCEPT !.state = "download_pending"],
                          [row EXCEPT !.state = "failed", !.cleanup = "complete"]}
        PROVE  /\ r \in ClaimRows /\ r.who = row.who /\ r.media = row.media
               /\ r.state \in {row.state, "claimed", "download_pending", "failed"}
    BY DEF ClaimRows, ClaimStates, ActiveStates, TerminalStates
  <2>2. /\ claim' = [c \in Claims |-> claim'[c]]
        /\ \A c \in Claims :
             claim'[c] \in {claim[c], [claim[c] EXCEPT !.state = "claimed"],
                           [claim[c] EXCEPT !.state = "download_pending"],
                           [claim[c] EXCEPT !.state = "failed", !.cleanup = "complete"]}
    <3>1. PICK version \in Versions, tooled \in SUBSET Claims :
            claim' = [c \in Claims |->
                CASE claim[c].state = "inspecting" \/ (c \in tooled /\ version = "changed") ->
                        [claim[c] EXCEPT !.state = "claimed"]
                  [] c \in tooled /\ version = "unattested" ->
                        [claim[c] EXCEPT !.state = "failed", !.cleanup = "complete"]
                  [] claim[c].state = "downloading" /\ version = "same" ->
                        [claim[c] EXCEPT !.state = "download_pending"]
                  [] OTHER -> claim[c]]
      BY ZenonT(60) DEF Restart, Active
    <3> DEFINE Recovered(c) ==
                CASE claim[c].state = "inspecting" \/ (c \in tooled /\ version = "changed") ->
                        [claim[c] EXCEPT !.state = "claimed"]
                  [] c \in tooled /\ version = "unattested" ->
                        [claim[c] EXCEPT !.state = "failed", !.cleanup = "complete"]
                  [] claim[c].state = "downloading" /\ version = "same" ->
                        [claim[c] EXCEPT !.state = "download_pending"]
                  [] OTHER -> claim[c]
    <3>2. claim' = [c \in Claims |-> Recovered(c)]
      BY <3>1
    <3>3. claim' = [c \in Claims |-> claim'[c]]
      <4> HIDE DEF Recovered
      <4> QED
        BY <3>2
    <3>4. ASSUME NEW c \in Claims
          PROVE  claim'[c] \in {claim[c], [claim[c] EXCEPT !.state = "claimed"],
                               [claim[c] EXCEPT !.state = "download_pending"],
                               [claim[c] EXCEPT !.state = "failed", !.cleanup = "complete"]}
      <4>1. claim'[c] = Recovered(c)
        BY <3>2
      <4> QED
        BY <4>1
    <3> QED
      BY <3>3, <3>4
  <2>3. \A c \in Claims : claim[c] \in ClaimRows
    BY SameUpload
  <2>4. \A c \in Claims :
          /\ claim'[c] \in ClaimRows
          /\ claim'[c].who = claim[c].who /\ claim'[c].media = claim[c].media
          /\ claim'[c].state \in {claim[c].state, "claimed", "download_pending", "failed"}
    <3>1. ASSUME NEW c \in Claims
          PROVE  /\ claim'[c] \in ClaimRows
                 /\ claim'[c].who = claim[c].who /\ claim'[c].media = claim[c].media
                 /\ claim'[c].state \in {claim[c].state, "claimed", "download_pending", "failed"}
      <4>1. PICK row : row = claim[c]
        OBVIOUS
      <4>2. row \in ClaimRows
        BY <2>3, <4>1
      <4>3. PICK r : r = claim'[c]
        OBVIOUS
      <4>4. r \in {row, [row EXCEPT !.state = "claimed"], [row EXCEPT !.state = "download_pending"],
                  [row EXCEPT !.state = "failed", !.cleanup = "complete"]}
        BY <2>2, <4>1, <4>3
      <4>5. /\ r \in ClaimRows /\ r.who = row.who /\ r.media = row.media
            /\ r.state \in {row.state, "claimed", "download_pending", "failed"}
        BY <2>1, <4>2, <4>4
      <4> QED
        BY <4>1, <4>3, <4>5
    <3> QED
      BY <3>1
  <2>5. {"claimed", "download_pending", "failed"} \cap (SuccessStates \cup {"absent"}) = {}
    BY DEF SuccessStates
  <2> QED
    BY <2>2, <2>4, <2>5
<1>3. faults' \in 0..MaxFaults
  BY <1>1, AfterClaimFault DEF YInv
<1>4. TableTypes'
  BY <1>1, <1>2, <1>3, ClaimNumbers DEF YInv, TableTypes, Library
<1>5. AbsentIsUntouched'
  BY <1>1, <1>2 DEF YInv, AbsentIsUntouched
<1>6. ResolutionIsOperated'
  BY <1>1, ClaimNumbers DEF ResolutionIsOperated
<1>7. SuccessHasMedia'
  BY <1>1, <1>2 DEF YInv, SuccessHasMedia, Library
<1>8. GivesOwnOrPublished
  BY <1>2 DEF GivesOwnOrPublished
<1> QED
  BY <1>4, <1>5, <1>6, <1>7, <1>8 DEF YInv

LEMMA UploadsKeep ==
  ASSUME YInv, NEW c \in Claims, Validate(c) \/ Catalog(c) \/ Cancel(c) \/ Answer(c)
  PROVE  YInv' /\ GivesOwnOrPublished
<1>1. PICK x \in UploadStates : upload' = [upload EXCEPT ![c] = x]
  BY DEF Validate, Catalog, Cancel, Answer, Becomes, UploadStates, Pending, Ended
<1>2. /\ upload[c] \in {"receiving", "received", "publishing", "duplicate"}
      /\ UNCHANGED <<claim, queue, busy, staging, published, faults>>
  BY DEF Validate, Catalog, Cancel, Answer, Becomes
<1>3. upload[c] \notin {"none", "discarded", "cataloged"}
  BY <1>2
<1>4. /\ claim[c].state # "absent"
      /\ ~(busy.claim = c /\ claim[c].state = "handed_off")
      /\ claim[c].state \notin SuccessStates
  BY <1>3 DEF YInv, AbsentIsUntouched, ResolutionIsOperated, SuccessHasMedia, Library
<1>5. claim' \in [Claims -> ClaimRows] /\ busy' \in Attentions
  BY <1>2 DEF YInv, TableTypes
<1> QED
  BY <1>1, <1>2, <1>3, <1>4, <1>5, OneClaimSaved

LEMMA PublishKeeps ==
  ASSUME YInv, NEW m \in Claims, Publish(m)
  PROVE  YInv' /\ GivesOwnOrPublished
<1>1. UNCHANGED <<claim, queue, busy, staging, upload, faults>> /\ published' \subseteq Library
  BY DEF Publish, YInv, TableTypes
<1> QED
  BY <1>1 DEF YInv, TableTypes, AbsentIsUntouched, ResolutionIsOperated, SuccessHasMedia, Library,
     GivesOwnOrPublished

LEMMA RemoveKeeps ==
  ASSUME YInv, NEW m \in Claims, RemoveMedia(m)
  PROVE  YInv' /\ GivesOwnOrPublished
<1>1. /\ m \in Library /\ upload' = [upload EXCEPT ![m] = "detached"]
      /\ published' = published \ {m} /\ UNCHANGED <<queue, busy, staging, faults>>
  BY DEF RemoveMedia
<1>2. claim' = [c \in Claims |-> IF claim[c].media = m
                                 THEN [claim[c] EXCEPT !.state = "catalog_removed", !.media = 0]
                                 ELSE claim[c]]
  BY DEF RemoveMedia
<1>3. \A c \in Claims : claim[c] \in ClaimRows
  BY SameUpload
<1>4. \A c \in Claims :
        /\ claim'[c] \in ClaimRows /\ claim'[c].who = claim[c].who
        /\ claim[c].media # m => claim'[c] = claim[c]
        /\ claim[c].media = m => claim'[c].state = "catalog_removed" /\ claim'[c].media = 0
  <2>1. 0 \in 0..MaxClaims /\ "catalog_removed" \in ClaimStates
    BY YouTubeAssumption, StatesOfClaims
  <2>2. \A c \in Claims :
          LET r == [claim[c] EXCEPT !.state = "catalog_removed", !.media = 0] IN
          Updated(r, claim[c], "catalog_removed") /\ r.media = 0
    BY <1>3, <2>1 DEF Updated, ClaimRows
  <2> QED
    BY <1>2, <1>3, <2>2 DEF Updated
<1>5. claim' \in [Claims -> ClaimRows]
  BY <1>2, <1>4
<1>6. /\ upload' \in [Claims -> UploadStates] /\ upload'[m] = "detached" /\ upload[m] = "cataloged"
      /\ \A c \in Claims : c # m => upload'[c] = upload[c]
  BY <1>1 DEF YInv, TableTypes, UploadStates, Ended, Library
<1>7. Library' = Library \ {m}
  BY <1>6 DEF Library
<1>8. TableTypes'
  BY <1>1, <1>5, <1>6, <1>7 DEF YInv, TableTypes
<1>9. AbsentIsUntouched'
  <2>1. ASSUME NEW c \in Claims, claim'[c].state = "absent"
        PROVE  upload'[c] = "none"
    <3>1. claim[c].state = "absent"
      BY <1>4, <2>1
    <3>2. upload[c] = "none"
      BY <3>1 DEF YInv, AbsentIsUntouched
    <3> QED
      BY <1>6, <3>2
  <2> QED
    BY <2>1 DEF AbsentIsUntouched
<1>10. ResolutionIsOperated'
  <2>1. ASSUME NEW c \in Claims, busy'.claim = c, claim'[c].state = "handed_off"
        PROVE  upload'[c] = "discarded" /\ claim'[c].who \in Operators
    <3>1. claim[c].state = "handed_off" /\ claim'[c].who = claim[c].who /\ busy.claim = c
      BY <1>1, <1>4, <2>1
    <3>2. upload[c] = "discarded" /\ claim[c].who \in Operators
      BY <3>1 DEF YInv, ResolutionIsOperated
    <3> QED
      BY <1>6, <3>1, <3>2
  <2> QED
    BY <2>1 DEF ResolutionIsOperated
<1>11. SuccessHasMedia'
  <2>1. ASSUME NEW c \in Claims, claim'[c].state \in SuccessStates
        PROVE  /\ claim'[c].media \in Library'
               /\ claim'[c].media # c => upload'[c] \in {"none", "discarded"}
    <3>1. claim'[c] = claim[c] /\ claim[c].media # m
      BY <1>4, <2>1, StatesOfClaims
    <3>2. claim[c].media \in Library /\ (claim[c].media # c => upload[c] \in {"none", "discarded"})
      BY <2>1, <3>1 DEF YInv, SuccessHasMedia
    <3>3. claim[c].media # c => c # m
      BY <1>6, <3>2
    <3> QED
      BY <1>6, <1>7, <3>1, <3>2, <3>3
  <2> QED
    BY <2>1 DEF SuccessHasMedia
<1>12. GivesOwnOrPublished
  BY <1>4 DEF GivesOwnOrPublished
<1> QED
  BY <1>8, <1>9, <1>10, <1>11, <1>12 DEF YInv

-----------------------------------------------------------------------------
(* The specification.                                                        *)

LEMMA YouTubeNextKeeps ==
  ASSUME YInv, [YouTubeNext]_youtubeVars
  PROVE  YInv' /\ GivesOwnOrPublished
<1>1. CASE UNCHANGED youtubeVars
  BY <1>1 DEF youtubeVars, YInv, TableTypes, AbsentIsUntouched, ResolutionIsOperated, SuccessHasMedia,
     Library, GivesOwnOrPublished
<1>2. ASSUME NEW c \in Claims, NEW u \in Creators, NEW v \in Videos,
             SubmitAsOperator(u, v, c) \/ Submit(u, v, c)
      PROVE  YInv' /\ GivesOwnOrPublished
  BY <1>2, SubmitKeeps
<1>3. ASSUME NEW c \in Claims, NEW u \in Creators, NEW old \in Claims,
             RetryAsOperator(u, old, c) \/ Retry(u, old, c)
      PROVE  YInv' /\ GivesOwnOrPublished
  BY <1>3, RetryKeeps DEF RetryAsOperator, Retry
<1>4. ASSUME NEW c \in Claims, Drain(c)
      PROVE  YInv' /\ GivesOwnOrPublished
  BY <1>4, CleanupKeeps, ToolsKeep, StartHandoffKeeps, HandoffKeeps, ProjectKeeps, ResolveKeeps DEF Drain
<1>5. ASSUME NEW c \in Claims,
             Validate(c) \/ Catalog(c) \/ Cancel(c) \/ Answer(c) \/ Publish(c) \/ RemoveMedia(c)
      PROVE  YInv' /\ GivesOwnOrPublished
  BY <1>5, UploadsKeep, PublishKeeps, RemoveKeeps
<1>6. CASE Restart
  BY <1>6, RestartKeeps
<1> QED
  BY <1>1, <1>2, <1>3, <1>4, <1>5, <1>6 DEF YouTubeNext

LEMMA YouTubeInitKeeps == YouTubeInit => YInv
<1> SUFFICES ASSUME YouTubeInit PROVE YInv
  OBVIOUS
<1>1. NoClaim \in ClaimRows /\ NoClaim.state = "absent"
  BY YouTubeAssumption DEF NoClaim, ClaimRows, ClaimStates
<1>2. \A c \in Claims : claim[c] = NoClaim /\ upload[c] = "none"
  BY DEF YouTubeInit
<1>3. TableTypes
  BY <1>1, ClaimNumbers, YouTubeAssumption DEF YouTubeInit, TableTypes, UploadStates
<1>4. \A c \in Claims : claim[c].state = "absent" /\ upload[c] = "none"
  BY <1>1, <1>2
<1> QED
  BY <1>3, <1>4, StatesOfClaims DEF YInv, AbsentIsUntouched, ResolutionIsOperated, SuccessHasMedia

\* The inductive invariant of youtube_acquisition.py: rows are well typed, no
\* upload precedes its claim, a duplicate is resolved for an operator's claim
\* whose upload is discarded already, and a successful claim names its media.
THEOREM YouTubeInvariant == YouTubeSpec => []YInv
<1>1. YInv /\ [YouTubeNext]_youtubeVars => YInv'
  BY YouTubeNextKeeps
<1> QED
  BY <1>1, YouTubeInitKeeps, PTL DEF YouTubeSpec

\* A claim of youtube_acquisition.py that ended well refers to media that is in
\* the library, and one that refers to the media of another claim has brought
\* none of its own, whatever was removed, restarted or resolved meanwhile.
THEOREM YouTubeSuccessHasMedia == YouTubeSpec => []SuccessHasMedia
<1>1. YInv => SuccessHasMedia
  BY DEF YInv
<1> QED
  BY <1>1, YouTubeInvariant, PTL

\* A requester who is no operator is given the media of the own upload or media
\* that is published: no reuse of an earlier claim and no duplicate hands over
\* content that its owner keeps private.
THEOREM YouTubeOnlyOwnOrPublished == YouTubeSpec => OnlyOwnOrPublished
<1>1. YInv /\ [YouTubeNext]_youtubeVars =>
        [\A c \in Claims :
            /\ claim'[c].who \in Requesters
            /\ claim'[c].media # claim[c].media /\ claim'[c].media # 0
            => claim'[c].media = c \/ claim'[c].media \in published]_youtubeVars
  BY YouTubeNextKeeps DEF GivesOwnOrPublished
<1> QED
  BY <1>1, YouTubeInvariant, PTL DEF YouTubeSpec, OnlyOwnOrPublished

-----------------------------------------------------------------------------
(* Shutdown: the validator's thread, its tool and the end of the process.    *)

CoordinatorRows == [stopping : BOOLEAN, runner : {"waiting", "working", "ending", "done"},
                    thread : {"idle", "busy"}]
RunRows == [pc : {"off", "hashing", "spawning", "watching", "polling", "cleaning", "killing",
                  "reading", "rehashing"},
            why : {"none", "interrupted", "overflow", "exited", "timeout"}, over : BOOLEAN]
ToolRows == [leader : {"none", "alive", "ended"}, code : {"none", "signal", "ok", "error"},
             helper : BOOLEAN, deaf : BOOLEAN]

\* The steps of a run between the start of the tool and the end of its group.
Owning == {"watching", "polling", "cleaning", "killing"}
ToolIsOwned == GroupExists(child) => run.pc \in Owning

\* The validator's runner waits for a candidate only when its thread is back, and
\* the thread is away exactly when it is in a run.
RunnerFits(v) ==
    /\ v.runner # "ending"
    /\ v.runner = "waiting" => run.pc = "off"
    /\ v.thread = "idle" <=> run.pc = "off"

ShutdownInv == ShutdownTypeOK /\ ToolIsOwned /\ RunnerFits(coord["validation"])

LEMMA ValidationIsStarted ==
  "validation" \in Coordinators /\ HasExecutor("validation") /\ Len(Started) \in Nat
<1>1. 4 \in DOMAIN Started /\ Started[4] = "validation" /\ Len(Started) = 6
  BY DEF Started
<1> QED
  BY <1>1 DEF Coordinators, HasExecutor

\* What happens outside the validator's thread, its runner and its tool.
Outside ==
    /\ app' \in {"serving", "graceful", "stopping", "disposed", "gone"}
    /\ next' \in 0..Len(Started)
    /\ phase' \in {"interrupt", "signal", "stop", "await", "settle"}
    /\ late' \in BOOLEAN /\ flag' \in BOOLEAN /\ stopFlag' \in BOOLEAN
    /\ content' = content /\ stops' \in 0..MaxStops

LEMMA Composed ==
  ASSUME ShutdownInv, Outside, NEW r \in RunRows, run' = r, NEW t \in ToolRows, child' = t,
         coord' \in [Coordinators -> CoordinatorRows],
         verdict' \in {"received", "validating", "failed", "rejected", "publish_pending"},
         GroupExists(t) => r.pc \in Owning,
         coord'["validation"].runner # "ending",
         coord'["validation"].runner = "waiting" => r.pc = "off",
         coord'["validation"].thread = "idle" <=> r.pc = "off"
  PROVE  ShutdownInv'
<1>1. ShutdownTypeOK'
  BY DEF ShutdownInv, Outside, ShutdownTypeOK, CoordinatorRows, RunRows, ToolRows
<1>2. ToolIsOwned'
  BY DEF ToolIsOwned, GroupExists
<1>3. RunnerFits(coord["validation"])'
  BY DEF RunnerFits
<1> QED
  BY <1>1, <1>2, <1>3 DEF ShutdownInv

LEMMA StateTypes ==
  ASSUME ShutdownInv
  PROVE  /\ coord \in [Coordinators -> CoordinatorRows] /\ run \in RunRows /\ child \in ToolRows
         /\ verdict \in {"received", "validating", "failed", "rejected", "publish_pending"}
         /\ "validation" \in Coordinators /\ coord["validation"] \in CoordinatorRows
         /\ UNCHANGED <<loopVars, flag, stopFlag, content, stops>> => Outside
         /\ MaxStops \in Nat
  BY ValidationIsStarted, ShutdownAssumption
     DEF ShutdownInv, ShutdownTypeOK, CoordinatorRows, RunRows, ToolRows, Outside, loopVars

LEMMA NoRunIsRow ==
  NoRun \in RunRows /\ NoRun.pc = "off"
  BY DEF RunRows, NoRun

LEMMA RowOfTool ==
  ASSUME NEW t \in ToolRows
  PROVE  /\ Terminated(t) \in ToolRows /\ (GroupExists(Terminated(t)) => GroupExists(t))
         /\ Killed(t) \in ToolRows /\ ~ GroupExists(Killed(t))
         /\ NoChild \in ToolRows /\ ~ GroupExists(NoChild)
<1>1. ASSUME NEW u \in ToolRows
      PROVE  /\ Terminated(u) \in ToolRows /\ (GroupExists(Terminated(u)) => GroupExists(u))
             /\ ~ u.deaf => ~ GroupExists(Terminated(u))
  BY DEF Terminated, ToolRows, GroupExists
<1>2. [t EXCEPT !.deaf = FALSE] \in ToolRows /\ ~ [t EXCEPT !.deaf = FALSE].deaf
  BY DEF ToolRows
<1>3. NoChild \in ToolRows /\ ~ GroupExists(NoChild)
  BY DEF NoChild, ToolRows, GroupExists
<1> QED
  BY <1>1, <1>2, <1>3 DEF Killed

-----------------------------------------------------------------------------
(* The validator's thread.                                                   *)

\* The thread goes on, with the tool it owns.
LEMMA ThreadStays ==
  ASSUME ShutdownInv, Thread, run.pc # "off", UNCHANGED <<coord, verdict>>,
         NEW r \in RunRows, run' = r, r.pc # "off", NEW t \in ToolRows, child' = t,
         GroupExists(t) => r.pc \in Owning
  PROVE  ShutdownInv'
  BY StateTypes, Composed DEF Thread, ShutdownInv, RunnerFits

\* The thread returns.
LEMMA ThreadReturns ==
  ASSUME ShutdownInv, Thread, run.pc # "off",
         NEW state \in {"validating", "failed", "rejected", "publish_pending"}, Return(state)
  PROVE  ShutdownInv'
<1>1. PICK v \in CoordinatorRows : v = coord["validation"]
  BY StateTypes
<1>2. [v EXCEPT !.thread = "idle"] \in CoordinatorRows
  BY <1>1 DEF CoordinatorRows
<1>3. PICK w \in CoordinatorRows : w = [v EXCEPT !.thread = "idle"]
  BY <1>2
<1>4. w.thread = "idle" /\ w.runner = v.runner
  BY <1>3 DEF CoordinatorRows
<1>5. coord' = [coord EXCEPT !["validation"] = w]
  BY <1>1, <1>3, StateTypes DEF Return
<1>6. coord' \in [Coordinators -> CoordinatorRows] /\ coord'["validation"] = w
  BY <1>5, StateTypes
<1>7. run' = NoRun /\ child' = NoChild /\ verdict' = state
  BY DEF Return
<1>8. v.runner # "ending"
  BY <1>1 DEF ShutdownInv, RunnerFits
<1>9. Outside
  BY StateTypes DEF Thread
<1>10. NoRun \in RunRows /\ NoRun.pc = "off" /\ NoChild \in ToolRows /\ ~ GroupExists(NoChild)
  BY StateTypes, NoRunIsRow, RowOfTool
<1> QED
  BY <1>4, <1>6, <1>7, <1>8, <1>9, <1>10, Composed

LEMMA ToolStepsKeep ==
  ASSUME ShutdownInv, ToolSteps
  PROVE  ShutdownInv'
<1>1. /\ Thread /\ run.pc # "off" /\ run \in RunRows /\ child \in ToolRows
      /\ run.pc \notin Owning => ~ GroupExists(child)
  BY StateTypes DEF ToolSteps, Hash, Spawn, Watch, Poll, Terminate, Kill, FinalizeReaders, Rehash,
     ShutdownInv, ToolIsOwned
<1>2. CASE \E state \in {"validating", "failed", "rejected", "publish_pending"} : Return(state)
  BY <1>1, <1>2, ThreadReturns
<1>3. ASSUME NEW pc \in {"spawning", "rehashing", "polling", "watching"}, ThreadGoes(pc),
             pc \in Owning \/ run.pc \notin Owning
      PROVE  ShutdownInv'
  <2>1. PICK r : r = [run EXCEPT !.pc = pc]
    OBVIOUS
  <2>2. r \in RunRows /\ r.pc = pc
    BY <1>1, <2>1 DEF RunRows
  <2> QED
    BY <1>1, <1>3, <2>1, <2>2, ThreadStays DEF ThreadGoes
<1>4. {"polling", "watching"} \subseteq Owning
  BY DEF Owning
<1>5. ASSUME NEW why \in {"interrupted", "exited", "timeout"}, CleanUp(why)
      PROVE  ShutdownInv'
  <2>1. PICK r : r = [run EXCEPT !.pc = "cleaning", !.why = why]
    OBVIOUS
  <2>2. r \in RunRows /\ r.pc = "cleaning"
    BY <1>1, <2>1 DEF RunRows
  <2> QED
    BY <1>1, <1>5, <2>1, <2>2, ThreadStays DEF CleanUp, Owning
<1>6. CASE run' = [run EXCEPT !.pc = "cleaning", !.why = "overflow", !.over = TRUE]
           /\ UNCHANGED <<child, coord, verdict>>
  <2>1. PICK r : r = [run EXCEPT !.pc = "cleaning", !.why = "overflow", !.over = TRUE]
    OBVIOUS
  <2>2. r \in RunRows /\ r.pc = "cleaning"
    BY <1>1, <2>1 DEF RunRows
  <2> QED
    BY <1>1, <1>6, <2>1, <2>2, ThreadStays DEF Owning
<1>7. CASE /\ \E h, d \in BOOLEAN :
                child' = [leader |-> "alive", code |-> "none", helper |-> h, deaf |-> d]
           /\ run' = [run EXCEPT !.pc = "watching"] /\ UNCHANGED <<coord, verdict>>
  <2>1. child' \in ToolRows
    BY <1>7 DEF ToolRows
  <2>2. PICK r : r = [run EXCEPT !.pc = "watching"]
    OBVIOUS
  <2>3. r \in RunRows /\ r.pc = "watching"
    BY <1>1, <2>2 DEF RunRows
  <2> QED
    BY <1>1, <1>7, <2>1, <2>2, <2>3, ThreadStays DEF Owning
<1>8. CASE Terminate
  <2>1. child' \in ToolRows
    BY <1>1, <1>8, RowOfTool DEF Terminate
  <2>2. PICK r : r = [run EXCEPT !.pc = "killing"]
    OBVIOUS
  <2>3. r \in RunRows /\ r.pc = "killing"
    BY <1>1, <2>2 DEF RunRows
  <2> QED
    BY <1>1, <1>8, <2>1, <2>2, <2>3, ThreadStays DEF Terminate, Owning
<1>9. CASE Kill
  <2>1. child' \in ToolRows /\ ~ GroupExists(child')
    BY <1>1, <1>9, RowOfTool DEF Kill, StillThere
  <2>2. PICK r : r = [run EXCEPT !.pc = "reading"]
    OBVIOUS
  <2>3. r \in RunRows /\ r.pc = "reading"
    BY <1>1, <2>2 DEF RunRows
  <2> QED
    BY <1>1, <1>9, <2>1, <2>2, <2>3, ThreadStays DEF Kill
<1> QED
  BY <1>2, <1>3, <1>4, <1>5, <1>6, <1>7, <1>8, <1>9
     DEF ToolSteps, Hash, Spawn, Watch, Poll, FinalizeReaders, Rehash, Owning

-----------------------------------------------------------------------------
(* Around the thread.                                                        *)

\* The tool changes, and starts no process.
LEMMA ToolChanges ==
  ASSUME ShutdownInv, Outside, UNCHANGED <<run, coord, verdict>>,
         NEW t \in ToolRows, child' = t, GroupExists(t) => GroupExists(child)
  PROVE  ShutdownInv'
  BY StateTypes, Composed DEF ShutdownInv, RunnerFits, ToolIsOwned

\* The row of a coordinator changes, that of the validator without its thread.
LEMMA RunnerMoves ==
  ASSUME ShutdownInv, Outside, UNCHANGED <<run, child, verdict>>,
         NEW r, NEW w \in CoordinatorRows, coord' = [coord EXCEPT ![r] = w],
         r = "validation" =>
            /\ w.thread = coord["validation"].thread /\ w.runner # "ending"
            /\ w.runner = "waiting" => run.pc = "off"
  PROVE  ShutdownInv'
<1>1. coord' \in [Coordinators -> CoordinatorRows]
  BY StateTypes
<1>2. coord'["validation"] = IF r = "validation" THEN w ELSE coord["validation"]
  BY StateTypes
<1> QED
  BY <1>1, <1>2, StateTypes, Composed DEF ShutdownInv, RunnerFits, ToolIsOwned

LEMMA ToolEndsKeeps ==
  ASSUME ShutdownInv, LeaderEnds \/ HelperEnds
  PROVE  ShutdownInv'
<1>1. Outside /\ UNCHANGED <<run, coord, verdict>>
  BY StateTypes DEF LeaderEnds, HelperEnds
<1>2. child' \in ToolRows /\ (GroupExists(child') => GroupExists(child))
  BY StateTypes DEF LeaderEnds, HelperEnds, ToolRows, GroupExists
<1> QED
  BY <1>1, <1>2, ToolChanges

LEMMA WorkKeeps ==
  ASSUME ShutdownInv, NEW r \in Coordinators, Work(r)
  PROVE  ShutdownInv'
<1>1. PICK v \in CoordinatorRows : v = coord[r]
  BY StateTypes
<1>2. PICK w : w = [v EXCEPT !.runner = "working", !.thread = IF HasExecutor(r) THEN "busy" ELSE "idle"]
  OBVIOUS
<1>3. w \in CoordinatorRows /\ w.runner = "working" /\ w.thread = IF HasExecutor(r) THEN "busy" ELSE "idle"
  BY <1>1, <1>2 DEF CoordinatorRows
<1>4. coord' = [coord EXCEPT ![r] = w]
  BY <1>1, <1>2, StateTypes DEF Work
<1>5. Outside /\ UNCHANGED child
  BY StateTypes DEF Work
<1>6. CASE r # "validation"
  BY <1>3, <1>4, <1>5, <1>6, RunnerMoves DEF Work
<1>7. CASE r = "validation"
  <2>1. run.pc = "off"
    BY <1>7 DEF Work, ShutdownInv, RunnerFits
  <2>2. ~ GroupExists(child)
    BY <2>1 DEF ShutdownInv, ToolIsOwned, Owning
  <2>3. coord' \in [Coordinators -> CoordinatorRows] /\ coord'["validation"] = w
    BY <1>3, <1>4, <1>7, StateTypes
  <2>4. run' \in RunRows /\ run'.pc = "hashing" /\ verdict' = "validating"
    <3>1. PICK s : s = [run EXCEPT !.pc = "hashing"]
      OBVIOUS
    <3>2. s \in RunRows /\ s.pc = "hashing"
      BY <3>1, StateTypes DEF RunRows
    <3> QED
      BY <1>7, <3>1, <3>2 DEF Work
  <2> QED
    BY <1>3, <1>5, <1>7, <2>2, <2>3, <2>4, StateTypes, ValidationIsStarted, Composed
<1> QED
  BY <1>6, <1>7

LEMMA RunnersKeep ==
  ASSUME ShutdownInv, NEW r \in Coordinators, FinishWork(r) \/ RunnerResumes(r)
  PROVE  ShutdownInv'
<1>1. PICK v \in CoordinatorRows : v = coord[r]
  BY StateTypes
<1>2. Outside /\ UNCHANGED <<run, child, verdict>>
  BY StateTypes DEF FinishWork, RunnerResumes, toolVars
<1>3. CASE FinishWork(r)
  <2>1. [v EXCEPT !.thread = "idle"] \in CoordinatorRows
    BY <1>1 DEF CoordinatorRows
  <2>2. coord' = [coord EXCEPT ![r] = [v EXCEPT !.thread = "idle"]] /\ r # "validation"
    BY <1>1, <1>3, StateTypes DEF FinishWork
  <2> QED
    BY <1>2, <2>1, <2>2, RunnerMoves
<1>4. CASE RunnerResumes(r)
  <2>1. PICK w : w = [v EXCEPT !.runner = IF v.stopping THEN "done" ELSE "waiting"]
    OBVIOUS
  <2>2. w \in CoordinatorRows /\ w.thread = v.thread /\ w.runner = IF v.stopping THEN "done" ELSE "waiting"
    BY <1>1, <2>1 DEF CoordinatorRows
  <2>3. coord' = [coord EXCEPT ![r] = w]
    BY <1>1, <1>4, <2>1, StateTypes DEF RunnerResumes
  <2>4. r = "validation" /\ w.runner = "waiting" => run.pc = "off"
    BY <1>1, <1>4, <2>2 DEF RunnerResumes, ShutdownInv, RunnerFits
  <2> QED
    BY <1>1, <1>2, <2>2, <2>3, <2>4, RunnerMoves
<1> QED
  BY <1>3, <1>4

\* Nothing but the event loop and its flags changes.
LEMMA LoopKeeps ==
  ASSUME ShutdownInv, Outside, UNCHANGED <<run, child, coord, verdict>>
  PROVE  ShutdownInv'
  BY StateTypes, ToolChanges

LEMMA ServiceKeeps ==
  ASSUME ShutdownInv, Stop \/ KillService \/ ProcessExits \/ Start
  PROVE  ShutdownInv'
<1>1. /\ app \in {"serving", "graceful", "stopping", "disposed", "gone"} /\ next \in 0..Len(Started)
      /\ phase \in {"interrupt", "signal", "stop", "await", "settle"}
      /\ late \in BOOLEAN /\ flag \in BOOLEAN /\ stopFlag \in BOOLEAN /\ stops \in 0..MaxStops
      /\ Len(Started) \in Nat /\ MaxStops \in Nat
  BY ValidationIsStarted, ShutdownAssumption DEF ShutdownInv, ShutdownTypeOK
<1>2. Asleep \in CoordinatorRows /\ Asleep.runner # "ending" /\ Asleep.thread = "idle"
  BY DEF Asleep, CoordinatorRows
<1>3. CASE Stop
  <2>1. Outside
    BY <1>1, <1>3 DEF Stop, Outside
  <2> QED
    BY <1>3, <2>1, StateTypes, RowOfTool, ToolChanges DEF Stop
<1>4. CASE KillService \/ ProcessExits
  <2>1. Outside
    BY <1>1, <1>4 DEF KillService, ProcessExits, Outside
  <2>2. coord' \in [Coordinators -> CoordinatorRows] /\ coord'["validation"] = Asleep
    BY <1>2, <1>4, StateTypes DEF KillService, ProcessExits
  <2>3. run' \in RunRows /\ run'.pc = "off" /\ child' \in ToolRows /\ ~ GroupExists(child')
    <3>1. CASE KillService
      BY <3>1, StateTypes, NoRunIsRow, RowOfTool DEF KillService
    <3>2. CASE ProcessExits
      <4>1. coord["validation"].thread = "idle"
        BY <3>2, StateTypes DEF ProcessExits
      <4>2. run.pc = "off" /\ ~ GroupExists(child)
        BY <4>1 DEF ShutdownInv, RunnerFits, ToolIsOwned, Owning
      <4> QED
        BY <3>2, <4>2, StateTypes DEF ProcessExits, toolVars, GroupExists
    <3> QED
      BY <1>4, <3>1, <3>2
  <2>4. verdict' = verdict
    BY <1>4 DEF KillService, ProcessExits
  <2> QED
    BY <1>2, <2>1, <2>2, <2>3, <2>4, StateTypes, Composed
<1>5. CASE Start
  <2>1. late' \in BOOLEAN /\ flag' \in BOOLEAN /\ stopFlag' \in BOOLEAN
    BY <1>5, Zenon DEF Start
  <2>2. next' \in 0..Len(Started)
    BY <1>1, <1>5 DEF Start
  <2>3. Outside
    BY <1>1, <1>5, <2>1, <2>2 DEF Start, Outside
  <2> QED
    BY <1>5, <2>3, LoopKeeps DEF Start, toolVars
<1> QED
  BY <1>3, <1>4, <1>5

LEMMA EndingKeeps ==
  ASSUME ShutdownInv, Ending \/ DeadlinePasses
  PROVE  ShutdownInv'
<1>1. /\ app \in {"serving", "graceful", "stopping", "disposed", "gone"} /\ next \in 0..Len(Started)
      /\ phase \in {"interrupt", "signal", "stop", "await", "settle"}
      /\ late \in BOOLEAN /\ flag \in BOOLEAN /\ stopFlag \in BOOLEAN /\ stops \in 0..MaxStops
      /\ Len(Started) \in Nat /\ MaxStops \in Nat
  BY ValidationIsStarted, ShutdownAssumption DEF ShutdownInv, ShutdownTypeOK
<1>2. CASE BeginShutdown \/ RequestStop \/ Settle \/ Dispose \/ DeadlinePasses
  <2>1. late' \in BOOLEAN /\ flag' \in BOOLEAN /\ stopFlag' \in BOOLEAN
    BY <1>1, <1>2, Zenon DEF BeginShutdown, RequestStop, Settle, Dispose, DeadlinePasses, Only
  <2>2. next' \in 0..Len(Started)
    BY <1>1, <1>2 DEF BeginShutdown, RequestStop, Settle, Dispose, DeadlinePasses, Only
  <2>3. Outside
    BY <1>1, <1>2, <2>1, <2>2
       DEF BeginShutdown, RequestStop, Settle, Dispose, DeadlinePasses, Only, Outside
  <2> QED
    BY <1>2, <2>3, LoopKeeps
       DEF BeginShutdown, RequestStop, Settle, Dispose, DeadlinePasses, toolVars
<1>3. CASE Signal
  <2>1. Outside
    BY <1>1, <1>3 DEF Signal, Only, Outside
  <2> QED
    BY <1>3, <2>1, StateTypes, RowOfTool, ToolChanges DEF Signal
<1>4. CASE Interrupt
  <2>1. Outside /\ UNCHANGED <<run, child, verdict>>
    BY <1>1, <1>4 DEF Interrupt, Only, Outside, toolVars
  <2>2. PICK c : c = Current
    OBVIOUS
  <2>3. CASE c \notin Coordinators
    <3>1. coord' = coord
      BY <1>4, <2>2, <2>3, StateTypes DEF Interrupt
    <3> QED
      BY <2>1, <3>1, LoopKeeps
  <2>4. CASE c \in Coordinators
    <3>1. PICK v \in CoordinatorRows : v = coord[c]
      BY <2>4, StateTypes
    <3>2. PICK w : w = [v EXCEPT !.stopping = TRUE,
                                 !.runner = IF c = "youtube" /\ v.runner \in {"waiting", "working"}
                                            THEN "ending" ELSE v.runner]
      OBVIOUS
    <3>3. /\ w \in CoordinatorRows /\ w.thread = v.thread
          /\ c # "youtube" => w.runner = v.runner
      BY <3>1, <3>2 DEF CoordinatorRows
    <3>4. coord' = [coord EXCEPT ![c] = w]
      BY <1>4, <2>2, <2>4, <3>1, <3>2, StateTypes DEF Interrupt
    <3>5. c = "validation" => w.runner # "ending" /\ (w.runner = "waiting" => run.pc = "off")
      BY <3>1, <3>3 DEF ShutdownInv, RunnerFits
    <3> QED
      BY <2>1, <3>1, <3>3, <3>4, <3>5, RunnerMoves
  <2> QED
    BY <2>3, <2>4
<1>5. CASE Await
  <2>1. Outside /\ UNCHANGED <<run, child, verdict>>
    BY <1>1, <1>5 DEF Await, Only, Outside, toolVars
  <2>2. PICK c : c = Current
    OBVIOUS
  <2>3. CASE UNCHANGED coord
    BY <2>1, <2>3, LoopKeeps
  <2>4. CASE coord' = [coord EXCEPT ![c].runner = "done"]
    <3>1. CASE c \notin Coordinators
      <4>1. coord' = coord
        BY <2>4, <3>1, StateTypes
      <4> QED
        BY <2>1, <4>1, LoopKeeps
    <3>2. CASE c \in Coordinators
      <4>1. PICK v \in CoordinatorRows : v = coord[c]
        BY <3>2, StateTypes
      <4>2. PICK w : w = [v EXCEPT !.runner = "done"]
        OBVIOUS
      <4>3. w \in CoordinatorRows /\ w.thread = v.thread /\ w.runner = "done"
        BY <4>1, <4>2 DEF CoordinatorRows
      <4>4. coord' = [coord EXCEPT ![c] = w]
        BY <2>4, <4>1, <4>2, StateTypes
      <4> QED
        BY <2>1, <4>1, <4>3, <4>4, RunnerMoves
    <3> QED
      BY <3>1, <3>2
  <2> QED
    BY <1>5, <2>2, <2>3, <2>4 DEF Await
<1> QED
  BY <1>2, <1>3, <1>4, <1>5 DEF Ending

LEMMA ShutdownNextKeeps ==
  ASSUME ShutdownInv, [ShutdownNext]_shutdownVars
  PROVE  ShutdownInv'
<1>1. CASE UNCHANGED shutdownVars
  <2>1. Outside
    BY <1>1, StateTypes DEF shutdownVars, loopVars
  <2> QED
    BY <1>1, <2>1, LoopKeeps DEF shutdownVars
<1>2. CASE ShutdownNext
  BY <1>2, EndingKeeps, ToolStepsKeep, ToolEndsKeeps, ServiceKeeps, WorkKeeps, RunnersKeep
     DEF ShutdownNext
<1> QED
  BY <1>1, <1>2

LEMMA ShutdownInitKeeps == ShutdownInit => ShutdownInv
<1> SUFFICES ASSUME ShutdownInit PROVE ShutdownInv
  OBVIOUS
<1>1. /\ Asleep \in CoordinatorRows /\ Asleep.runner = "waiting" /\ Asleep.thread = "idle"
      /\ NoRun \in RunRows /\ NoRun.pc = "off" /\ NoChild \in ToolRows /\ ~ GroupExists(NoChild)
  BY DEF Asleep, NoRun, NoChild, CoordinatorRows, RunRows, ToolRows, GroupExists
<1>2. coord \in [Coordinators -> CoordinatorRows] /\ coord["validation"] = Asleep
  BY <1>1, ValidationIsStarted DEF ShutdownInit
<1>3. ShutdownTypeOK
  <2>1. run \in RunRows /\ child \in ToolRows
    BY <1>1 DEF ShutdownInit
  <2>2. next \in 0..Len(Started) /\ stops \in 0..MaxStops
    BY ValidationIsStarted, ShutdownAssumption DEF ShutdownInit
  <2> QED
    BY <1>2, <2>1, <2>2 DEF ShutdownInit, ShutdownTypeOK, CoordinatorRows, RunRows, ToolRows
<1> QED
  BY <1>1, <1>2, <1>3 DEF ShutdownInit, ShutdownInv, ToolIsOwned, RunnerFits, GroupExists

\* The inductive invariant of the shutdown: processes of a tool are there only
\* while a run owns them (media_analysis/process.py), and the validator's runner
\* waits only when its thread is back (in_process_lifecycle.py).
THEOREM ShutdownInvariant == ShutdownSpec => []ShutdownInv
<1>1. ShutdownInv /\ [ShutdownNext]_shutdownVars => ShutdownInv'
  BY ShutdownNextKeeps
<1> QED
  BY <1>1, ShutdownInitKeeps, PTL DEF ShutdownSpec

\* When run() of SubprocessRunner has returned nothing of the tool's process group
\* is left, whatever ended the run and however often the service is stopped,
\* killed and started.
THEOREM ShutdownRunLeavesNothing == ShutdownSpec => []RunLeavesNothing
<1>1. ShutdownInv => RunLeavesNothing
  BY DEF ShutdownInv, ToolIsOwned, Owning, RunLeavesNothing
<1> QED
  BY <1>1, ShutdownInvariant, PTL

=================================================================================
