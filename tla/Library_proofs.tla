------------------------------ MODULE Library_proofs ------------------------------
(******************************************************************************)
(* Proofs about what the library shows and what it removes: the records of a  *)
(* medium, for any number of texts, tags, values, edits, runs and versions,   *)
(* and the removal of media with their covers and previews, for any number of *)
(* media, locations, files, authors and administrators.                       *)
(******************************************************************************)
EXTENDS MediaRecords, CatalogRemoval, WellFoundedInduction, TLAPS

-----------------------------------------------------------------------------
(* Induction over the naturals, for a set: the provers cannot instantiate the *)
(* operator of NatInduction, and find the least number of a set instead.      *)

LEMMA LeastNumber ==
  ASSUME NEW T \in SUBSET Nat, T # {}
  PROVE  \E n \in T : \A m \in T : n <= m
<1> DEFINE R == OpToRel(<, Nat)
<1>1. IsWellFoundedOn(R, Nat)
  BY NatLessThanWellFounded
<1>2. \E n \in T : \A m \in T : ~ (<<m, n>> \in R)
  BY <1>1, WFMin
<1>3. ASSUME NEW n \in T, NEW m \in T, ~ (<<m, n>> \in R)
      PROVE  n <= m
  BY <1>3 DEF OpToRel
<1> QED
  BY <1>2, <1>3

LEMMA SetInduction ==
  ASSUME NEW N \in Nat, NEW T, 0 \in T,
         \A k \in 0..N : k + 1 \in 0..N /\ k \in T => k + 1 \in T
  PROVE  0..N \subseteq T
<1> DEFINE Missing == {k \in 0..N : k \notin T}
<1>1. Missing \in SUBSET Nat
  OBVIOUS
<1>2. ASSUME Missing # {}
      PROVE  FALSE
  <2>1. PICK n \in Missing : \A m \in Missing : n <= m
    BY <1>1, <1>2, LeastNumber
  <2>2. n # 0 /\ n \in 0..N /\ n \notin T
    BY <2>1
  <2>3. n - 1 \in 0..N /\ (n - 1) + 1 = n
    BY <2>2
  <2>4. n - 1 \in T
    BY <2>1, <2>2, <2>3
  <2> QED
    BY <2>2, <2>3, <2>4
<1> QED
  BY <1>2

-----------------------------------------------------------------------------
(* The tags after a review (_preserve_append_tag_keys).                       *)

LEMMA AppendedTyped ==
  ASSUME NEW s \in Seq(Tags), NEW t \in Tags
  PROVE  /\ Append(s, t) \in Seq(Tags)
         /\ \A u : Contains(Append(s, t), u) <=> Contains(s, u) \/ u = t
         /\ IsInjective(s) /\ ~Contains(s, t) => IsInjective(Append(s, t))
<1> DEFINE l == Append(s, t)
<1>1. /\ l \in Seq(Tags) /\ Len(l) = Len(s) + 1 /\ l[Len(s) + 1] = t
      /\ \A i \in 1..Len(s) : l[i] = s[i]
  OBVIOUS
<1>2. Len(s) \in Nat /\ DOMAIN s = 1..Len(s) /\ DOMAIN l = 1..Len(l)
  BY <1>1
<1> HIDE DEF l
<1>3. \A u : Contains(l, u) <=> Contains(s, u) \/ u = t
  BY <1>1, <1>2 DEF Contains
<1>4. IsInjective(s) /\ ~Contains(s, t) => IsInjective(l)
  BY <1>1, <1>2 DEF Contains, IsInjective
<1> QED
  BY <1>1, <1>3, <1>4 DEF l

(* The tags after the first i of those chosen.                                *)
Step(current, chosen, f, i) ==
    IF i = 0 THEN current
    ELSE IF Contains(current, chosen[i]) THEN f[i - 1] ELSE Append(f[i - 1], chosen[i])

LEMMA StepsExist ==
  ASSUME NEW current \in Seq(Tags), NEW chosen \in Seq(Tags)
  PROVE  \E f \in [0..Len(chosen) -> Seq(Tags)] :
            f = [i \in 0..Len(chosen) |-> Step(current, chosen, f, i)]
<1> DEFINE n == Len(chosen)
           T == {k \in 0..n : \E f \in [0..k -> Seq(Tags)] :
                                 \A i \in 0..k : f[i] = Step(current, chosen, f, i)}
<1>1. n \in Nat /\ \A i \in 1..n : chosen[i] \in Tags
  OBVIOUS
<1> HIDE DEF n
<1>2. 0 \in T
  <2> DEFINE f == [i \in 0..0 |-> current]
  <2>1. f \in [0..0 -> Seq(Tags)] /\ \A i \in 0..0 : f[i] = Step(current, chosen, f, i)
    BY DEF Step
  <2> QED
    BY <1>1, <2>1
<1>3. ASSUME NEW k \in 0..n, k + 1 \in 0..n, k \in T
      PROVE  k + 1 \in T
  <2>1. PICK g \in [0..k -> Seq(Tags)] : \A i \in 0..k : g[i] = Step(current, chosen, g, i)
    BY <1>3
  <2> DEFINE next == IF Contains(current, chosen[k + 1]) THEN g[k] ELSE Append(g[k], chosen[k + 1])
             f == [i \in 0..(k + 1) |-> IF i = k + 1 THEN next ELSE g[i]]
  <2>2. next \in Seq(Tags)
    BY <1>1, <1>3, <2>1, AppendedTyped
  <2> HIDE DEF next
  <2>3. f \in [0..(k + 1) -> Seq(Tags)]
    BY <2>1, <2>2, <1>1
  <2>4. ASSUME NEW i \in 0..(k + 1)
        PROVE  f[i] = Step(current, chosen, f, i)
    <3>1. CASE i = k + 1
      BY <3>1, <1>1, <1>3 DEF Step, next
    <3>2. CASE i # k + 1
      <4>1. i \in 0..k /\ (i # 0 => i - 1 \in 0..k)
        BY <3>2, <1>1, <1>3
      <4>2. f[i] = g[i] /\ (i # 0 => f[i - 1] = g[i - 1])
        BY <4>1, <1>1, <1>3
      <4> QED
        BY <4>1, <4>2, <2>1 DEF Step
    <3> QED
      BY <3>1, <3>2
  <2> QED
    BY <2>3, <2>4, <1>3
<1>4. n \in T
  <2> HIDE DEF T
  <2>1. \A k \in 0..n : k + 1 \in 0..n /\ k \in T => k + 1 \in T
    BY <1>3
  <2>2. 0..n \subseteq T
    BY <1>1, <1>2, <2>1, SetInduction
  <2> QED
    BY <1>1, <2>2
<1>5. PICK f \in [0..n -> Seq(Tags)] : \A i \in 0..n : f[i] = Step(current, chosen, f, i)
  BY <1>4
<1> DEFINE g == [i \in 0..n |-> Step(current, chosen, f, i)]
<1>6. \A i \in 0..n : f[i] = g[i]
  BY <1>5
<1>7. DOMAIN g = 0..n /\ g = [i \in 0..n |-> g[i]]
  OBVIOUS
<1>8. f = [i \in 0..n |-> f[i]]
  BY <1>5
<1>9. f = g
  <2> HIDE DEF g
  <2> QED
    BY <1>6, <1>7, <1>8
<1> QED
  BY <1>5, <1>9 DEF n

(* What a review leaves: the tags there were and those chosen, none twice.    *)
LEMMA AppendedTags ==
  ASSUME NEW current \in Seq(Tags), NEW chosen \in Seq(Tags)
  PROVE  LET new == PreserveAppend(current, chosen)
         IN  /\ new \in Seq(Tags)
             /\ \A u : Contains(new, u) <=> Contains(current, u) \/ Contains(chosen, u)
             /\ IsInjective(current) /\ IsInjective(chosen) => IsInjective(new)
<1> DEFINE n == Len(chosen)
           after[i \in 0..Len(chosen)] ==
             IF i = 0 THEN current
             ELSE IF Contains(current, chosen[i]) THEN after[i - 1]
                  ELSE Append(after[i - 1], chosen[i])
<1>1. PreserveAppend(current, chosen) = after[Len(chosen)]
  BY Zenon DEF PreserveAppend
<1>2. PICK f \in [0..n -> Seq(Tags)] : f = [i \in 0..n |-> Step(current, chosen, f, i)]
  BY StepsExist
<1>3. after = [i \in 0..n |-> Step(current, chosen, after, i)]
  BY <1>2, Zenon DEF Step
<1>4. n \in Nat /\ \A i \in 1..n : chosen[i] \in Tags
  OBVIOUS
<1>5. \A i \in 0..n : after[i] = Step(current, chosen, after, i)
  BY <1>3, Zenon
<1> HIDE DEF after
<1> DEFINE Among(i, u) == Contains(current, u) \/ \E j \in 1..i : chosen[j] = u
           Good(i) == /\ after[i] \in Seq(Tags)
                      /\ \A u : Contains(after[i], u) <=> Among(i, u)
                      /\ IsInjective(current) /\ IsInjective(chosen) => IsInjective(after[i])
           T == {i \in 0..n : Good(i)}
<1>6. 0 \in T
  BY <1>4, <1>5 DEF Step
<1>7. ASSUME NEW i \in 0..n, i + 1 \in 0..n, Good(i)
      PROVE  Good(i + 1)
  <2>1. i + 1 \in 1..n /\ chosen[i + 1] \in Tags /\ i + 1 # 0 /\ (i + 1) - 1 = i
    <3> HIDE DEF n, Good
    <3>1. i + 1 \in 1..n /\ i + 1 # 0 /\ (i + 1) - 1 = i
      BY <1>4, <1>7
    <3> QED
      BY <1>4, <3>1
  <2>2. \A u : Among(i + 1, u) <=> Among(i, u) \/ chosen[i + 1] = u
    <3>1. i \in Nat
      BY <1>4
    <3>2. \A j : j \in 1..(i + 1) <=> j \in 1..i \/ j = i + 1
      BY <3>1
    <3> QED
      BY <3>2
  <2>3. CASE Contains(current, chosen[i + 1])
    <3>1. after[i + 1] = after[i]
      BY <1>5, <1>7, <2>1, <2>3 DEF Step
    <3>2. \A u : Among(i + 1, u) <=> Among(i, u)
      BY <2>2, <2>3
    <3> QED
      BY <1>7, <3>1, <3>2
  <2>4. CASE ~Contains(current, chosen[i + 1])
    <3>1. after[i + 1] = Append(after[i], chosen[i + 1])
      BY <1>5, <1>7, <2>1, <2>4 DEF Step
    <3>2. after[i + 1] \in Seq(Tags) /\ \A u : Contains(after[i + 1], u) <=> Among(i + 1, u)
      BY <1>7, <2>1, <2>2, <3>1, AppendedTyped, SMTT(40)
    <3>3. ASSUME IsInjective(current), IsInjective(chosen)
          PROVE  IsInjective(after[i + 1])
      <4>1. \A j \in 1..i : chosen[j] # chosen[i + 1]
        <5>1. DOMAIN chosen = 1..n
          OBVIOUS
        <5>2. \A j \in 1..i : j \in 1..n /\ j # i + 1
          BY <1>4, <1>7
        <5> QED
          BY <2>1, <3>3, <5>1, <5>2 DEF IsInjective
      <4>2. ~Contains(after[i], chosen[i + 1])
        BY <1>7, <2>4, <4>1
      <4> QED
        BY <1>7, <2>1, <3>1, <3>3, <4>2, AppendedTyped
    <3> HIDE DEF Among
    <3> QED
      BY <3>2, <3>3
  <2> QED
    BY <2>3, <2>4
<1>8. n \in T
  <2>1. \A i \in 0..n : i + 1 \in 0..n /\ i \in T => i + 1 \in T
    <3> HIDE DEF Good
    <3> QED
      BY <1>7
  <2> HIDE DEF T
  <2>2. n \in Nat /\ 0 \in T
    BY <1>4, <1>6
  <2> HIDE DEF n
  <2>3. 0..n \subseteq T
    BY <2>1, <2>2, SetInduction
  <2> QED
    BY <2>2, <2>3
<1>9. \A u : Among(n, u) <=> Contains(current, u) \/ Contains(chosen, u)
  BY DEF Contains
<1> QED
  <2>1. Good(n)
    BY <1>8
  <2> HIDE DEF Among
  <2> QED
    BY <1>1, <1>9, <2>1

LEMMA ContainsIsIn ==
  ASSUME NEW s \in Seq(Tags), NEW t
  PROVE  Contains(s, t) <=> t \in ToSet(s)
<1>1. DOMAIN s = 1..Len(s)
  OBVIOUS
<1> QED
  BY <1>1 DEF Contains, ToSet

LEMMA TagListsAre ==
  ASSUME NEW s
  PROVE  s \in TagLists <=> s \in Seq(Tags) /\ Len(s) <= MaxTags /\ IsInjective(s)
<1>1. MaxTags \in Nat
  BY RecordsAssumption
<1>2. s \in SeqOf(Tags, MaxTags) <=> s \in Seq(Tags) /\ Len(s) <= MaxTags
  <2>1. ASSUME NEW m \in 0..MaxTags, s \in [1..m -> Tags]
        PROVE  s \in Seq(Tags) /\ Len(s) <= MaxTags
    <3>1. m \in Nat /\ m <= MaxTags
      BY <1>1, SMTT(60)
    <3> QED
      BY <2>1, <3>1
  <2>2. ASSUME s \in Seq(Tags), Len(s) <= MaxTags
        PROVE  \E m \in 0..MaxTags : s \in [1..m -> Tags]
    <3>1. Len(s) \in 0..MaxTags /\ s \in [1..Len(s) -> Tags]
      BY <1>1, <2>2
    <3> QED
      BY <3>1
  <2> QED
    BY <2>1, <2>2 DEF SeqOf
<1> QED
  BY <1>2 DEF TagLists

LEMMA RecordIsSome ==
  /\ \A r \in Records : r # None
  /\ \A p \in Projections : p # None
  /\ \A s \in [version : Nat, held : Contents] : s # None
  /\ \A l \in Looks : l # None
  /\ \A f : \A s \in [run : Runs, digest : IF f = "tags" THEN TagLists ELSE Values] : s # None
BY DEF Records, Projections, Looks, None

LEMMA ValuesTyped == Runs \subseteq Values /\ Blank \in Values /\ 0 \in Values /\ 0 \notin Runs
BY RecordsAssumption DEF Runs, Values, Blank

-----------------------------------------------------------------------------
(* The inductive invariant.                                                   *)

(* The rows for the lists are the snapshot the pages give; what the family    *)
(* sees has a result.                                                         *)
RecordFits ==
    Bound => /\ record.rows = record.approved
             /\ record.family => record.completed /\ record.approved # None

(* While the version is the one of the panel, the medium is as it was when    *)
(* the panel was given it, and as its page has shown it since.                *)
ScreenFits ==
    /\ screen # None =>
          /\ Bound /\ screen.version <= record.version
          /\ record.version = screen.version =>
                Content = screen.held /\ (looked # None => looked = Visible)
    /\ screen = None => looked = None

(* The candidate is what the medium was at the version that the request named *)
(* and the panel had; the panel may have a later one by now.                  *)
CandidateFits ==
    candidate # None =>
        /\ screen # None /\ candidate.version <= screen.version
        /\ candidate.version = screen.version => candidate.content = screen.held

(* The digest of a receipt is that of the text its run suggested.             *)
ReceiptsFit == \A f \in Texts : receipt[f] # None => receipt[f].digest = receipt[f].run

(* Only a tag that is there has a source, the one that put it there.          *)
SourcesFit ==
    \A t \in Tags : tagSource[t] # 0 => /\ Contains(meta.tags, t)
                                        /\ appended[t] = tagSource[t]

IInv ==
    /\ TypeOK /\ RecordFits /\ ScreenFits /\ CandidateFits
    /\ ReceiptsFit /\ SourcesFit

LEMMA InitIInv == Init => IInv
<1> SUFFICES ASSUME Init PROVE IInv
  OBVIOUS
<1>1. <<>> \in TagLists
  <2>1. <<>> \in Seq(Tags) /\ Len(<<>>) = 0
    OBVIOUS
  <2>2. IsInjective(<<>>)
    BY DEF IsInjective
  <2>3. Len(<<>>) <= MaxTags
    BY <2>1, RecordsAssumption
  <2> QED
    BY <2>1, <2>2, <2>3, TagListsAre
<1>2. TypeOK
  <2>1. meta \in [persisted : BOOLEAN, text : [Texts -> Values], tags : TagLists]
    BY <1>1, ValuesTyped DEF Init
  <2>2. \A f \in Fields : receipt[f] \in Receipts(f)
    BY DEF Init, Receipts
  <2>3. record = None /\ screen = None /\ looked = None /\ candidate = None
    BY DEF Init
  <2>4. tagSource \in [Tags -> Values] /\ appended \in [Tags -> Values] /\ opened \in [Openers -> Values]
    BY ValuesTyped DEF Init
  <2> QED
    BY <2>1, <2>2, <2>3, <2>4 DEF Init, TypeOK
<1>3. /\ record = None /\ screen = None /\ looked = None /\ candidate = None
      /\ \A f \in Fields : receipt[f] = None
      /\ \A t \in Tags : tagSource[t] = 0
  BY DEF Init
<1> QED
  BY <1>2, <1>3 DEF IInv, RecordFits, ScreenFits, CandidateFits, ReceiptsFit, SourcesFit, Bound, Fields

-----------------------------------------------------------------------------
(* What the actions share.                                                    *)

LEMMA ContentTyped ==
  ASSUME TypeOK
  PROVE  Content \in Contents /\ (Bound => record \in Records /\ Projection \in Projections)
<1>1. Bound => record \in Records
  BY DEF TypeOK, Bound
<1>2. Content \in Contents
  <2>1. (IF Bound THEN record.run ELSE 0) \in Values
    BY <1>1, ValuesTyped DEF Records
  <2> QED
    BY <2>1 DEF TypeOK, Content, Contents
<1>3. Bound => Projection \in Projections
  BY <1>1, <1>2 DEF TypeOK, Projection, Projections, Records
<1> QED
  BY <1>1, <1>2, <1>3

(* A version that moves leaves the screen behind.                             *)
LEMMA VersionMoves ==
  ASSUME IInv, Bound, NEW new \in Records, new.version = record.version,
         new.rows = new.approved, new.family => new.completed /\ new.approved # None,
         record' = Changed(new), UNCHANGED <<screen, looked>>
  PROVE  /\ record' \in Records \cup {None}
         /\ RecordFits' /\ ScreenFits'
<1>1. /\ record' \in Records /\ record'.version = record.version + 1
      /\ record'.rows = record'.approved
      /\ record'.family => record'.completed /\ record'.approved # None
  BY DEF Changed, Records
<1>2. record \in Records /\ record.version \in Nat
  BY DEF IInv, TypeOK, Bound, Records
<1>3. Bound'
  BY <1>1, RecordIsSome DEF Bound
<1>4. RecordFits'
  BY <1>1 DEF RecordFits
<1>5. ASSUME screen # None
      PROVE  screen.version <= record'.version /\ screen.version # record'.version
  <2>1. screen.version \in Nat
    BY <1>5 DEF IInv, TypeOK
  <2>2. screen.version <= record.version
    BY <1>5 DEF IInv, ScreenFits
  <2> QED
    BY <1>1, <1>2, <2>1, <2>2
<1>6. ScreenFits'
  <2>1. screen = None => looked = None
    BY DEF IInv, ScreenFits
  <2> QED
    BY <1>3, <1>5, <2>1 DEF ScreenFits
<1> QED
  BY <1>1, <1>4, <1>6

LEMMA Bumped ==
  ASSUME IInv, Bump, UNCHANGED <<screen, looked, candidate>>
  PROVE  /\ record' \in Records \cup {None}
         /\ RecordFits' /\ ScreenFits' /\ CandidateFits'
<1>1. CASE Bound
  <2>1. /\ record \in Records /\ record.rows = record.approved
        /\ record.family => record.completed /\ record.approved # None
    BY <1>1 DEF IInv, TypeOK, Bound, RecordFits
  <2>2. PICK new \in Records : new = record
    BY <2>1
  <2>3. record' = Changed(new)
    BY <1>1, <2>2 DEF Bump
  <2>4. CandidateFits'
    BY DEF IInv, CandidateFits
  <2> QED
    BY <1>1, <2>1, <2>2, <2>3, <2>4, VersionMoves
<1>2. CASE ~Bound
  <2>1. record = None /\ screen = None
    BY <1>2 DEF IInv, ScreenFits, Bound
  <2>2. record' = None
    BY <1>2, <2>1 DEF Bump
  <2> QED
    BY <2>1, <2>2 DEF IInv, RecordFits, ScreenFits, CandidateFits, Bound
<1> QED
  BY <1>1, <1>2

LEMMA RecordRests ==
  ASSUME IInv, UNCHANGED <<record, meta, cover, screen, looked, candidate>>
  PROVE  /\ record' \in Records \cup {None}
         /\ RecordFits' /\ ScreenFits' /\ CandidateFits'
BY DEF IInv, TypeOK, RecordFits, ScreenFits, CandidateFits, Bound, Content, Visible

-----------------------------------------------------------------------------
(* The steps that edit the medium.                                            *)

LEMMA SaveIInv ==
  ASSUME IInv, NEW text \in [Texts -> Values], NEW tags \in TagLists, Save(text, tags)
  PROVE  IInv'
<1>1. PICK new \in [persisted : BOOLEAN, text : [Texts -> Values], tags : TagLists] :
        new = [persisted |-> TRUE, text |-> text, tags |-> tags]
  OBVIOUS
<1>2. /\ meta' = new
      /\ receipt' = [f \in Fields |-> KeptIfCurrent(f, new)]
      /\ tagSource' = [t \in Tags |-> KeptIfPresent(t, tags)]
      /\ appended' = [t \in Tags |-> IF Contains(meta.tags, t) /\ Contains(tags, t)
                                     THEN appended[t] ELSE 0]
      /\ Bump /\ UNCHANGED <<cover, located, published, done, opened, screen, looked, candidate>>
  BY <1>1 DEF Save
<1>3. /\ record' \in Records \cup {None}
      /\ RecordFits' /\ ScreenFits' /\ CandidateFits'
  BY <1>2, Bumped
<1>4. \A f \in Fields : receipt'[f] = receipt[f] \/ receipt'[f] = None
  BY <1>2 DEF KeptIfCurrent
<1>5. \A t \in Tags : /\ tagSource'[t] = (IF Contains(tags, t) THEN tagSource[t] ELSE 0)
                      /\ appended'[t] = (IF Contains(meta.tags, t) /\ Contains(tags, t)
                                         THEN appended[t] ELSE 0)
  BY <1>2 DEF KeptIfPresent
<1>6. TypeOK'
  <2>1. \A f \in Fields : receipt'[f] \in Receipts(f)
    BY <1>4 DEF IInv, TypeOK, Receipts
  <2>2. tagSource' \in [Tags -> Values] /\ appended' \in [Tags -> Values]
    BY <1>2, ValuesTyped DEF IInv, TypeOK, KeptIfPresent
  <2> QED
    BY <1>2, <1>3, <2>1, <2>2 DEF IInv, TypeOK, Receipts
<1>7. ReceiptsFit'
  BY <1>4 DEF IInv, ReceiptsFit, Fields
<1>8. SourcesFit'
  BY <1>1, <1>2, <1>5 DEF IInv, SourcesFit
<1> QED
  BY <1>3, <1>6, <1>7, <1>8 DEF IInv

LEMMA AcceptCoverIInv ==
  ASSUME IInv, NEW d \in Covers, AcceptCover(d)
  PROVE  IInv'
<1>1. /\ record' \in Records \cup {None}
      /\ RecordFits' /\ ScreenFits' /\ CandidateFits'
  BY Bumped DEF AcceptCover
<1>2. TypeOK'
  BY <1>1 DEF AcceptCover, IInv, TypeOK, Receipts
<1> QED
  BY <1>1, <1>2 DEF AcceptCover, IInv, ReceiptsFit, SourcesFit

LEMMA FinishAnalysisIInv ==
  ASSUME IInv, NEW r \in Runs, FinishAnalysis(r)
  PROVE  IInv'
<1>1. /\ record' \in Records \cup {None}
      /\ RecordFits' /\ ScreenFits' /\ CandidateFits'
  <2>1. CASE Bound
    <3>1. /\ record \in Records /\ record.rows = record.approved
          /\ record.family => record.completed /\ record.approved # None
      BY <2>1 DEF IInv, TypeOK, Bound, RecordFits
    <3>2. PICK new : new = [record EXCEPT !.run = r, !.completed = TRUE]
      OBVIOUS
    <3>3. /\ new \in Records /\ new.version = record.version /\ new.rows = new.approved
          /\ new.family => new.completed /\ new.approved # None
      BY <3>1, <3>2, ValuesTyped DEF Records
    <3>4. record' = Changed(new)
      BY <2>1, <3>2 DEF FinishAnalysis
    <3>5. CandidateFits'
      BY DEF FinishAnalysis, IInv, CandidateFits
    <3> QED
      BY <2>1, <3>3, <3>4, <3>5, VersionMoves DEF FinishAnalysis
  <2>2. CASE ~Bound
    <3>1. record = None /\ screen = None
      BY <2>2 DEF IInv, ScreenFits, Bound
    <3>2. record' = None
      BY <2>2, <3>1 DEF FinishAnalysis
    <3> QED
      BY <3>1, <3>2 DEF FinishAnalysis, IInv, RecordFits, ScreenFits, CandidateFits, Bound
  <2> QED
    BY <2>1, <2>2
<1>2. TypeOK'
  BY <1>1 DEF FinishAnalysis, IInv, TypeOK, Receipts
<1> QED
  BY <1>1, <1>2 DEF FinishAnalysis, IInv, ReceiptsFit, SourcesFit

LEMMA ApplyReviewIInv ==
  ASSUME IInv, NEW r \in Runs, NEW fields \in SUBSET Fields, NEW chosen \in TagLists,
         ApplyReview(r, fields, chosen)
  PROVE  IInv'
<1>1. meta.tags \in TagLists /\ meta.text \in [Texts -> Values]
  BY DEF IInv, TypeOK
<1>2. /\ meta.tags \in Seq(Tags) /\ IsInjective(meta.tags)
      /\ chosen \in Seq(Tags) /\ IsInjective(chosen)
  BY <1>1, TagListsAre
<1>3. PICK present \in TagLists : present = meta.tags
  BY <1>1
<1>4. PICK tags : tags = PreserveAppend(present, chosen)
  OBVIOUS
<1>5. /\ tags \in Seq(Tags) /\ IsInjective(tags)
      /\ \A u : Contains(tags, u) <=> Contains(present, u) \/ Contains(chosen, u)
  BY <1>2, <1>3, <1>4, AppendedTags
<1>6. PICK text : text = [f \in Texts |-> IF f \in fields THEN r ELSE meta.text[f]]
  OBVIOUS
<1>7. PICK new : new = [meta EXCEPT !.persisted = TRUE, !.tags = tags, !.text = text]
  OBVIOUS
<1>8. PICK fresh : fresh = ToSet(chosen) \ ToSet(present)
  OBVIOUS
<1>9. /\ Len(tags) <= MaxTags
      /\ meta' = new
      /\ receipt' = [f \in Fields |-> IF f \in fields THEN Upsert(f, r, new) ELSE receipt[f]]
      /\ tagSource' = [t \in Tags |-> IF t \in fresh /\ tagSource[t] = 0 THEN r ELSE tagSource[t]]
      /\ appended' = [t \in Tags |-> IF t \in fresh THEN r ELSE appended[t]]
      /\ Bump /\ UNCHANGED <<cover, located, published, done, opened, screen, looked, candidate>>
  BY <1>3, <1>4, <1>6, <1>7, <1>8 DEF ApplyReview
<1>10. tags \in TagLists
  BY <1>5, <1>9, TagListsAre
<1>11. new = [persisted |-> TRUE, text |-> text, tags |-> tags]
  BY <1>7 DEF IInv, TypeOK
<1>12. text \in [Texts -> Values] /\ \A f \in Texts : f \in fields => text[f] = r
  BY <1>1, <1>6, ValuesTyped
<1>13. /\ record' \in Records \cup {None}
       /\ RecordFits' /\ ScreenFits' /\ CandidateFits'
  BY <1>9, Bumped
<1>14. \A f \in Fields : f \in fields =>
          /\ receipt'[f] = [run |-> r, digest |-> IF f = "tags" THEN tags ELSE text[f]]
          /\ receipt'[f] \in Receipts(f)
  BY <1>9, <1>10, <1>11, <1>12 DEF Upsert, ValueOf, Receipts, Fields
<1>15. \A f \in Fields : f \notin fields => receipt'[f] = receipt[f]
  BY <1>9
<1>16. TypeOK'
  <2>1. \A f \in Fields : receipt'[f] \in Receipts(f)
    BY <1>14, <1>15 DEF IInv, TypeOK
  <2>2. tagSource' \in [Tags -> Values] /\ appended' \in [Tags -> Values]
    BY <1>9, ValuesTyped DEF IInv, TypeOK
  <2>3. meta' \in [persisted : BOOLEAN, text : [Texts -> Values], tags : TagLists]
    BY <1>9, <1>10, <1>11, <1>12
  <2>4. \A f : Receipts(f)' = Receipts(f)
    BY DEF Receipts
  <2> QED
    BY <1>9, <1>13, <2>1, <2>2, <2>3, <2>4 DEF IInv, TypeOK
<1>17. ReceiptsFit'
  <2>1. ASSUME NEW f \in Texts, f \in fields
        PROVE  receipt'[f].digest = receipt'[f].run
    <3>1. f \in Fields /\ f # "tags"
      BY RecordsAssumption DEF Fields
    <3>2. receipt'[f] = [run |-> r, digest |-> text[f]] /\ text[f] = r
      BY <1>12, <1>14, <2>1, <3>1
    <3> QED
      BY <3>2
  <2>2. ASSUME NEW f \in Texts, f \notin fields, receipt'[f] # None
        PROVE  receipt'[f].digest = receipt'[f].run
    <3>1. receipt'[f] = receipt[f]
      BY <1>15, <2>2 DEF Fields
    <3> QED
      BY <2>2, <3>1 DEF IInv, ReceiptsFit
  <2> QED
    BY <2>1, <2>2 DEF ReceiptsFit
<1>18. SourcesFit'
  <2>1. \A t \in Tags : t \in fresh => Contains(tags, t) /\ ~Contains(meta.tags, t)
    BY <1>2, <1>3, <1>5, <1>8, ContainsIsIn
  <2>2. \A t \in Tags : t \in fresh => tagSource[t] = 0
    BY <2>1 DEF IInv, SourcesFit
  <2>3. \A t \in Tags : t \notin fresh => (tagSource[t] # 0 => Contains(tags, t))
    BY <1>3, <1>5 DEF IInv, SourcesFit
  <2>4. \A t \in Tags :
           /\ t \in fresh => tagSource'[t] = r /\ appended'[t] = r
           /\ t \notin fresh => tagSource'[t] = tagSource[t] /\ appended'[t] = appended[t]
    BY <1>9, <2>2
  <2>5. meta'.tags = tags
    BY <1>9, <1>11
  <2> QED
    BY <2>1, <2>3, <2>4, <2>5 DEF IInv, SourcesFit
<1> QED
  BY <1>13, <1>16, <1>17, <1>18 DEF IInv

LEMMA MarkOpenedIInv ==
  ASSUME IInv, NEW p \in Openers, NEW r \in Runs, MarkOpened(p, r)
  PROVE  IInv'
<1>1. /\ record' \in Records \cup {None}
      /\ RecordFits' /\ ScreenFits' /\ CandidateFits'
  BY RecordRests DEF MarkOpened
<1>2. opened' \in [Openers -> Values]
  BY ValuesTyped DEF MarkOpened, IInv, TypeOK
<1>3. TypeOK'
  BY <1>1, <1>2 DEF MarkOpened, IInv, TypeOK, Receipts
<1> QED
  BY <1>1, <1>3 DEF MarkOpened, IInv, ReceiptsFit, SourcesFit

LEMMA AroundIInv ==
  ASSUME IInv, AddLocation \/ Publish \/ Unpublish
  PROVE  IInv'
<1>1. /\ UNCHANGED <<meta, cover, done, record, receipt, tagSource, opened, screen, looked, candidate,
                     appended>>
      /\ located' \in BOOLEAN /\ published' \in BOOLEAN
  BY DEF AddLocation, Publish, Unpublish, IInv, TypeOK
<1>2. /\ record' \in Records \cup {None}
      /\ RecordFits' /\ ScreenFits' /\ CandidateFits'
  BY <1>1, RecordRests
<1>3. TypeOK'
  BY <1>1, <1>2 DEF IInv, TypeOK, Receipts
<1> QED
  BY <1>1, <1>2, <1>3 DEF IInv, ReceiptsFit, SourcesFit

-----------------------------------------------------------------------------
(* The record.                                                                *)

LEMMA BindIInv ==
  ASSUME IInv, Bind
  PROVE  IInv'
<1>1. /\ record' \in Records /\ record'.rows = record'.approved /\ ~record'.family
      /\ UNCHANGED <<meta, cover, located, published, done, receipt, tagSource, opened, screen, looked,
                     candidate, appended>>
  BY ValuesTyped DEF Bind, Records
<1>2. screen = None /\ looked = None /\ candidate = None
  BY DEF Bind, IInv, ScreenFits, CandidateFits
<1>3. RecordFits' /\ ScreenFits' /\ CandidateFits'
  BY <1>1, <1>2 DEF RecordFits, ScreenFits, CandidateFits
<1>4. TypeOK'
  BY <1>1 DEF IInv, TypeOK, Receipts
<1> QED
  BY <1>1, <1>3, <1>4 DEF IInv, ReceiptsFit, SourcesFit

(* A version read again is the one there was, or a later one.                 *)
LEMMA ReadVersionIInv ==
  ASSUME IInv, ReadVersion
  PROVE  IInv'
<1>1. PICK content \in Contents : content = Content
  BY ContentTyped DEF IInv
<1>2. record \in Records /\ record.version \in Nat
  BY ContentTyped DEF ReadVersion, IInv, Records
<1>3. PICK new \in [version : Nat, held : Contents] :
        new = [version |-> record.version, held |-> content]
  BY <1>2
<1>4. /\ new.version = record.version /\ new.held = content /\ new # None
      /\ screen' = new
      /\ looked' = None \/ (looked' = looked /\ screen # None /\ screen.version = record.version)
      /\ UNCHANGED <<meta, cover, located, published, done, record, receipt, tagSource, opened,
                     candidate, appended>>
  BY <1>1, <1>3, RecordIsSome DEF ReadVersion
<1>5. Bound' /\ Content' = content /\ Visible' = Visible
  BY <1>1, <1>4 DEF ReadVersion, Bound, Content, Visible
<1>6. ScreenFits'
  BY <1>2, <1>4, <1>5 DEF IInv, ScreenFits
<1>7. CandidateFits'
  <2> SUFFICES ASSUME candidate # None
               PROVE  /\ candidate.version <= record.version
                      /\ candidate.version = record.version => candidate.content = content
    BY <1>4 DEF CandidateFits
  <2>1. /\ screen # None /\ candidate.version <= screen.version
        /\ candidate.version = screen.version => candidate.content = screen.held
    BY DEF IInv, CandidateFits
  <2>2. /\ screen.version <= record.version
        /\ record.version = screen.version => content = screen.held
    BY <1>1, <2>1 DEF IInv, ScreenFits
  <2>3. candidate.version \in Nat /\ screen.version \in Nat
    BY <2>1 DEF IInv, TypeOK, Projections
  <2> QED
    BY <1>2, <2>1, <2>2, <2>3
<1>8. RecordFits'
  BY <1>4 DEF IInv, RecordFits, Bound
<1>9. TypeOK'
  BY <1>4 DEF IInv, TypeOK, Receipts
<1> QED
  BY <1>4, <1>6, <1>7, <1>8, <1>9 DEF IInv, ReceiptsFit, SourcesFit

LEMMA OpenDetailsIInv ==
  ASSUME IInv, OpenDetails
  PROVE  IInv'
<1>1. /\ screen # None /\ looked' = Visible
      /\ UNCHANGED <<meta, cover, located, published, done, record, receipt, tagSource, opened,
                     screen, candidate, appended>>
  BY DEF OpenDetails
<1>2. Visible \in Looks
  BY DEF IInv, TypeOK, Visible, Looks
<1>3. RecordFits' /\ ScreenFits' /\ CandidateFits'
  BY <1>1 DEF IInv, RecordFits, ScreenFits, CandidateFits, Bound, Content, Visible
<1>4. TypeOK'
  BY <1>1, <1>2 DEF IInv, TypeOK, Receipts
<1> QED
  BY <1>1, <1>3, <1>4 DEF IInv, ReceiptsFit, SourcesFit

LEMMA PrepareIInv ==
  ASSUME IInv, Prepare
  PROVE  IInv'
<1>1. Bound
  BY DEF Prepare, IInv, ScreenFits
<1>2. PICK p \in Projections : p = Projection
  BY <1>1, ContentTyped DEF IInv
<1>3. p.version = record.version /\ p.content = Content
  BY <1>2 DEF Projection
<1>4. /\ screen # None /\ record.version = screen.version /\ candidate' = p
      /\ UNCHANGED <<meta, cover, located, published, done, record, receipt, tagSource, opened,
                     screen, looked, appended>>
  BY <1>2 DEF Prepare
<1>5. Content = screen.held /\ p.version \in Nat
  BY <1>4 DEF IInv, ScreenFits, Projections
<1>6. CandidateFits'
  BY <1>3, <1>4, <1>5 DEF CandidateFits
<1>7. RecordFits' /\ ScreenFits'
  BY <1>4 DEF IInv, RecordFits, ScreenFits, Bound, Content, Visible
<1>8. TypeOK'
  BY <1>4 DEF IInv, TypeOK, Receipts
<1> QED
  BY <1>4, <1>6, <1>7, <1>8 DEF IInv, ReceiptsFit, SourcesFit

(* What an approval that goes through freezes is what was prepared, what the  *)
(* panel's version stands for and what the page has shown.                    *)
LEMMA ApprovedIsPrepared ==
  ASSUME IInv, candidate # None, StillAsPrepared
  PROVE  /\ Bound /\ Projection = candidate /\ Projection \in Projections
         /\ record \in Records /\ record.completed
         /\ candidate.version = screen.version /\ candidate.content = screen.held
         /\ looked # None => looked = Visible
<1>1. Bound /\ Projection = candidate /\ record.completed
  BY DEF StillAsPrepared, SameDigest, Approvable, IInv, CandidateFits, ScreenFits
<1>2. /\ screen # None /\ candidate.version <= screen.version
      /\ screen.version <= record.version /\ record.version = candidate.version
  BY DEF StillAsPrepared, IInv, CandidateFits, ScreenFits
<1>3. candidate.version \in Nat /\ screen.version \in Nat
  BY <1>2 DEF IInv, TypeOK, Projections
<1>4. candidate.version = screen.version /\ record.version = screen.version
  BY <1>2, <1>3
<1> QED
  BY <1>1, <1>2, <1>4, ContentTyped DEF IInv, CandidateFits, ScreenFits

LEMMA ApproveIInv ==
  ASSUME IInv, Approve
  PROVE  IInv'
<1>1. /\ candidate # None /\ candidate' = None
      /\ UNCHANGED <<meta, cover, located, published, done, receipt, tagSource, opened, screen, looked,
                     appended>>
  BY DEF Approve
<1>2. /\ record' \in Records \cup {None}
      /\ RecordFits' /\ ScreenFits'
  <2>1. CASE StillAsPrepared /\ ~(record.family /\ SameSubstance)
    <3>1. /\ Bound /\ record \in Records /\ record.completed
          /\ Projection \in Projections
      BY <1>1, <2>1, ApprovedIsPrepared
    <3>2. PICK p \in Projections : p = Projection
      BY <3>1
    <3>3. PICK new : new = [record EXCEPT !.approved = p, !.rows = p, !.family = TRUE, !.timeline = TRUE]
      OBVIOUS
    <3>4. /\ new \in Records /\ new.version = record.version /\ new.rows = new.approved
          /\ new.completed /\ new.approved # None
      BY <3>1, <3>3, RecordIsSome DEF Records
    <3>5. record' = Changed(new)
      BY <2>1, <3>2, <3>3 DEF Approve, Frozen
    <3> QED
      BY <1>1, <3>1, <3>4, <3>5, VersionMoves
  <2>2. CASE ~(StillAsPrepared /\ ~(record.family /\ SameSubstance))
    <3>1. record' = record
      BY <2>2 DEF Approve
    <3> QED
      BY <1>1, <3>1 DEF IInv, TypeOK, RecordFits, ScreenFits, Bound, Content, Visible
  <2> QED
    BY <2>1, <2>2
<1>3. CandidateFits'
  BY <1>1 DEF CandidateFits
<1>4. TypeOK'
  BY <1>1, <1>2 DEF IInv, TypeOK, Receipts
<1> QED
  BY <1>1, <1>2, <1>3, <1>4 DEF IInv, ReceiptsFit, SourcesFit

LEMMA WithdrawIInv ==
  ASSUME IInv, Withdraw
  PROVE  IInv'
<1>1. Bound /\ record \in Records /\ record.rows = record.approved
  BY ContentTyped DEF Withdraw, IInv, RecordFits, ScreenFits
<1>2. PICK new : new = [record EXCEPT !.family = FALSE]
  OBVIOUS
<1>3. /\ new \in Records /\ new.version = record.version /\ new.rows = new.approved
      /\ ~new.family
  BY <1>1, <1>2 DEF Records
<1>4. /\ record' = Changed(new)
      /\ UNCHANGED <<meta, cover, located, published, done, receipt, tagSource, opened, screen, looked,
                     candidate, appended>>
  BY <1>2 DEF Withdraw
<1>5. /\ record' \in Records \cup {None}
      /\ RecordFits' /\ ScreenFits'
  BY <1>1, <1>3, <1>4, VersionMoves
<1>6. CandidateFits'
  BY <1>4 DEF IInv, CandidateFits
<1>7. TypeOK'
  BY <1>4, <1>5 DEF IInv, TypeOK, Receipts
<1> QED
  BY <1>4, <1>5, <1>6, <1>7 DEF IInv, ReceiptsFit, SourcesFit

LEMMA NextIInv == IInv /\ [Next]_vars => IInv'
<1>1. ASSUME IInv, Next
      PROVE  IInv'
  BY <1>1, SaveIInv, AcceptCoverIInv, FinishAnalysisIInv, ApplyReviewIInv, MarkOpenedIInv,
     AroundIInv, BindIInv, ReadVersionIInv, OpenDetailsIInv, PrepareIInv, ApproveIInv, WithdrawIInv DEF Next
<1>2. ASSUME IInv, UNCHANGED vars
      PROVE  IInv'
  BY <1>2 DEF vars, IInv, TypeOK, RecordFits, ScreenFits, CandidateFits, ReceiptsFit, SourcesFit,
              Bound, Content, Visible, Receipts
<1> QED
  BY <1>1, <1>2

-----------------------------------------------------------------------------
(* The theorems.                                                              *)

(* The invariant holds in every reachable state.                              *)
THEOREM RecordsInvariant == Spec => []IInv
BY InitIInv, NextIInv, PTL DEF Spec

(* The rows of the medium and its record keep their types: whoever edits, a   *)
(* medium never has a tag twice or more tags than MAX_MEDIA_TAGS              *)
(* (save_media_metadata, apply_review).                                       *)
THEOREM RecordsTypeCorrect == Spec => []TypeOK
BY RecordsInvariant, PTL DEF IInv

(* What the SQL of the lists shows, finds and puts in the Timeline is what    *)
(* the page of the medium gives the same reader (member_approved_media_       *)
(* predicate, unbound_published_or_owned and decide_bound_read).              *)
THEOREM SurfacesAlwaysAgree == Spec => []SurfacesAgree
<1>1. ASSUME IInv, NEW p \in Readers
      PROVE  /\ Listed(p) => ReadDecision(p) # "deny" /\ Shown(p) = Page(p)
             /\ Bound => (Listed(p) <=> ReadDecision(p) # "deny")
             /\ InTimeline => ReadDecision(p) # "deny"
             /\ \A v \in Values : Found(p, v) => Page(p).text["display_title"] = v
  <2>1. p \in {"administrator", "owner", "member"}
    BY DEF Readers, Members
  <2>2. Bound => /\ record.rows = record.approved
                 /\ record.family => record.completed /\ record.approved # None
    BY <1>1 DEF IInv, RecordFits
  <2>3. Content.text = meta.text
    BY DEF Content
  <2>4. CASE p = "administrator"
    BY <2>3, <2>4 DEF Listed, ReadDecision, BoundDecision, Shown, Page, InScope, InTimeline,
                      Found, Members
  <2>5. CASE p = "owner"
    BY <2>3, <2>5 DEF Listed, ReadDecision, BoundDecision, Shown, Page, InScope, InTimeline,
                      Found, Members, InGallery, OwnOrUnbound, ApprovedOfOthers
  <2>6. CASE p = "member"
    <3>1. p # "administrator" /\ p # "owner" /\ p \in Members
      BY <2>6 DEF Members
    <3> DEFINE Sees == record.family /\ record.approved # None /\ record.completed
    <3>2. CASE Bound
      <4>1. /\ ReadDecision(p) = (IF Sees THEN "approved" ELSE "deny")
            /\ InTimeline => Sees
            /\ Listed(p) <=> Sees
        <5>1. ReadDecision(p) = BoundDecision(p)
          BY <3>2 DEF ReadDecision
        <5>2. BoundDecision(p) = (IF Sees THEN "approved" ELSE "deny")
          BY <3>1 DEF BoundDecision
        <5>3. InTimeline => Sees
          BY <2>2, <3>2 DEF InTimeline
        <5>4. Listed(p) <=> Sees
          BY <3>1, <3>2 DEF Listed, InScope, InGallery, OwnOrUnbound, ApprovedOfOthers
        <5> QED
          BY <5>1, <5>2, <5>3, <5>4
      <4>2. Sees => Shown(p) = record.rows.content /\ Page(p) = record.approved.content
        BY <3>1, <3>2, <4>1 DEF Shown, Page
      <4>3. \A v \in Values : Found(p, v) => Listed(p) /\ record.rows.content.text["display_title"] = v
        BY <3>1, <3>2 DEF Found, OwnOrUnbound
      <4> HIDE DEF Sees
      <4> QED
        BY <2>2, <3>2, <4>1, <4>2, <4>3
    <3>3. CASE ~Bound
      <4>1. /\ ReadDecision(p) = (IF published THEN "legacy" ELSE "deny")
            /\ Listed(p) <=> published
            /\ ~InTimeline /\ Shown(p) = Content /\ Page(p) = Content
        BY <3>1, <3>3 DEF Listed, ReadDecision, InScope, InTimeline,
                          InGallery, OwnOrUnbound, ApprovedOfOthers, Shown, Page
      <4>2. \A v \in Values : Found(p, v) => Listed(p) /\ meta.text["display_title"] = v
        BY <3>1, <3>3 DEF Found, OwnOrUnbound, ApprovedOfOthers
      <4> QED
        BY <2>3, <3>3, <4>1, <4>2
    <3> QED
      BY <3>2, <3>3
  <2> QED
    BY <2>1, <2>4, <2>5, <2>6
<1>2. IInv => SurfacesAgree
  BY <1>1 DEF SurfacesAgree
<1> QED
  BY <1>2, RecordsInvariant, PTL

(* A shown receipt names the run whose text it is, a shown source of a tag    *)
(* the run whose review put it there (_load_field_sources, _load_tag_sources).*)
THEOREM ReceiptsAreAlwaysHonest == Spec => []ReceiptsAreHonest
<1>1. ASSUME IInv
      PROVE  ReceiptsAreHonest
  <2>1. ASSUME NEW f \in Texts, ShownSource(f) # 0
        PROVE  meta.text[f] = ShownSource(f)
    <3>1. f # "tags"
      BY RecordsAssumption
    <3> QED
      BY <1>1, <2>1, <3>1 DEF IInv, ReceiptsFit, ShownSource, ValueOf
  <2>2. ASSUME NEW t \in Tags, ShownTagSource(t) # 0
        PROVE  appended[t] = ShownTagSource(t)
    BY <1>1, <2>2 DEF IInv, SourcesFit, ShownTagSource
  <2> QED
    BY <2>1, <2>2 DEF ReceiptsAreHonest
<1>2. IInv => ReceiptsAreHonest
  BY <1>1
<1> QED
  BY <1>2, RecordsInvariant, PTL

(* The family begins to see a snapshot only in a step that freezes what the   *)
(* medium was at the version the approval names, and what its page showed the *)
(* administrator since the panel had that version (prepare_approval and       *)
(* approve: the versions and the digest that they compare).                   *)
THEOREM FamilyAlwaysSeesTheNamedVersion == Spec => FamilySeesTheNamedVersion
<1> DEFINE Shows == Bound /\ record'.family /\ (~record.family \/ record'.approved # record.approved)
           Seen == LET content == record'.approved.content IN
                   /\ record'.approved = candidate /\ candidate.version = screen.version
                   /\ content = screen.held
                   /\ looked # None => \A part \in DOMAIN looked : content[part] = looked[part]
<1>1. ASSUME IInv, Next, Shows
      PROVE  Seen
  <2>1. record \in Records
    BY <1>1, ContentTyped DEF IInv
  <2>2. CASE Approve
    <3>1. record' # record
      BY <1>1
    <3>2. /\ candidate # None /\ StillAsPrepared
          /\ record' = Changed([Frozen EXCEPT !.family = TRUE, !.timeline = TRUE])
      BY <2>2, <3>1 DEF Approve
    <3>3. /\ Projection = candidate /\ Projection \in Projections
          /\ candidate.version = screen.version /\ candidate.content = screen.held
          /\ looked # None => looked = Visible
      BY <1>1, <3>2, ApprovedIsPrepared
    <3>4. PICK p \in Projections : p = Projection
      BY <3>3
    <3>5. record' = Changed([[record EXCEPT !.approved = p, !.rows = p] EXCEPT !.family = TRUE, !.timeline = TRUE])
      BY <3>2, <3>4 DEF Frozen
    <3>6. record'.approved = p
      BY <2>1, <3>5 DEF Changed, Records
    <3>7. \A part \in DOMAIN Visible : Content[part] = Visible[part]
      BY DEF Visible, Content
    <3>8. candidate.content = Content
      BY <3>3 DEF Projection
    <3> QED
      BY <3>3, <3>4, <3>6, <3>7, <3>8
  <2>3. CASE ~Approve
    <3>1. \/ record' = record
          \/ record' = Changed(record)
          \/ \E r \in Runs : record' = Changed([record EXCEPT !.run = r, !.completed = TRUE])
          \/ record' = Changed([record EXCEPT !.family = FALSE])
      BY <1>1, <2>3 DEF Next, Save, AcceptCover, AddLocation, FinishAnalysis, ApplyReview, MarkOpened,
         Publish, Unpublish, Bind, ReadVersion, OpenDetails, Prepare, Withdraw, Bump
    <3>2. record'.family => record.family /\ record'.approved = record.approved
      BY <2>1, <3>1 DEF Changed, Records
    <3> QED
      BY <1>1, <3>2, SMTT(40)
  <2> QED
    BY <2>2, <2>3
<1>2. IInv /\ [Next]_vars => [Shows => Seen]_vars
  <2> HIDE DEF Shows, Seen
  <2> QED
    BY <1>1
<1> QED
  BY <1>2, RecordsInvariant, PTL DEF Spec, FamilySeesTheNamedVersion

-----------------------------------------------------------------------------
(* The inductive invariant of the removal.                                   *)

ArtifactsGone(m) == \A f \in artifacts : f[1] = m => <<"artifact", m, f[2]>> \in late
ThumbnailGone(m) ==
    <<m, receipts[m].frame>> \in thumbnails => <<"thumbnail", m, receipts[m].frame>> \in late
PreviewsGone(m) ==
    \A p \in previews : p.location \in receipts[m].locations => <<"preview", m, p.location>> \in late

Cleaning == {"cleaning", "thumbnail", "previews", "saving"}

(* What a cleanup has established where it is.  It works from a receipt it   *)
(* has read, whose outcomes may be old by now, but never the medium, the     *)
(* frame and the locations; and what is gone stays gone.                     *)
AdminFits(s) ==
    /\ s.at \in Cleaning =>
          /\ receipts[s.medium] # Nothing
          /\ s.read.frame = receipts[s.medium].frame
          /\ s.read.locations = receipts[s.medium].locations
          /\ s.read.preview = "complete" => PreviewsGone(s.medium)
          /\ s.cover = "complete" => ArtifactsGone(s.medium) /\ ThumbnailGone(s.medium)
    /\ s.at = "thumbnail" => ArtifactsGone(s.medium)
    /\ s.at = "saving" => (s.preview = "complete" => PreviewsGone(s.medium))

ReceiptFits(m) ==
    receipts[m] # Nothing =>
        /\ \A l \in receipts[m].locations : MediaOf[l] = m
        /\ receipts[m].cover = "complete" => ArtifactsGone(m) /\ ThumbnailGone(m)
        /\ receipts[m].preview = "complete" => PreviewsGone(m)

RemovalIInv ==
    /\ RemovalTypeOK
    /\ \A m \in Media : ReceiptFits(m)
    /\ \A a \in Admins : AdminFits(admin[a])

(* What a step may not take back from a medium that was removed.             *)
KeepsGone(m) ==
    /\ receipts'[m] # Nothing
    /\ receipts'[m].frame = receipts[m].frame /\ receipts'[m].locations = receipts[m].locations
    /\ ArtifactsGone(m) => ArtifactsGone(m)'
    /\ ThumbnailGone(m) => ThumbnailGone(m)'
    /\ PreviewsGone(m) => PreviewsGone(m)'
StaysGone == \A m \in Media : receipts[m] # Nothing => KeepsGone(m)

-----------------------------------------------------------------------------
(* Types.                                                                    *)

LEMMA IdleIs == Idle.at = "idle"
  BY DEF Idle

(* The places of the three kinds of request, and what a request has there.   *)
LEMMA AcceptorShape ==
    ASSUME NEW s \in AcceptorStates
    PROVE  /\ s.at = "idle" \/ s \in [at : {"chosen", "probed"}, location : Locations,
                                      version : Versions, revision : 0..MaxRevision]
              \/ s \in [at : {"extracted", "encoded", "published", "accepted", "thumbnail"},
                        location : Locations, version : Versions, revision : 0..MaxRevision,
                        frame : Frames]
  BY DEF AcceptorStates, Idle

LEMMA AdminShape ==
    ASSUME NEW s \in AdminStates
    PROVE  /\ s.at \in {"idle", "confirming"} \union Cleaning
           /\ s.at = "confirming" =>
                 s \in [at : {"confirming"}, medium : Media, seen : Fingerprints]
           /\ s.at \in {"cleaning", "thumbnail", "previews"} =>
                 s \in [at : {"cleaning", "thumbnail", "previews"}, medium : Media,
                        read : ReceiptRows, cover : Outcomes]
           /\ s.at = "saving" =>
                 s \in [at : {"saving"}, medium : Media, read : ReceiptRows, cover : Outcomes,
                        preview : Outcomes]
  BY DEF AdminStates, Idle, Cleaning

LEMMA GeneratorShape ==
    ASSUME NEW s \in GeneratorStates
    PROVE  /\ s.at = "keyed" => s \in [at : {"keyed"}, location : Locations, key : Versions]
           /\ s.at = "prepared" =>
                 s \in [at : {"prepared"}, location : Locations, key : Versions, shown : Versions]
  BY DEF GeneratorStates, Idle

LEMMA RowsAreSomething ==
    /\ \A s \in ReceiptRows : s # Nothing
    /\ \A s \in CoverRows : s # Nothing
  <1>1. \A s \in ReceiptRows : "frame" \in DOMAIN s
    BY DEF ReceiptRows
  <1>2. \A s \in CoverRows : "frame" \in DOMAIN s
    BY DEF CoverRows
  <1>3. "frame" \notin DOMAIN Nothing
    BY DEF Nothing
  <1> QED
    BY <1>1, <1>2, <1>3

LEMMA SnapshotTyped ==
    ASSUME RemovalTypeOK, NEW m \in Media
    PROVE  Fingerprint(m) \in Fingerprints /\ BuildReceipt(m) \in ReceiptRows
<1>1. covers[m] \in CoverRows \union {Nothing} /\ linked \subseteq Locations
  BY DEF RemovalTypeOK
<1>2. covers[m] # Nothing => covers[m].frame \in Frames /\ covers[m].revision \in 1..MaxRevision
  BY <1>1 DEF CoverRows
<1>3. CoverSeen(m) \in [revision : 1..MaxRevision, frame : Frames] \union {Nothing}
  BY <1>2 DEF CoverSeen
<1>4. Fingerprint(m) = [locations |-> {l \in linked : MediaOf[l] = m},
                        published |-> m \in publications, cover |-> CoverSeen(m)]
  <2> DEFINE all == LoadSnapshot(m)
  <2>1. DOMAIN all \ {"titled"} = {"locations", "published", "cover"}
    BY DEF LoadSnapshot
  <2>2. /\ all["locations"] = {l \in linked : MediaOf[l] = m}
        /\ all["published"] = (m \in publications) /\ all["cover"] = CoverSeen(m)
    BY DEF LoadSnapshot
  <2> HIDE DEF all
  <2>3. Fingerprint(m) = [part \in {"locations", "published", "cover"} |-> all[part]]
    BY <2>1 DEF Fingerprint, all
  <2> QED
    BY <2>2, <2>3
<1>5. Fingerprint(m) \in Fingerprints
  BY <1>1, <1>3, <1>4 DEF Fingerprints
<1>6. BuildReceipt(m) \in ReceiptRows
  BY <1>1, <1>2 DEF BuildReceipt, LoadSnapshot, ReceiptRows, Outcomes
<1> QED
  BY <1>5, <1>6

LEMMA RemovalInitIInv == RemovalInit => RemovalIInv
<1> SUFFICES ASSUME RemovalInit PROVE RemovalIInv
  OBVIOUS
<1>1. RemovalTypeOK
  BY RemovalAssumption DEF RemovalInit, RemovalTypeOK, Versions, AcceptorStates,
     GeneratorStates, AdminStates
<1>2. \A m \in Media : ReceiptFits(m)
  BY DEF RemovalInit, ReceiptFits
<1>3. \A a \in Admins : AdminFits(admin[a])
  BY DEF RemovalInit, AdminFits, Idle, Cleaning
<1> QED
  BY <1>1, <1>2, <1>3 DEF RemovalIInv

(* A step of an acceptor, of a generator or of an administrator that leaves  *)
(* database and files alone keeps the types, and takes nothing back.         *)
LEMMA OnlyRequests ==
    ASSUME RemovalTypeOK, UNCHANGED <<database, files>>,
           acceptor' \in [Acceptors -> AcceptorStates],
           generator' \in [Generators -> GeneratorStates],
           admin' \in [Admins -> AdminStates]
    PROVE  RemovalTypeOK' /\ StaysGone
<1>1. RemovalTypeOK'
  BY DEF RemovalTypeOK, database, files
<1>2. StaysGone
  BY DEF StaysGone, KeepsGone, ArtifactsGone, ThumbnailGone, PreviewsGone, database, files
<1> QED
  BY <1>1, <1>2

LEMMA OneAcceptor ==
    ASSUME RemovalTypeOK, NEW a \in Acceptors, NEW s \in AcceptorStates, SetAcceptor(a, s)
    PROVE  /\ acceptor' \in [Acceptors -> AcceptorStates]
           /\ generator' \in [Generators -> GeneratorStates]
           /\ admin' \in [Admins -> AdminStates]
           /\ admin' = admin
  BY DEF RemovalTypeOK, SetAcceptor

LEMMA OneGenerator ==
    ASSUME RemovalTypeOK, NEW g \in Generators, NEW s \in GeneratorStates, SetGenerator(g, s)
    PROVE  /\ acceptor' \in [Acceptors -> AcceptorStates]
           /\ generator' \in [Generators -> GeneratorStates]
           /\ admin' \in [Admins -> AdminStates]
           /\ admin' = admin
  BY DEF RemovalTypeOK, SetGenerator

LEMMA OneAdmin ==
    ASSUME RemovalTypeOK, NEW a \in Admins, NEW s \in AdminStates, SetAdmin(a, s)
    PROVE  /\ acceptor' \in [Acceptors -> AcceptorStates]
           /\ generator' \in [Generators -> GeneratorStates]
           /\ admin' \in [Admins -> AdminStates]
           /\ admin'[a] = s
           /\ \A b \in Admins \ {a} : admin'[b] = admin[b]
  BY DEF RemovalTypeOK, SetAdmin

LEMMA CoverPageSteps ==
    ASSUME RemovalTypeOK, NEW a \in Acceptors,
           \/ \E l \in Locations : OpenCoverPage(a, l) \/ RegenerateThumbnail(a, l)
           \/ BeginAccept(a) \/ ExtractFrame(a) \/ ProbeAgain(a) \/ ReadArtifact(a)
    PROVE  RemovalTypeOK' /\ StaysGone /\ admin' = admin
<1>0. /\ acceptor[a] \in AcceptorStates /\ source \in [Locations -> Versions]
      /\ covers \in [Media -> CoverRows \union {Nothing}]
      /\ MediaOf \in [Locations -> Media]
  BY RemovalAssumption DEF RemovalTypeOK
<1>1. PICK s \in AcceptorStates : SetAcceptor(a, s) /\ UNCHANGED <<database, files>>
  <2>0. Idle \in AcceptorStates
    BY DEF AcceptorStates
  <2>1. ASSUME NEW l \in Locations, OpenCoverPage(a, l)
        PROVE  \E s \in AcceptorStates : SetAcceptor(a, s) /\ UNCHANGED <<database, files>>
    <3>1. (IF covers[MediaOf[l]] = Nothing THEN 0 ELSE covers[MediaOf[l]].revision)
             \in 0..MaxRevision
      BY <1>0, RemovalAssumption DEF CoverRows
    <3> QED
      BY <1>0, <2>1, <3>1 DEF OpenCoverPage, AcceptorStates
  <2>2. ASSUME NEW l \in Locations, RegenerateThumbnail(a, l)
        PROVE  \E s \in AcceptorStates : SetAcceptor(a, s) /\ UNCHANGED <<database, files>>
    <3>1. covers[MediaOf[l]] \in CoverRows
      BY <1>0, <2>2 DEF RegenerateThumbnail
    <3> QED
      BY <2>2, <3>1, RemovalAssumption DEF RegenerateThumbnail, AcceptorStates, CoverRows
  <2>3. ASSUME BeginAccept(a)
        PROVE  \E s \in AcceptorStates : SetAcceptor(a, s) /\ UNCHANGED <<database, files>>
    <3>1. acceptor[a] \in [at : {"chosen", "probed"}, location : Locations,
                           version : Versions, revision : 0..MaxRevision]
      BY <1>0, <2>3, AcceptorShape DEF BeginAccept, AcceptorAt
    <3>2. [acceptor[a] EXCEPT !.at = "probed"] \in AcceptorStates
      BY <3>1 DEF AcceptorStates
    <3> QED
      BY <2>0, <2>3, <3>2 DEF BeginAccept
  <2>4. ASSUME ExtractFrame(a)
        PROVE  \E s \in AcceptorStates : SetAcceptor(a, s) /\ UNCHANGED <<database, files>>
    <3>1. acceptor[a] \in [at : {"chosen", "probed"}, location : Locations,
                           version : Versions, revision : 0..MaxRevision]
      BY <1>0, <2>4, AcceptorShape DEF ExtractFrame, AcceptorAt
    <3>2. [location |-> acceptor[a].location, version |-> source[acceptor[a].location]] \in Frames
      BY <1>0, <3>1 DEF Frames
    <3> QED
      BY <2>4, <3>1, <3>2 DEF ExtractFrame, AcceptorStates
  <2>5. ASSUME ProbeAgain(a) \/ ReadArtifact(a)
        PROVE  \E s \in AcceptorStates : SetAcceptor(a, s) /\ UNCHANGED <<database, files>>
    <3>1. acceptor[a] \in [at : {"extracted", "encoded", "published", "accepted", "thumbnail"},
                           location : Locations, version : Versions, revision : 0..MaxRevision,
                           frame : Frames]
      BY <1>0, <2>5, AcceptorShape DEF ProbeAgain, ReadArtifact, AcceptorAt
    <3>2. /\ [acceptor[a] EXCEPT !.at = "encoded"] \in AcceptorStates
          /\ [acceptor[a] EXCEPT !.at = "thumbnail"] \in AcceptorStates
      BY <3>1 DEF AcceptorStates
    <3> QED
      BY <2>0, <2>5, <3>2 DEF ProbeAgain, ReadArtifact
  <2> QED
    BY <2>1, <2>2, <2>3, <2>4, <2>5
<1> QED
  BY <1>1, OneAcceptor, OnlyRequests

(* Who writes a file of a medium that is gone leaves a note of it.           *)
LEMMA PublishArtifactKeeps ==
    ASSUME RemovalTypeOK, NEW a \in Acceptors, PublishArtifact(a)
    PROVE  RemovalTypeOK' /\ StaysGone /\ admin' = admin
<1> DEFINE m == MediaOf[acceptor[a].location]
<1>1. acceptor[a] \in [at : {"extracted", "encoded", "published", "accepted", "thumbnail"},
                       location : Locations, version : Versions, revision : 0..MaxRevision,
                       frame : Frames]
  BY AcceptorShape DEF RemovalTypeOK, PublishArtifact, AcceptorAt
<1>2. m \in Media /\ acceptor[a].frame \in Frames
  BY <1>1, RemovalAssumption
<1>3. [acceptor[a] EXCEPT !.at = "published"] \in AcceptorStates
  BY <1>1 DEF AcceptorStates
<1>4. /\ acceptor' \in [Acceptors -> AcceptorStates]
      /\ generator' \in [Generators -> GeneratorStates]
      /\ admin' \in [Admins -> AdminStates] /\ admin' = admin
  BY <1>3, OneAcceptor DEF PublishArtifact
<1>5. /\ artifacts' = artifacts \union {<<m, acceptor[a].frame>>}
      /\ late' = IF m \in alive THEN late
                 ELSE late \union {<<"artifact", m, acceptor[a].frame>>}
      /\ UNCHANGED <<database, source, thumbnails, previews>>
  BY DEF PublishArtifact, NoClobberPublish, Lateness
<1>6. RemovalTypeOK'
  BY <1>2, <1>4, <1>5 DEF RemovalTypeOK, database
<1>7. StaysGone
  <2> SUFFICES ASSUME NEW n \in Media, receipts[n] # Nothing PROVE KeepsGone(n)
    BY DEF StaysGone
  <2>1. n \notin alive
    BY DEF RemovalTypeOK
  <2>2. ArtifactsGone(n) => ArtifactsGone(n)'
    BY <1>5, <2>1 DEF ArtifactsGone
  <2>3. receipts' = receipts /\ thumbnails' = thumbnails /\ previews' = previews
        /\ late \subseteq late'
    BY <1>5 DEF database
  <2> QED
    BY <2>2, <2>3 DEF KeepsGone, ThumbnailGone, PreviewsGone
<1> QED
  BY <1>4, <1>6, <1>7

LEMMA PublishThumbnailKeeps ==
    ASSUME RemovalTypeOK, NEW a \in Acceptors, PublishThumbnail(a)
    PROVE  RemovalTypeOK' /\ StaysGone /\ admin' = admin
<1> DEFINE m == MediaOf[acceptor[a].location]
<1>1. acceptor[a] \in [at : {"extracted", "encoded", "published", "accepted", "thumbnail"},
                       location : Locations, version : Versions, revision : 0..MaxRevision,
                       frame : Frames]
  BY AcceptorShape DEF RemovalTypeOK, PublishThumbnail, AcceptorAt
<1>2. m \in Media /\ acceptor[a].frame \in Frames
  BY <1>1, RemovalAssumption
<1>3. /\ acceptor' \in [Acceptors -> AcceptorStates]
      /\ generator' \in [Generators -> GeneratorStates]
      /\ admin' \in [Admins -> AdminStates] /\ admin' = admin
  BY OneAcceptor DEF PublishThumbnail, AcceptorStates
<1>4. /\ \/ /\ thumbnails' = thumbnails \union {<<m, acceptor[a].frame>>}
            /\ late' = IF m \in alive THEN late
                       ELSE late \union {<<"thumbnail", m, acceptor[a].frame>>}
         \/ thumbnails' = thumbnails /\ late' = late
      /\ UNCHANGED <<database, source, artifacts, previews>>
  BY DEF PublishThumbnail, NoClobberPublish, Lateness
<1>5. RemovalTypeOK'
  BY <1>2, <1>3, <1>4 DEF RemovalTypeOK, database
<1>6. StaysGone
  <2> SUFFICES ASSUME NEW n \in Media, receipts[n] # Nothing PROVE KeepsGone(n)
    BY DEF StaysGone
  <2>1. n \notin alive
    BY DEF RemovalTypeOK
  <2>2. receipts' = receipts /\ artifacts' = artifacts /\ previews' = previews
        /\ late \subseteq late'
    BY <1>4 DEF database
  <2>3. ThumbnailGone(n) => ThumbnailGone(n)'
    BY <1>4, <2>1, <2>2 DEF ThumbnailGone
  <2> QED
    BY <2>2, <2>3 DEF KeepsGone, ArtifactsGone, PreviewsGone
<1> QED
  BY <1>3, <1>5, <1>6

LEMMA SetCoverKeeps ==
    ASSUME RemovalTypeOK, NEW a \in Acceptors, SetCover(a)
    PROVE  RemovalTypeOK' /\ StaysGone /\ admin' = admin
<1> DEFINE m == MediaOf[acceptor[a].location]
           revision == IF covers[m] = Nothing THEN 0 ELSE covers[m].revision
           new == [frame |-> acceptor[a].frame, version |-> acceptor[a].version,
                   revision |-> revision + 1]
<1>1. acceptor[a] \in [at : {"extracted", "encoded", "published", "accepted", "thumbnail"},
                       location : Locations, version : Versions, revision : 0..MaxRevision,
                       frame : Frames]
  BY AcceptorShape DEF RemovalTypeOK, SetCover, AcceptorAt
<1>2. m \in Media /\ acceptor[a].frame \in Frames
  BY <1>1, RemovalAssumption
<1>3. /\ acceptor' \in [Acceptors -> AcceptorStates]
      /\ generator' \in [Generators -> GeneratorStates]
      /\ admin' \in [Admins -> AdminStates] /\ admin' = admin
  <2>1. [acceptor[a] EXCEPT !.at = "accepted"] \in AcceptorStates /\ Idle \in AcceptorStates
    BY <1>1 DEF AcceptorStates
  <2> QED
    BY <2>1, OneAcceptor DEF SetCover
<1>4. covers[m] \in CoverRows \union {Nothing}
  BY <1>2 DEF RemovalTypeOK
<1>5. new \in CoverRows
  <2>1. revision \in 0..MaxRevision /\ revision < MaxRevision
    BY <1>4, RemovalAssumption DEF SetCover, CoverRows
  <2> QED
    BY <1>1, <2>1, RemovalAssumption DEF CoverRows
<1>6. covers' = covers \/ (m \in alive /\ covers' = [covers EXCEPT ![m] = new])
  BY DEF SetCover
<1>7. UNCHANGED <<alive, linked, origin, detached, publications, described, bound, receipts, files>>
  BY DEF SetCover
<1> HIDE DEF new
<1>8. RemovalTypeOK'
  BY <1>2, <1>3, <1>5, <1>6, <1>7 DEF RemovalTypeOK, files
<1>9. StaysGone
  BY <1>7 DEF StaysGone, KeepsGone, ArtifactsGone, ThumbnailGone, PreviewsGone, files
<1> QED
  BY <1>3, <1>8, <1>9

LEMMA PreviewingKeeps ==
    ASSUME RemovalIInv, NEW g \in Generators, Previewing(g)
    PROVE  RemovalTypeOK' /\ StaysGone /\ admin' = admin
<1> USE DEF RemovalIInv
<1>0. /\ generator[g] \in GeneratorStates /\ source \in [Locations -> Versions]
      /\ MediaOf \in [Locations -> Media]
  BY RemovalAssumption DEF RemovalTypeOK
<1>1. ASSUME NEW l \in Locations, BeginPreview(g, l)
      PROVE  RemovalTypeOK' /\ StaysGone /\ admin' = admin
  <2>1. [at |-> "keyed", location |-> l, key |-> source[l]] \in GeneratorStates
    BY <1>0 DEF GeneratorStates
  <2> QED
    BY <1>1, <2>1, OneGenerator, OnlyRequests DEF BeginPreview
<1>2. CASE PrepareFrame(g)
  <2>1. generator[g] \in [at : {"keyed"}, location : Locations, key : Versions]
    BY <1>0, <1>2, GeneratorShape DEF PrepareFrame, GeneratorAt
  <2>2. [at |-> "prepared", location |-> generator[g].location, key |-> generator[g].key,
         shown |-> source[generator[g].location]] \in GeneratorStates
    BY <1>0, <2>1 DEF GeneratorStates
  <2> QED
    BY <1>2, <2>2, OneGenerator, OnlyRequests DEF PrepareFrame
<1>3. CASE PublishPreview(g)
  <2> DEFINE l == generator[g].location
             new == [location |-> l, key |-> generator[g].key, shown |-> generator[g].shown]
  <2>1. generator[g] \in [at : {"prepared"}, location : Locations, key : Versions,
                          shown : Versions]
    BY <1>0, <1>3, GeneratorShape DEF PublishPreview, GeneratorAt
  <2>2. l \in Locations /\ MediaOf[l] \in Media
        /\ new \in [location : Locations, key : Versions, shown : Versions]
    BY <1>0, <2>1
  <2>3. /\ acceptor' \in [Acceptors -> AcceptorStates]
        /\ generator' \in [Generators -> GeneratorStates]
        /\ admin' \in [Admins -> AdminStates] /\ admin' = admin
    BY <1>3, OneGenerator DEF PublishPreview, GeneratorStates
  <2>4. /\ previews' \subseteq previews \union {new}
        /\ late' = IF MediaOf[l] \in alive THEN late
                   ELSE late \union {<<"preview", MediaOf[l], l>>}
        /\ UNCHANGED <<database, source, artifacts, thumbnails>>
    BY <1>3 DEF PublishPreview, CacheKey, Lateness
  <2>5. new.location = l
    OBVIOUS
  <2> HIDE DEF new
  <2>6. RemovalTypeOK'
    BY <2>2, <2>3, <2>4 DEF RemovalTypeOK, database
  <2>7. StaysGone
    <3> SUFFICES ASSUME NEW n \in Media, receipts[n] # Nothing PROVE KeepsGone(n)
      BY DEF StaysGone
    <3>1. n \notin alive /\ \A k \in receipts[n].locations : MediaOf[k] = n
      BY DEF RemovalTypeOK, ReceiptFits
    <3>2. receipts' = receipts /\ artifacts' = artifacts /\ thumbnails' = thumbnails
          /\ late \subseteq late'
      BY <2>4 DEF database
    <3>3. PreviewsGone(n) => PreviewsGone(n)'
      BY <2>4, <2>5, <3>1, <3>2 DEF PreviewsGone
    <3> QED
      BY <3>2, <3>3 DEF KeepsGone, ArtifactsGone, ThumbnailGone
  <2> QED
    BY <2>3, <2>6, <2>7
<1> QED
  BY <1>1, <1>2, <1>3 DEF Previewing

(* What goes on around the requests touches neither receipts nor files that  *)
(* are derived.                                                              *)
LEMMA SurroundingsKeep ==
    ASSUME RemovalTypeOK,
           \/ \E l \in Locations : ReplaceFile(l) \/ FindLocation(l)
           \/ \E m \in Media : PublishMedium(m) \/ SaveMetadata(m) \/ BindRecord(m)
           \/ UNCHANGED removalVars
    PROVE  RemovalTypeOK' /\ StaysGone /\ admin' = admin
<1>1. /\ UNCHANGED <<receipts, artifacts, thumbnails, previews, late, requests>>
      /\ UNCHANGED <<alive, origin, detached, covers>>
  BY DEF ReplaceFile, FindLocation, PublishMedium, SaveMetadata, BindRecord, removalVars, database, files
<1>2. /\ source' \in [Locations -> Versions]
      /\ linked' \subseteq Locations /\ \A l \in linked' : MediaOf[l] \in alive
      /\ publications' \subseteq alive /\ described' \subseteq alive /\ bound' \subseteq alive
  <2>1. ASSUME NEW l \in Locations, ReplaceFile(l)
        PROVE  /\ source' \in [Locations -> Versions]
               /\ UNCHANGED <<linked, publications, described, bound>>
    <3>1. source[l] + 1 \in Versions
      BY <2>1, RemovalAssumption DEF ReplaceFile, RemovalTypeOK, Versions
    <3> QED
      BY <2>1, <3>1 DEF ReplaceFile, RemovalTypeOK, database
  <2>2. ASSUME NEW l \in Locations, FindLocation(l)
        PROVE  /\ linked' = linked \union {l} /\ MediaOf[l] \in alive
               /\ UNCHANGED <<source, publications, described, bound>>
    BY <2>2 DEF FindLocation, files
  <2>3. ASSUME NEW m \in Media, PublishMedium(m) \/ SaveMetadata(m) \/ BindRecord(m)
        PROVE  /\ publications' \subseteq alive /\ described' \subseteq alive /\ bound' \subseteq alive
               /\ UNCHANGED <<source, linked>>
    BY <2>3 DEF PublishMedium, SaveMetadata, BindRecord, files, RemovalTypeOK
  <2>4. CASE UNCHANGED removalVars
    BY <2>4 DEF removalVars, database, files, RemovalTypeOK
  <2> QED
    BY <2>1, <2>2, <2>3, <2>4 DEF RemovalTypeOK
<1>3. RemovalTypeOK'
  BY <1>1, <1>2 DEF RemovalTypeOK, requests
<1>4. StaysGone
  BY <1>1 DEF StaysGone, KeepsGone, ArtifactsGone, ThumbnailGone, PreviewsGone
<1> QED
  BY <1>1, <1>3, <1>4 DEF requests

LEMMA StopKeeps ==
    ASSUME RemovalTypeOK, Stop
    PROVE  /\ RemovalTypeOK' /\ StaysGone
           /\ \A a \in Admins : admin'[a] = Idle \/ admin'[a] = admin[a]
<1>1. /\ acceptor' \in [Acceptors -> AcceptorStates]
      /\ generator' \in [Generators -> GeneratorStates]
      /\ admin' \in [Admins -> AdminStates]
  BY DEF Stop, RemovalTypeOK, AcceptorStates, GeneratorStates, AdminStates
<1> QED
  BY <1>1, OnlyRequests DEF Stop

(* What one has established, one still has after a step that takes nothing   *)
(* back.                                                                     *)
LEMMA AdminGoesOn ==
    ASSUME StaysGone, NEW s \in AdminStates, AdminFits(s)
    PROVE  AdminFits(s)'
<1>1. CASE s.at \notin Cleaning
  BY <1>1 DEF AdminFits, Cleaning
<1>2. CASE s.at \in Cleaning
  <2>1. s.medium \in Media
    BY <1>2, AdminShape DEF Cleaning
  <2>2. KeepsGone(s.medium)
    BY <1>2, <2>1 DEF StaysGone, AdminFits
  <2> QED
    BY <1>2, <2>2 DEF AdminFits, KeepsGone, Cleaning
<1> QED
  BY <1>1, <1>2

(* A step that writes no receipt: whoever does nothing goes on, and whoever  *)
(* acts has established what its new place asks for.                         *)
LEMMA WithoutReceipt ==
    ASSUME RemovalIInv, RemovalTypeOK', StaysGone, receipts' = receipts,
           \A a \in Admins : admin'[a] = admin[a] \/ AdminFits(admin[a])'
    PROVE  RemovalIInv'
<1>1. \A m \in Media : ReceiptFits(m)'
  BY DEF RemovalIInv, ReceiptFits, StaysGone, KeepsGone
<1>2. ASSUME NEW a \in Admins PROVE AdminFits(admin[a])'
  <2>1. CASE admin'[a] = admin[a]
    <3>1. PICK s \in AdminStates : s = admin[a]
      BY DEF RemovalIInv, RemovalTypeOK
    <3>2. AdminFits(s)'
      BY <3>1, AdminGoesOn DEF RemovalIInv
    <3> QED
      BY <2>1, <3>1, <3>2 DEF AdminFits
  <2> QED
    BY <1>2, <2>1
<1> QED
  BY <1>1, <1>2 DEF RemovalIInv

LEMMA AdminStep ==
    ASSUME RemovalIInv, RemovalTypeOK', StaysGone, receipts' = receipts,
           NEW a \in Admins, NEW s \in AdminStates, SetAdmin(a, s), AdminFits(s)'
    PROVE  RemovalIInv'
<1>1. admin'[a] = s /\ \A b \in Admins \ {a} : admin'[b] = admin[b]
  BY OneAdmin DEF RemovalIInv
<1>2. AdminFits(admin[a])'
  BY <1>1 DEF AdminFits
<1> QED
  BY <1>1, <1>2, WithoutReceipt

-----------------------------------------------------------------------------
(* The steps of an administrator.                                            *)

LEMMA PreviewKeeps ==
    ASSUME RemovalIInv, NEW a \in Admins, NEW m \in Media, Preview(a, m)
    PROVE  RemovalIInv'
<1>1. PICK s \in AdminStates :
         s = [at |-> "confirming", medium |-> m, seen |-> Fingerprint(m)]
  BY SnapshotTyped DEF RemovalIInv, AdminStates
<1>2. SetAdmin(a, s) /\ UNCHANGED <<database, files>>
  BY <1>1 DEF Preview
<1>3. s.at = "confirming"
  BY <1>1
<1>4. AdminFits(s)'
  BY <1>3 DEF AdminFits, Cleaning
<1>5. RemovalTypeOK' /\ StaysGone /\ receipts' = receipts
  BY <1>2, OneAdmin, OnlyRequests DEF RemovalIInv, database
<1> QED
  BY <1>2, <1>4, <1>5, AdminStep

LEMMA RefuseKeeps ==
    ASSUME RemovalIInv, NEW a \in Admins, Refuse(a)
    PROVE  RemovalIInv'
<1>1. PICK s \in AdminStates : s = Idle
  BY DEF AdminStates
<1>2. SetAdmin(a, s) /\ UNCHANGED <<database, files>>
  BY <1>1 DEF Refuse
<1>3. AdminFits(s)'
  BY <1>1 DEF AdminFits, Idle, Cleaning
<1>4. RemovalTypeOK' /\ StaysGone /\ receipts' = receipts
  BY <1>2, OneAdmin, OnlyRequests DEF RemovalIInv, database
<1> QED
  BY <1>2, <1>3, <1>4, AdminStep

LEMMA RetryCleanupKeeps ==
    ASSUME RemovalIInv, NEW a \in Admins, NEW m \in Media, RetryCleanup(a, m)
    PROVE  RemovalIInv'
<1>1. receipts[m] # Nothing /\ receipts[m] \in ReceiptRows /\ receipts[m].cover \in Outcomes
  BY DEF RetryCleanup, RemovalIInv, RemovalTypeOK, ReceiptRows
<1>2. PICK s \in AdminStates :
         s = [at |-> "cleaning", medium |-> m, read |-> receipts[m], cover |-> receipts[m].cover]
  BY <1>1 DEF AdminStates
<1>3. SetAdmin(a, s) /\ UNCHANGED <<database, files>>
  BY <1>2 DEF RetryCleanup
<1>4. RemovalTypeOK' /\ StaysGone /\ receipts' = receipts
  BY <1>3, OneAdmin, OnlyRequests DEF RemovalIInv, database
<1>5. ReceiptFits(m) /\ s.at = "cleaning" /\ s.medium = m /\ s.read = receipts[m]
      /\ s.cover = receipts[m].cover
  BY <1>2 DEF RemovalIInv
<1>6. AdminFits(s)
  BY <1>1, <1>5 DEF AdminFits, ReceiptFits
<1>7. AdminFits(s)'
  BY <1>4, <1>6, AdminGoesOn
<1> QED
  BY <1>3, <1>4, <1>7, AdminStep

(* The transaction that removes.  The medium had no receipt, as it was       *)
(* alive; nothing is said to be gone yet.                                    *)
LEMMA RemoveKeeps ==
    ASSUME RemovalIInv, NEW a \in Admins, RemoveCatalogMedia(a)
    PROVE  RemovalIInv'
<1> DEFINE m == admin[a].medium
           r == BuildReceipt(m)
           s == [at |-> "cleaning", medium |-> m, read |-> r, cover |-> r.cover]
<1>1. admin[a] \in [at : {"confirming"}, medium : Media, seen : Fingerprints]
  BY AdminShape DEF RemovalIInv, RemovalTypeOK, RemoveCatalogMedia, AdminAt
<1>2. m \in Media /\ m \in alive /\ m \notin bound
  BY <1>1 DEF RemoveCatalogMedia, Removable
<1>3. r \in ReceiptRows /\ r.cover \in {"none", "pending"} /\ r.preview \in {"none", "pending"}
      /\ r.locations = {l \in linked : MediaOf[l] = m}
  BY <1>2, SnapshotTyped DEF RemovalIInv, BuildReceipt, LoadSnapshot
<1>4. r # Nothing
  BY <1>3, RowsAreSomething
<1>5. /\ receipts' = [receipts EXCEPT ![m] = r]
      /\ detached' = detached \/ detached' = detached \union {m}
      /\ covers' = [covers EXCEPT ![m] = Nothing]
      /\ publications' = publications \ {m} /\ described' = described \ {m}
      /\ linked' = {l \in linked : MediaOf[l] # m}
      /\ alive' = alive \ {m}
      /\ SetAdmin(a, s)
      /\ UNCHANGED <<origin, bound, files>>
  BY DEF RemoveCatalogMedia
<1>6. s \in AdminStates
  BY <1>2, <1>3 DEF AdminStates, ReceiptRows
<1>7. s.at = "cleaning" /\ s.medium = m /\ s.read = r /\ s.cover = r.cover
  OBVIOUS
<1> HIDE DEF s, r
<1>8. /\ acceptor' \in [Acceptors -> AcceptorStates]
      /\ generator' \in [Generators -> GeneratorStates]
      /\ admin' \in [Admins -> AdminStates]
      /\ admin'[a] = s
      /\ \A b \in Admins \ {a} : admin'[b] = admin[b]
  BY <1>5, <1>6, OneAdmin DEF RemovalIInv
<1>9. receipts'[m] = r /\ \A n \in Media \ {m} : receipts'[n] = receipts[n]
  BY <1>2, <1>5 DEF RemovalIInv, RemovalTypeOK
<1>10. receipts[m] = Nothing
  BY <1>2 DEF RemovalIInv, RemovalTypeOK
<1>11. RemovalTypeOK'
  <2>1. receipts' \in [Media -> ReceiptRows \union {Nothing}]
        /\ \A n \in Media : receipts'[n] # Nothing <=> n \notin alive'
    BY <1>2, <1>3, <1>4, <1>5, <1>9 DEF RemovalIInv, RemovalTypeOK
  <2>2. covers' \in [Media -> CoverRows \union {Nothing}]
        /\ \A n \in Media \ alive' : covers'[n] = Nothing
    BY <1>2, <1>5 DEF RemovalIInv, RemovalTypeOK
  <2>3. linked' \subseteq Locations /\ \A l \in linked' : MediaOf[l] \in alive'
    BY <1>5 DEF RemovalIInv, RemovalTypeOK
  <2> QED
    BY <1>2, <1>5, <1>8, <2>1, <2>2, <2>3 DEF RemovalIInv, RemovalTypeOK, files
<1>12. StaysGone
  <2> SUFFICES ASSUME NEW n \in Media, receipts[n] # Nothing PROVE KeepsGone(n)
    BY DEF StaysGone
  <2>1. receipts'[n] = receipts[n]
    BY <1>9, <1>10
  <2> QED
    BY <1>5, <2>1 DEF KeepsGone, ArtifactsGone, ThumbnailGone, PreviewsGone, files
<1>13. ASSUME NEW n \in Media PROVE ReceiptFits(n)'
  <2>1. CASE n = m
    BY <1>3, <1>9, <2>1 DEF ReceiptFits
  <2>2. CASE n # m
    BY <1>9, <1>12, <2>2 DEF RemovalIInv, ReceiptFits, StaysGone, KeepsGone
  <2> QED
    BY <2>1, <2>2
<1>14. ASSUME NEW b \in Admins PROVE AdminFits(admin[b])'
  <2>1. CASE b = a
    <3>1. admin'[b] = s /\ receipts'[s.medium] = r
      BY <1>7, <1>8, <1>9, <2>1
    <3> QED
      BY <1>3, <1>4, <1>7, <3>1 DEF AdminFits
  <2>2. CASE b # a
    <3>1. PICK k \in AdminStates : k = admin[b]
      BY DEF RemovalIInv, RemovalTypeOK
    <3>2. AdminFits(k)'
      BY <1>12, <3>1, AdminGoesOn DEF RemovalIInv
    <3> QED
      BY <1>8, <2>2, <3>1, <3>2 DEF AdminFits
  <2> QED
    BY <2>1, <2>2
<1> QED
  BY <1>11, <1>13, <1>14 DEF RemovalIInv

(* A cleanup is at work on a medium whose receipt it has read.               *)
LEMMA AtWork ==
    ASSUME RemovalIInv, NEW a \in Admins, admin[a].at \in Cleaning
    PROVE  /\ admin[a].medium \in Media /\ admin[a].read \in ReceiptRows
           /\ admin[a].cover \in Outcomes
           /\ receipts[admin[a].medium] # Nothing
           /\ admin[a].medium \notin alive
           /\ AdminFits(admin[a])
<1>1. admin[a] \in AdminStates
  BY DEF RemovalIInv, RemovalTypeOK
<1>2. /\ admin[a].medium \in Media /\ admin[a].read \in ReceiptRows
      /\ admin[a].cover \in Outcomes
  BY <1>1, AdminShape DEF Cleaning
<1>3. AdminFits(admin[a]) /\ receipts[admin[a].medium] # Nothing
  BY DEF RemovalIInv, AdminFits
<1> QED
  BY <1>2, <1>3 DEF RemovalIInv, RemovalTypeOK

(* Files that go do not come back.                                           *)
LEMMA FewerFiles ==
    ASSUME RemovalTypeOK, UNCHANGED <<database, source, late>>,
           artifacts' \subseteq artifacts, thumbnails' \subseteq thumbnails,
           previews' \subseteq previews,
           NEW a \in Admins, NEW s \in AdminStates, SetAdmin(a, s)
    PROVE  RemovalTypeOK' /\ StaysGone /\ receipts' = receipts
<1>1. RemovalTypeOK'
  BY OneAdmin DEF RemovalTypeOK, database
<1>2. StaysGone
  BY DEF StaysGone, KeepsGone, ArtifactsGone, ThumbnailGone, PreviewsGone, database
<1> QED
  BY <1>1, <1>2 DEF database

LEMMA RemoveTreeKeeps ==
    ASSUME RemovalIInv, NEW a \in Admins, RemoveTree(a)
    PROVE  RemovalIInv'
<1>1. admin[a].at = "cleaning"
  BY DEF RemoveTree, AdminAt
<1>0. PICK m \in Media : m = admin[a].medium
  BY <1>1, AtWork DEF Cleaning
<1> DEFINE mine == {f \in artifacts : f[1] = m}
<1>2. /\ m \in Media /\ admin[a].read \in ReceiptRows /\ admin[a].cover \in Outcomes
      /\ receipts[m] # Nothing /\ AdminFits(admin[a])
  BY <1>0, <1>1, AtWork DEF Cleaning
<1>3. admin[a] \in [at : {"cleaning", "thumbnail", "previews"}, medium : Media,
                    read : ReceiptRows, cover : Outcomes]
  BY <1>1, AdminShape DEF RemovalIInv, RemovalTypeOK
<1>4. UNCHANGED <<database, source, thumbnails, previews, late>> /\ artifacts' \subseteq artifacts
  BY DEF RemoveTree
<1>5. CASE artifacts' = artifacts \ mine /\ SetAdmin(a, [admin[a] EXCEPT !.at = "thumbnail"])
           /\ Unfinished(admin[a].cover)
  <2>1. PICK s \in AdminStates : s = [admin[a] EXCEPT !.at = "thumbnail"]
    BY <1>3 DEF AdminStates
  <2>2. /\ s.at = "thumbnail" /\ s.medium = m /\ s.read = admin[a].read
        /\ s.cover = admin[a].cover /\ s.cover # "complete"
    BY <1>0, <1>3, <1>5, <2>1 DEF Unfinished
  <2>3. RemovalTypeOK' /\ StaysGone /\ receipts' = receipts
    BY <1>4, <1>5, <2>1, FewerFiles DEF RemovalIInv
  <2>4. KeepsGone(m)
    BY <1>2, <2>3 DEF StaysGone
  <2>5. ArtifactsGone(m)'
    BY <1>5 DEF ArtifactsGone
  <2>6. AdminFits(s)'
    BY <1>0, <1>1, <1>2, <2>2, <2>3, <2>4, <2>5 DEF AdminFits, KeepsGone, Cleaning
  <2> QED
    BY <1>5, <2>1, <2>3, <2>6, AdminStep
<1>6. ASSUME NEW outcome \in Outcomes,
             outcome = "complete" => admin[a].cover = "complete",
             SetAdmin(a, [admin[a] EXCEPT !.at = "previews", !.cover = outcome])
      PROVE  RemovalIInv'
  <2>1. PICK s \in AdminStates : s = [admin[a] EXCEPT !.at = "previews", !.cover = outcome]
    BY <1>3 DEF AdminStates
  <2>2. /\ s.at = "previews" /\ s.medium = m /\ s.read = admin[a].read
        /\ s.cover = outcome
    BY <1>0, <1>3, <2>1
  <2>3. RemovalTypeOK' /\ StaysGone /\ receipts' = receipts
    BY <1>4, <1>6, <2>1, FewerFiles DEF RemovalIInv
  <2>4. KeepsGone(m)
    BY <1>2, <2>3 DEF StaysGone
  <2>5. AdminFits(s)'
    BY <1>0, <1>1, <1>2, <1>6, <2>2, <2>3, <2>4 DEF AdminFits, KeepsGone, Cleaning
  <2> QED
    BY <1>6, <2>1, <2>3, <2>5, AdminStep
<1>7. CASE SetAdmin(a, [admin[a] EXCEPT !.at = "previews", !.cover = "failed"])
  BY <1>6, <1>7 DEF Outcomes
<1>8. CASE SetAdmin(a, [admin[a] EXCEPT !.at = "previews"])
  <2>1. [admin[a] EXCEPT !.at = "previews"]
           = [admin[a] EXCEPT !.at = "previews", !.cover = admin[a].cover]
    BY <1>3
  <2> QED
    BY <1>2, <1>6, <1>8, <2>1
<1> QED
  BY <1>0, <1>3, <1>5, <1>7, <1>8 DEF RemoveTree, AfterError

LEMMA RemoveThumbnailKeeps ==
    ASSUME RemovalIInv, NEW a \in Admins, RemoveThumbnail(a)
    PROVE  RemovalIInv'
<1>1. admin[a].at = "thumbnail"
  BY DEF RemoveThumbnail, AdminAt
<1>0. PICK m \in Media : m = admin[a].medium
  BY <1>1, AtWork DEF Cleaning
<1>2. /\ m \in Media /\ receipts[m] # Nothing /\ AdminFits(admin[a])
  BY <1>0, <1>1, AtWork DEF Cleaning
<1>3. admin[a] \in [at : {"cleaning", "thumbnail", "previews"}, medium : Media,
                    read : ReceiptRows, cover : Outcomes]
  BY <1>1, AdminShape DEF RemovalIInv, RemovalTypeOK
<1>4. UNCHANGED <<database, source, artifacts, previews, late>> /\ thumbnails' \subseteq thumbnails
  BY DEF RemoveThumbnail
<1>5. PICK outcome \in {"complete", "failed"} :
         /\ SetAdmin(a, [admin[a] EXCEPT !.at = "previews", !.cover = outcome])
         /\ outcome = "complete" =>
               thumbnails' = thumbnails \ {<<m, admin[a].read.frame>>}
  BY <1>0, <1>3 DEF RemoveThumbnail, AfterError
<1>6. PICK s \in AdminStates : s = [admin[a] EXCEPT !.at = "previews", !.cover = outcome]
  BY <1>3 DEF AdminStates, Outcomes
<1>7. s.at = "previews" /\ s.medium = m /\ s.read = admin[a].read /\ s.cover = outcome
  BY <1>0, <1>3, <1>6
<1>8. RemovalTypeOK' /\ StaysGone /\ receipts' = receipts
  BY <1>4, <1>5, <1>6, FewerFiles DEF RemovalIInv
<1>9. KeepsGone(m)
  BY <1>2, <1>8 DEF StaysGone
<1>10. ArtifactsGone(m)' /\ admin[a].read.frame = receipts[m].frame
  BY <1>0, <1>1, <1>2, <1>9 DEF AdminFits, KeepsGone, Cleaning
<1>11. outcome = "complete" => ThumbnailGone(m)'
  BY <1>5, <1>8, <1>10 DEF ThumbnailGone
<1>12. AdminFits(s)'
  BY <1>0, <1>1, <1>2, <1>7, <1>8, <1>9, <1>10, <1>11 DEF AdminFits, KeepsGone, Cleaning
<1> QED
  BY <1>5, <1>6, <1>8, <1>12, AdminStep

LEMMA CleanupPreviewsKeeps ==
    ASSUME RemovalIInv, NEW a \in Admins, CleanupPreviews(a)
    PROVE  RemovalIInv'
<1>1. admin[a].at = "previews"
  BY DEF CleanupPreviews, AdminAt
<1>0. PICK m \in Media : m = admin[a].medium
  BY <1>1, AtWork DEF Cleaning
<1>2. /\ m \in Media /\ admin[a].read \in ReceiptRows /\ admin[a].cover \in Outcomes
      /\ receipts[m] # Nothing /\ AdminFits(admin[a])
  BY <1>0, <1>1, AtWork DEF Cleaning
<1>3. admin[a].read.preview \in Outcomes
  BY <1>2 DEF ReceiptRows
<1>4. UNCHANGED <<database, source, artifacts, thumbnails, late>> /\ previews' \subseteq previews
  BY DEF CleanupPreviews
<1>5. PICK outcome \in Outcomes :
         /\ SetAdmin(a, [at |-> "saving", medium |-> m, read |-> admin[a].read,
                         cover |-> admin[a].cover, preview |-> outcome])
         /\ outcome = "complete" =>
               \/ previews' = previews \ {p \in previews : p.location \in admin[a].read.locations}
               \/ admin[a].read.preview = "complete"
  BY <1>0, <1>3 DEF CleanupPreviews, AfterError, Outcomes
<1>6. PICK s \in AdminStates :
         s = [at |-> "saving", medium |-> m, read |-> admin[a].read,
              cover |-> admin[a].cover, preview |-> outcome]
  BY <1>2 DEF AdminStates
<1>7. s.at = "saving" /\ s.medium = m /\ s.read = admin[a].read /\ s.cover = admin[a].cover
      /\ s.preview = outcome
  BY <1>6
<1>8. RemovalTypeOK' /\ StaysGone /\ receipts' = receipts
  BY <1>4, <1>5, <1>6, FewerFiles DEF RemovalIInv
<1>9. KeepsGone(m)
  BY <1>2, <1>8 DEF StaysGone
<1>10. outcome = "complete" => PreviewsGone(m)'
  <2>1. CASE previews' = previews \ {p \in previews : p.location \in admin[a].read.locations}
    BY <1>0, <1>1, <1>2, <1>8, <2>1 DEF AdminFits, PreviewsGone, Cleaning
  <2>2. CASE admin[a].read.preview = "complete"
    BY <1>0, <1>1, <1>2, <1>9, <2>2 DEF AdminFits, KeepsGone, Cleaning
  <2> QED
    BY <1>5, <2>1, <2>2
<1>11. AdminFits(s)'
  BY <1>0, <1>1, <1>2, <1>7, <1>8, <1>9, <1>10 DEF AdminFits, KeepsGone, Cleaning
<1> QED
  BY <1>5, <1>6, <1>8, <1>11, AdminStep

(* The outcomes are written whatever the receipt says by then: what they     *)
(* claim was established, and has stayed so.                                 *)
LEMMA UpdateCleanupStatesKeeps ==
    ASSUME RemovalIInv, NEW a \in Admins, UpdateCleanupStates(a)
    PROVE  RemovalIInv'
<1>1. admin[a].at = "saving"
  BY DEF UpdateCleanupStates, AdminAt
<1>0. PICK m \in Media : m = admin[a].medium
  BY <1>1, AtWork DEF Cleaning
<1>2. /\ m \in Media /\ receipts[m] # Nothing /\ AdminFits(admin[a])
      /\ receipts[m] \in ReceiptRows
  BY <1>0, <1>1, AtWork DEF Cleaning, RemovalIInv, RemovalTypeOK
<1>3. admin[a].cover \in Outcomes /\ admin[a].preview \in Outcomes
  BY <1>1, AdminShape DEF RemovalIInv, RemovalTypeOK
<1>13. PICK r \in ReceiptRows :
         r = [receipts[m] EXCEPT !.cover = admin[a].cover, !.preview = admin[a].preview]
  BY <1>2, <1>3 DEF ReceiptRows
<1>4. /\ r \in ReceiptRows /\ r.frame = receipts[m].frame /\ r.locations = receipts[m].locations
      /\ r.cover = admin[a].cover /\ r.preview = admin[a].preview
  BY <1>2, <1>3, <1>13 DEF ReceiptRows
<1>5. r # Nothing
  BY <1>4, RowsAreSomething
<1>6. /\ receipts' = receipts \/ receipts' = [receipts EXCEPT ![m] = r]
      /\ SetAdmin(a, Idle)
      /\ UNCHANGED <<alive, linked, origin, detached, publications, described, bound, covers, files>>
  <2>1. [receipts EXCEPT ![m].cover = admin[a].cover, ![m].preview = admin[a].preview]
           = [receipts EXCEPT ![m] = r]
    BY <1>2, <1>13 DEF RemovalIInv, RemovalTypeOK, ReceiptRows
  <2> QED
    BY <1>0, <2>1 DEF UpdateCleanupStates
<1>7. \A n \in Media : receipts'[n] = receipts[n] \/ (n = m /\ receipts'[n] = r)
  BY <1>2, <1>6 DEF RemovalIInv, RemovalTypeOK
<1>8. /\ acceptor' \in [Acceptors -> AcceptorStates]
      /\ generator' \in [Generators -> GeneratorStates]
      /\ admin' \in [Admins -> AdminStates]
      /\ admin'[a] = Idle
      /\ \A b \in Admins \ {a} : admin'[b] = admin[b]
  <2>1. Idle \in AdminStates
    BY DEF AdminStates
  <2> QED
    BY <1>6, <2>1, OneAdmin DEF RemovalIInv
<1>9. RemovalTypeOK'
  <2>1. receipts' \in [Media -> ReceiptRows \union {Nothing}]
        /\ \A n \in Media : receipts'[n] # Nothing <=> n \notin alive
    BY <1>2, <1>4, <1>5, <1>6, <1>7 DEF RemovalIInv, RemovalTypeOK
  <2> QED
    BY <1>6, <1>8, <2>1 DEF RemovalIInv, RemovalTypeOK, files
<1>10. StaysGone
  BY <1>4, <1>5, <1>6, <1>7 DEF StaysGone, KeepsGone, ArtifactsGone, ThumbnailGone, PreviewsGone,
     files
<1>11. ASSUME NEW n \in Media PROVE ReceiptFits(n)'
  <2>1. CASE receipts'[n] = receipts[n]
    BY <1>10, <2>1 DEF RemovalIInv, ReceiptFits, StaysGone, KeepsGone
  <2>2. CASE n = m /\ receipts'[n] = r
    <3>1. KeepsGone(m) /\ ReceiptFits(m)
      BY <1>2, <1>10 DEF StaysGone, RemovalIInv
    <3> QED
      BY <1>0, <1>1, <1>2, <1>4, <2>2, <3>1 DEF ReceiptFits, KeepsGone, AdminFits, Cleaning
  <2> QED
    BY <1>7, <2>1, <2>2
<1>12. ASSUME NEW b \in Admins PROVE AdminFits(admin[b])'
  <2>1. CASE b = a
    BY <1>8, <2>1 DEF AdminFits, Idle, Cleaning
  <2>2. CASE b # a
    <3>1. PICK k \in AdminStates : k = admin[b]
      BY DEF RemovalIInv, RemovalTypeOK
    <3>2. AdminFits(k)'
      BY <1>10, <3>1, AdminGoesOn DEF RemovalIInv
    <3> QED
      BY <1>8, <2>2, <3>1, <3>2 DEF AdminFits
  <2> QED
    BY <2>1, <2>2
<1> QED
  BY <1>9, <1>11, <1>12 DEF RemovalIInv

-----------------------------------------------------------------------------
LEMMA RemovalNextIInv ==
    RemovalIInv /\ [RemovalNext]_removalVars => RemovalIInv'
<1> SUFFICES ASSUME RemovalIInv, [RemovalNext]_removalVars PROVE RemovalIInv'
  OBVIOUS
<1>0. RemovalTypeOK
  BY DEF RemovalIInv
<1>1. ASSUME NEW a \in Acceptors, Covering(a) PROVE RemovalIInv'
  <2>1. RemovalTypeOK' /\ StaysGone /\ admin' = admin
    BY <1>0, <1>1, CoverPageSteps, PublishArtifactKeeps, PublishThumbnailKeeps, SetCoverKeeps, SMTT(40)
       DEF Covering
  <2>2. receipts' = receipts
    BY <1>1 DEF Covering, OpenCoverPage, RegenerateThumbnail, BeginAccept, ExtractFrame,
       ProbeAgain, ReadArtifact, PublishArtifact, PublishThumbnail, SetCover, database
  <2> QED
    BY <2>1, <2>2, WithoutReceipt
<1>2. ASSUME NEW g \in Generators, Previewing(g) PROVE RemovalIInv'
  <2>1. RemovalTypeOK' /\ StaysGone /\ admin' = admin
    BY <1>2, PreviewingKeeps
  <2>2. receipts' = receipts
    BY <1>2 DEF Previewing, BeginPreview, PrepareFrame, PublishPreview, database
  <2> QED
    BY <2>1, <2>2, WithoutReceipt
<1>3. ASSUME NEW a \in Admins, Removing(a) PROVE RemovalIInv'
  BY <1>3, PreviewKeeps, RetryCleanupKeeps, RefuseKeeps, RemoveKeeps, RemoveTreeKeeps,
     RemoveThumbnailKeeps, CleanupPreviewsKeeps, UpdateCleanupStatesKeeps DEF Removing
<1>4. ASSUME \/ \E l \in Locations : ReplaceFile(l) \/ FindLocation(l)
             \/ \E m \in Media : PublishMedium(m) \/ SaveMetadata(m) \/ BindRecord(m)
             \/ UNCHANGED removalVars
      PROVE  RemovalIInv'
  <2>1. RemovalTypeOK' /\ StaysGone /\ admin' = admin
    BY <1>0, <1>4, SurroundingsKeep
  <2>2. receipts' = receipts
    BY <1>4 DEF ReplaceFile, FindLocation, PublishMedium, SaveMetadata, BindRecord, removalVars, database
  <2> QED
    BY <2>1, <2>2, WithoutReceipt
<1>5. CASE Stop
  <2>1. /\ RemovalTypeOK' /\ StaysGone
        /\ \A a \in Admins : admin'[a] = Idle \/ admin'[a] = admin[a]
    BY <1>0, <1>5, StopKeeps
  <2>2. receipts' = receipts
    BY <1>5 DEF Stop, database
  <2>3. \A a \in Admins : admin'[a] = Idle => AdminFits(admin[a])'
    BY DEF AdminFits, Idle, Cleaning
  <2> QED
    BY <2>1, <2>2, <2>3, WithoutReceipt
<1> QED
  BY <1>1, <1>2, <1>3, <1>4, <1>5 DEF RemovalNext

(* The inductive invariant of the removal holds throughout.                  *)
THEOREM RemovalInvariant == RemovalSpec => []RemovalIInv
<1> QED
  BY RemovalInitIInv, RemovalNextIInv, PTL DEF RemovalSpec

(* Rows, files and requests keep their types, and a medium that was removed  *)
(* is gone from every table but the receipts (remove_catalog_media).         *)
THEOREM RemovalTypeCorrect == RemovalSpec => []RemovalTypeOK
<1>1. RemovalIInv => RemovalTypeOK
  BY DEF RemovalIInv
<1> QED
  BY <1>1, RemovalInvariant, PTL

(* A receipt that says complete is true, for any number of media, locations, *)
(* administrators and authors: cleanups may overlap, fail half way and       *)
(* overwrite each other's outcome (CatalogMediaRemovalService._run_cleanup,  *)
(* update_cleanup_states).                                                   *)
THEOREM CompleteAlwaysMeansGone == RemovalSpec => []CompleteMeansGone
<1>1. RemovalIInv => CompleteMeansGone
  BY DEF RemovalIInv, ReceiptFits, ArtifactsGone, ThumbnailGone, PreviewsGone, CompleteMeansGone
<1> QED
  BY <1>1, RemovalInvariant, PTL

-----------------------------------------------------------------------------
(* Images and what they are of.  Of a file one reads its version first and   *)
(* its content later; only the second probe of a cover closes the gap, and   *)
(* the key of a preview never is ahead of what the preview shows.            *)

AcceptorFits(s) ==
    /\ s.at \in {"chosen", "probed"} => s.version <= source[s.location]
    /\ s.at = "extracted" => s.version <= s.frame.version /\ s.frame.version <= source[s.location]
    /\ s.at \in {"encoded", "published"} => s.frame.version = s.version
    /\ s.at = "published" /\ MediaOf[s.location] \in alive =>
          <<MediaOf[s.location], s.frame>> \in artifacts

GeneratorFits(s) ==
    /\ s.at = "keyed" => s.key <= source[s.location]
    /\ s.at = "prepared" => s.key <= s.shown /\ s.shown <= source[s.location]

PreviewFits(p) == p.key <= p.shown /\ p.shown <= source[p.location]

CoverFits(m) ==
    covers[m] # Nothing => covers[m].frame.version = covers[m].version
                           /\ <<m, covers[m].frame>> \in artifacts

ImagesFit ==
    /\ \A a \in Acceptors : AcceptorFits(acceptor[a])
    /\ \A g \in Generators : GeneratorFits(generator[g])
    /\ \A p \in previews : PreviewFits(p)
    /\ \A m \in Media : CoverFits(m)

LEMMA ImagesInit == RemovalInit => ImagesFit
  BY DEF RemovalInit, ImagesFit, AcceptorFits, GeneratorFits, CoverFits, Idle

(* Versions only grow, and the artifacts of a medium go only after it; what  *)
(* did not move in a step still fits.                                        *)
LEMMA ImagesGoOn ==
    ASSUME RemovalTypeOK, RemovalTypeOK', ImagesFit, alive' \subseteq alive,
           \A l \in Locations : source[l] <= source'[l],
           \A f \in artifacts : f[1] \in alive' => f \in artifacts',
           \A a \in Acceptors : acceptor'[a] = acceptor[a] \/ AcceptorFits(acceptor[a])',
           \A g \in Generators : generator'[g] = generator[g] \/ GeneratorFits(generator[g])',
           \A p \in previews' : p \in previews \/ PreviewFits(p)',
           \A m \in Media : covers'[m] = covers[m] \/ CoverFits(m)'
    PROVE  ImagesFit'
<1>0. \A l \in Locations : source[l] \in Nat /\ source'[l] \in Nat
  BY RemovalAssumption DEF RemovalTypeOK, Versions
<1>1. ASSUME NEW a \in Acceptors, acceptor'[a] = acceptor[a] PROVE AcceptorFits(acceptor[a])'
  <2>1. PICK s \in AcceptorStates : s = acceptor[a]
    BY DEF RemovalTypeOK
  <2>2. s.at \in {"chosen", "probed"} => s.location \in Locations /\ s.version \in Nat
    BY AcceptorShape, RemovalAssumption DEF Versions
  <2>3. s.at = "extracted" =>
           s.location \in Locations /\ s.version \in Nat /\ s.frame.version \in Nat
    BY AcceptorShape, RemovalAssumption DEF Versions, Frames
  <2>4. AcceptorFits(s)
    BY <2>1 DEF ImagesFit
  <2>5. s.at \in {"chosen", "probed"} => s.version <= source'[s.location]
    BY <1>0, <2>2, <2>4 DEF AcceptorFits
  <2>6. s.at = "extracted" => s.version <= s.frame.version /\ s.frame.version <= source'[s.location]
    BY <1>0, <2>3, <2>4 DEF AcceptorFits
  <2>7. s.at = "published" /\ MediaOf[s.location] \in alive' =>
           <<MediaOf[s.location], s.frame>> \in artifacts'
    BY <2>4 DEF AcceptorFits
  <2>8. s.at \in {"encoded", "published"} => s.frame.version = s.version
    BY <2>4 DEF AcceptorFits
  <2>9. acceptor'[a] = s
    BY <1>1, <2>1
  <2> QED
    BY <2>5, <2>6, <2>7, <2>8, <2>9 DEF AcceptorFits
<1>2. ASSUME NEW g \in Generators, generator'[g] = generator[g] PROVE GeneratorFits(generator[g])'
  <2>1. PICK s \in GeneratorStates : s = generator[g]
    BY DEF RemovalTypeOK
  <2>2. s.at = "keyed" => s.location \in Locations /\ s.key \in Nat
    BY GeneratorShape, RemovalAssumption DEF Versions
  <2>3. s.at = "prepared" => s.location \in Locations /\ s.key \in Nat /\ s.shown \in Nat
    BY GeneratorShape, RemovalAssumption DEF Versions
  <2>4. GeneratorFits(s)
    BY <2>1 DEF ImagesFit
  <2>5. /\ s.at = "keyed" => s.key <= source'[s.location]
        /\ s.at = "prepared" => s.key <= s.shown /\ s.shown <= source'[s.location]
    BY <1>0, <2>2, <2>3, <2>4 DEF GeneratorFits
  <2>6. generator'[g] = s
    BY <1>2, <2>1
  <2> QED
    BY <2>5, <2>6 DEF GeneratorFits
<1>3. ASSUME NEW p \in previews PROVE PreviewFits(p)'
  <2>1. p.location \in Locations /\ p.shown \in Nat
    BY RemovalAssumption DEF RemovalTypeOK, Versions
  <2>2. PreviewFits(p)
    BY DEF ImagesFit
  <2> QED
    BY <1>0, <2>1, <2>2 DEF PreviewFits
<1>4. ASSUME NEW m \in Media, covers'[m] = covers[m], covers[m] # Nothing
      PROVE  covers[m].frame.version = covers[m].version /\ <<m, covers[m].frame>> \in artifacts'
  <2>1. m \in alive'
    BY <1>4 DEF RemovalTypeOK
  <2>2. <<m, covers[m].frame>> \in artifacts /\ covers[m].frame.version = covers[m].version
    BY <1>4 DEF ImagesFit, CoverFits
  <2> QED
    BY <2>1, <2>2
<1> QED
  BY <1>1, <1>2, <1>3, <1>4 DEF ImagesFit, CoverFits

(* An acceptor leaves alone what is not its own.                             *)
LEMMA AcceptorStep ==
    ASSUME RemovalTypeOK, RemovalTypeOK', ImagesFit, NEW a \in Acceptors, NEW s \in AcceptorStates,
           SetAcceptor(a, s), AcceptorFits(s)', UNCHANGED <<alive, source, previews>>,
           artifacts \subseteq artifacts',
           \A m \in Media : covers'[m] = covers[m] \/ CoverFits(m)'
    PROVE  ImagesFit'
<1>1. acceptor'[a] = s /\ \A b \in Acceptors \ {a} : acceptor'[b] = acceptor[b]
  BY DEF SetAcceptor, RemovalTypeOK
<1>2. AcceptorFits(acceptor[a])'
  BY <1>1 DEF AcceptorFits
<1>3. \A b \in Acceptors : acceptor'[b] = acceptor[b] \/ AcceptorFits(acceptor[b])'
  BY <1>1, <1>2
<1>4. generator' = generator
  BY DEF SetAcceptor
<1>5. \A l \in Locations : source[l] <= source'[l]
  BY RemovalAssumption DEF RemovalTypeOK, Versions
<1> QED
  BY <1>3, <1>4, <1>5, ImagesGoOn

(* The second probe is what the accepted cover rests on: it finds the version*)
(* of the first, so the frame cut between them has it as well.               *)
LEMMA CoveringImages ==
    ASSUME RemovalTypeOK, RemovalTypeOK', ImagesFit, NEW a \in Acceptors, Covering(a)
    PROVE  ImagesFit'
<1>0. /\ acceptor[a] \in AcceptorStates /\ source \in [Locations -> Versions]
      /\ Idle \in AcceptorStates /\ AcceptorFits(acceptor[a]) /\ AcceptorFits(Idle)'
  BY DEF RemovalTypeOK, ImagesFit, AcceptorStates, AcceptorFits, Idle
<1>1. ASSUME NEW s \in AcceptorStates, SetAcceptor(a, s), AcceptorFits(s)',
             UNCHANGED <<alive, covers, source, artifacts, previews>>
      PROVE  ImagesFit'
  BY <1>1, AcceptorStep
<1>2. ASSUME NEW l \in Locations, OpenCoverPage(a, l) PROVE ImagesFit'
  <2>1. (IF covers[MediaOf[l]] = Nothing THEN 0 ELSE covers[MediaOf[l]].revision) \in 0..MaxRevision
    BY RemovalAssumption DEF CoverRows, RemovalTypeOK
  <2>2. PICK s \in AcceptorStates :
           s = [at |-> "chosen", location |-> l, version |-> source[l],
                revision |-> IF covers[MediaOf[l]] = Nothing THEN 0 ELSE covers[MediaOf[l]].revision]
    BY <1>0, <2>1 DEF AcceptorStates
  <2>3. SetAcceptor(a, s) /\ UNCHANGED <<database, files>>
    BY <1>2, <2>2 DEF OpenCoverPage
  <2>4. source[l] <= source[l]
    BY <1>0, RemovalAssumption DEF Versions
  <2>5. AcceptorFits(s)'
    BY <2>2, <2>3, <2>4 DEF AcceptorFits, files
  <2> QED
    BY <1>1, <2>3, <2>5 DEF database, files
<1>3. ASSUME NEW l \in Locations, RegenerateThumbnail(a, l) PROVE ImagesFit'
  <2>1. covers[MediaOf[l]] \in CoverRows
    BY <1>3, RemovalAssumption DEF RegenerateThumbnail, RemovalTypeOK
  <2>0. covers[MediaOf[l]].revision \in 0..MaxRevision
    BY <2>1, RemovalAssumption DEF CoverRows
  <2>2. PICK s \in AcceptorStates :
           s = [at |-> "accepted", location |-> l, version |-> covers[MediaOf[l]].version,
                revision |-> covers[MediaOf[l]].revision, frame |-> covers[MediaOf[l]].frame]
    BY <2>0, <2>1 DEF AcceptorStates, CoverRows
  <2>3. SetAcceptor(a, s) /\ UNCHANGED <<database, files>> /\ s.at = "accepted"
    BY <1>3, <2>2 DEF RegenerateThumbnail
  <2>4. AcceptorFits(s)'
    BY <2>3 DEF AcceptorFits
  <2> QED
    BY <1>1, <2>3, <2>4 DEF database, files
<1>4. CASE BeginAccept(a)
  <2>1. acceptor[a] \in [at : {"chosen", "probed"}, location : Locations, version : Versions,
                         revision : 0..MaxRevision]
    BY <1>0, <1>4, AcceptorShape DEF BeginAccept, AcceptorAt
  <2>2. PICK s \in AcceptorStates : s = [acceptor[a] EXCEPT !.at = "probed"]
    BY <2>1 DEF AcceptorStates
  <2>3. s.at = "probed" /\ s.location = acceptor[a].location /\ s.version = acceptor[a].version
    BY <2>1, <2>2
  <2>4. UNCHANGED <<database, files>> /\ (SetAcceptor(a, s) \/ SetAcceptor(a, Idle))
    BY <1>4, <2>2 DEF BeginAccept
  <2>5. AcceptorFits(s)'
    BY <1>0, <1>4, <2>3, <2>4 DEF AcceptorFits, BeginAccept, AcceptorAt, files
  <2> QED
    BY <1>0, <1>1, <2>4, <2>5 DEF database, files
<1>5. CASE ExtractFrame(a)
  <2> DEFINE l == acceptor[a].location
  <2>1. acceptor[a] \in [at : {"chosen", "probed"}, location : Locations, version : Versions,
                         revision : 0..MaxRevision] /\ acceptor[a].at = "probed"
    BY <1>0, <1>5, AcceptorShape DEF ExtractFrame, AcceptorAt
  <2>2. PICK f \in Frames : f = [location |-> l, version |-> source[l]]
    BY <1>0, <2>1 DEF Frames
  <2>3. PICK s \in AcceptorStates :
           s = [at |-> "extracted", location |-> l, version |-> acceptor[a].version,
                revision |-> acceptor[a].revision, frame |-> f]
    BY <2>1, <2>2 DEF AcceptorStates
  <2>4. SetAcceptor(a, s) /\ UNCHANGED <<database, files>>
    BY <1>5, <2>2, <2>3 DEF ExtractFrame
  <2>5. acceptor[a].version <= source[l] /\ source[l] \in Nat
    BY <1>0, <2>1, RemovalAssumption DEF AcceptorFits, Versions
  <2>6. AcceptorFits(s)'
    BY <2>2, <2>3, <2>4, <2>5 DEF AcceptorFits, files
  <2> QED
    BY <1>1, <2>4, <2>6 DEF database, files
<1>6. CASE ProbeAgain(a)
  <2>1. acceptor[a] \in [at : {"extracted", "encoded", "published", "accepted", "thumbnail"},
                         location : Locations, version : Versions, revision : 0..MaxRevision,
                         frame : Frames] /\ acceptor[a].at = "extracted"
    BY <1>0, <1>6, AcceptorShape DEF ProbeAgain, AcceptorAt
  <2>2. PICK s \in AcceptorStates : s = [acceptor[a] EXCEPT !.at = "encoded"]
    BY <2>1 DEF AcceptorStates
  <2>3. s.at = "encoded" /\ s.version = acceptor[a].version /\ s.frame = acceptor[a].frame
    BY <2>1, <2>2
  <2>4. /\ UNCHANGED <<database, files>>
        /\ \/ SetAcceptor(a, Idle)
           \/ SetAcceptor(a, s) /\ source[acceptor[a].location] = acceptor[a].version
    BY <1>6, <2>2 DEF ProbeAgain, UnchangedByExtraction, EnsureSourceVersion
  <2>5. ASSUME source[acceptor[a].location] = acceptor[a].version PROVE AcceptorFits(s)'
    <3>1. acceptor[a].version \in Nat /\ acceptor[a].frame.version \in Nat
      BY <2>1, RemovalAssumption DEF Frames, Versions
    <3>2. s.frame.version = s.version
      BY <1>0, <2>1, <2>3, <2>5, <3>1 DEF AcceptorFits
    <3> QED
      BY <2>3, <3>2 DEF AcceptorFits
  <2> QED
    BY <1>0, <1>1, <2>4, <2>5 DEF database, files
<1>7. CASE PublishArtifact(a)
  <2>1. acceptor[a] \in [at : {"extracted", "encoded", "published", "accepted", "thumbnail"},
                         location : Locations, version : Versions, revision : 0..MaxRevision,
                         frame : Frames] /\ acceptor[a].at = "encoded"
    BY <1>0, <1>7, AcceptorShape DEF PublishArtifact, AcceptorAt
  <2>2. PICK s \in AcceptorStates : s = [acceptor[a] EXCEPT !.at = "published"]
    BY <2>1 DEF AcceptorStates
  <2>3. s.at = "published" /\ s.version = acceptor[a].version /\ s.frame = acceptor[a].frame
        /\ s.location = acceptor[a].location
    BY <2>1, <2>2
  <2>4. /\ artifacts' = artifacts \union {<<MediaOf[acceptor[a].location], acceptor[a].frame>>}
        /\ SetAcceptor(a, s) /\ UNCHANGED <<database, source, previews>>
    BY <1>7, <2>2 DEF PublishArtifact, NoClobberPublish
  <2>5. AcceptorFits(s)'
    BY <1>0, <2>1, <2>3, <2>4 DEF AcceptorFits
  <2> QED
    BY <2>4, <2>5, AcceptorStep DEF database
<1>8. CASE SetCover(a)
  <2> DEFINE m == MediaOf[acceptor[a].location]
             new == [frame |-> acceptor[a].frame, version |-> acceptor[a].version,
                     revision |-> (IF covers[m] = Nothing THEN 0 ELSE covers[m].revision) + 1]
  <2>1. acceptor[a] \in [at : {"extracted", "encoded", "published", "accepted", "thumbnail"},
                         location : Locations, version : Versions, revision : 0..MaxRevision,
                         frame : Frames] /\ acceptor[a].at = "published"
    BY <1>0, <1>8, AcceptorShape DEF SetCover, AcceptorAt
  <2>2. PICK s \in AcceptorStates : s = [acceptor[a] EXCEPT !.at = "accepted"]
    BY <2>1 DEF AcceptorStates
  <2>3. s.at = "accepted"
    BY <2>1, <2>2
  <2>4. /\ UNCHANGED <<alive, files>> /\ (SetAcceptor(a, s) \/ SetAcceptor(a, Idle))
        /\ covers' = covers \/ (m \in alive /\ covers' = [covers EXCEPT ![m] = new])
    BY <1>8, <2>2 DEF SetCover
  <2>5. AcceptorFits(s)'
    BY <2>3 DEF AcceptorFits
  <2>6. new.frame = acceptor[a].frame /\ new.version = acceptor[a].version
    OBVIOUS
  <2> HIDE DEF new
  <2>7. ASSUME NEW n \in Media, covers'[n] # covers[n] PROVE CoverFits(n)'
    <3>1. n = m /\ m \in alive /\ covers'[n] = new
      BY <2>4, <2>7 DEF RemovalTypeOK
    <3>2. acceptor[a].frame.version = acceptor[a].version /\ <<m, acceptor[a].frame>> \in artifacts
      BY <1>0, <2>1, <3>1 DEF AcceptorFits
    <3> QED
      BY <2>4, <2>6, <3>1, <3>2 DEF CoverFits, files
  <2> QED
    BY <1>0, <2>4, <2>5, <2>7, AcceptorStep DEF files
<1>9. CASE ReadArtifact(a) \/ PublishThumbnail(a)
  <2>1. acceptor[a] \in [at : {"extracted", "encoded", "published", "accepted", "thumbnail"},
                         location : Locations, version : Versions, revision : 0..MaxRevision,
                         frame : Frames]
    BY <1>0, <1>9, AcceptorShape DEF ReadArtifact, PublishThumbnail, AcceptorAt
  <2>2. PICK s \in AcceptorStates : s = [acceptor[a] EXCEPT !.at = "thumbnail"]
    BY <2>1 DEF AcceptorStates
  <2>3. s.at = "thumbnail"
    BY <2>1, <2>2
  <2>4. /\ UNCHANGED <<database, source, artifacts, previews>>
        /\ (SetAcceptor(a, s) \/ SetAcceptor(a, Idle))
    BY <1>9, <2>2 DEF ReadArtifact, PublishThumbnail, files
  <2>5. AcceptorFits(s)'
    BY <2>3 DEF AcceptorFits
  <2> QED
    BY <1>0, <1>1, <2>4, <2>5 DEF database
<1> QED
  BY <1>2, <1>3, <1>4, <1>5, <1>6, <1>7, <1>8, <1>9 DEF Covering

LEMMA PreviewingImages ==
    ASSUME RemovalTypeOK, RemovalTypeOK', ImagesFit, NEW g \in Generators, Previewing(g)
    PROVE  ImagesFit'
<1>0. /\ generator[g] \in GeneratorStates /\ source \in [Locations -> Versions]
      /\ GeneratorFits(generator[g]) /\ \A l \in Locations : source[l] \in Nat
  BY RemovalAssumption DEF RemovalTypeOK, ImagesFit, Versions
<1>1. ASSUME NEW s, SetGenerator(g, s), GeneratorFits(s)', UNCHANGED <<database, source, artifacts>>,
             \A p \in previews' : p \in previews \/ PreviewFits(p)'
      PROVE  ImagesFit'
  <2>1. generator'[g] = s /\ \A b \in Generators \ {g} : generator'[b] = generator[b]
    BY <1>1 DEF SetGenerator, RemovalTypeOK
  <2>2. \A b \in Generators : generator'[b] = generator[b] \/ GeneratorFits(generator[b])'
    BY <1>1, <2>1 DEF GeneratorFits
  <2>3. acceptor' = acceptor /\ alive' = alive /\ covers' = covers
        /\ \A l \in Locations : source[l] <= source'[l]
    BY <1>0, <1>1 DEF SetGenerator, database
  <2> QED
    BY <1>1, <2>2, <2>3, ImagesGoOn
<1>2. ASSUME NEW l \in Locations, BeginPreview(g, l) PROVE ImagesFit'
  <2>1. PICK s \in GeneratorStates : s = [at |-> "keyed", location |-> l, key |-> source[l]]
    BY <1>0 DEF GeneratorStates
  <2>2. SetGenerator(g, s) /\ UNCHANGED <<database, files>>
    BY <1>2, <2>1 DEF BeginPreview
  <2>3. GeneratorFits(s)'
    BY <1>0, <2>1, <2>2 DEF GeneratorFits, files
  <2> QED
    BY <1>1, <2>2, <2>3 DEF files
<1>3. CASE PrepareFrame(g)
  <2>1. generator[g] \in [at : {"keyed"}, location : Locations, key : Versions]
    BY <1>0, <1>3, GeneratorShape DEF PrepareFrame, GeneratorAt
  <2>2. PICK l \in Locations : l = generator[g].location
    BY <2>1
  <2>3. PICK s \in GeneratorStates :
           s = [at |-> "prepared", location |-> l, key |-> generator[g].key, shown |-> source[l]]
    BY <1>0, <2>1 DEF GeneratorStates
  <2>4. SetGenerator(g, s) /\ UNCHANGED <<database, files>>
    BY <1>3, <2>2, <2>3 DEF PrepareFrame
  <2>5. generator[g].key <= source[l]
    BY <1>0, <2>1, <2>2 DEF GeneratorFits
  <2>6. GeneratorFits(s)'
    BY <1>0, <2>3, <2>4, <2>5 DEF GeneratorFits, files
  <2> QED
    BY <1>1, <2>4, <2>6 DEF files
<1>4. CASE PublishPreview(g)
  <2>1. generator[g].at = "prepared"
    BY <1>4 DEF PublishPreview, GeneratorAt
  <2>2. PICK new : new = [location |-> generator[g].location, key |-> generator[g].key,
                          shown |-> generator[g].shown]
    OBVIOUS
  <2>3. /\ SetGenerator(g, Idle) /\ UNCHANGED <<database, source, artifacts>>
        /\ \A p \in previews' : p \in previews \/ p = new
    BY <1>4, <2>2 DEF PublishPreview, CacheKey
  <2>4. PreviewFits(new)'
    BY <1>0, <2>1, <2>2, <2>3 DEF GeneratorFits, PreviewFits
  <2>5. GeneratorFits(Idle)'
    BY DEF GeneratorFits, Idle
  <2> QED
    BY <1>1, <2>3, <2>4, <2>5
<1> QED
  BY <1>2, <1>3, <1>4 DEF Previewing

(* A cleanup takes the artifacts of a medium only once its receipt is there. *)
LEMMA RemovingImages ==
    ASSUME RemovalIInv, RemovalTypeOK', ImagesFit, NEW a \in Admins, Removing(a)
    PROVE  ImagesFit'
<1>0. RemovalTypeOK
  BY DEF RemovalIInv
<1>1. /\ UNCHANGED <<acceptor, generator, source>>
      /\ alive' \subseteq alive /\ previews' \subseteq previews
      /\ \A m \in Media : covers'[m] = covers[m] \/ covers'[m] = Nothing
  BY <1>0 DEF Removing, Preview, RetryCleanup, Refuse, RemoveCatalogMedia, RemoveTree,
     RemoveThumbnail, CleanupPreviews, UpdateCleanupStates, SetAdmin, database, files, RemovalTypeOK
<1>2. \A f \in artifacts : f[1] \in alive' => f \in artifacts'
  <2>1. CASE RemoveTree(a)
    <3>1. admin[a].medium \notin alive
      BY <2>1, AtWork DEF RemoveTree, AdminAt, Cleaning
    <3> QED
      BY <1>1, <2>1, <3>1 DEF RemoveTree
  <2>2. CASE ~RemoveTree(a)
    BY <2>2 DEF Removing, Preview, RetryCleanup, Refuse, RemoveCatalogMedia, RemoveThumbnail,
       CleanupPreviews, UpdateCleanupStates, database, files
  <2> QED
    BY <2>1, <2>2
<1>3. \A l \in Locations : source[l] <= source'[l]
  BY <1>0, <1>1, RemovalAssumption DEF RemovalTypeOK, Versions
<1>4. \A m \in Media : covers'[m] = covers[m] \/ CoverFits(m)'
  BY <1>1 DEF CoverFits
<1> QED
  BY <1>0, <1>1, <1>2, <1>3, <1>4, ImagesGoOn

LEMMA ImagesNext ==
    RemovalIInv /\ RemovalTypeOK' /\ ImagesFit /\ [RemovalNext]_removalVars => ImagesFit'
<1> SUFFICES ASSUME RemovalIInv, RemovalTypeOK', ImagesFit, [RemovalNext]_removalVars PROVE ImagesFit'
  OBVIOUS
<1>0. RemovalTypeOK
  BY DEF RemovalIInv
<1>1. ASSUME \/ \E l \in Locations : ReplaceFile(l) \/ FindLocation(l)
             \/ \E m \in Media : PublishMedium(m) \/ SaveMetadata(m) \/ BindRecord(m)
             \/ UNCHANGED removalVars \/ Stop
      PROVE  ImagesFit'
  <2>1. /\ UNCHANGED <<alive, covers, artifacts, previews>>
        /\ \A a \in Acceptors : acceptor'[a] = acceptor[a] \/ acceptor'[a] = Idle
        /\ \A g \in Generators : generator'[g] = generator[g] \/ generator'[g] = Idle
    BY <1>1 DEF ReplaceFile, FindLocation, PublishMedium, SaveMetadata, BindRecord, Stop, removalVars,
       database, files, requests
  <2>2. \A l \in Locations : source[l] <= source'[l]
    <3>1. \A l \in Locations : source'[l] = source[l] \/ source'[l] = source[l] + 1
      BY <1>0, <1>1 DEF ReplaceFile, FindLocation, PublishMedium, SaveMetadata, BindRecord, Stop,
         removalVars, files, RemovalTypeOK
    <3> QED
      BY <1>0, <3>1, RemovalAssumption DEF RemovalTypeOK, Versions
  <2>3. \A a \in Acceptors : acceptor'[a] = acceptor[a] \/ AcceptorFits(acceptor[a])'
    BY <2>1 DEF AcceptorFits, Idle
  <2>4. \A g \in Generators : generator'[g] = generator[g] \/ GeneratorFits(generator[g])'
    BY <2>1 DEF GeneratorFits, Idle
  <2> QED
    BY <1>0, <2>1, <2>2, <2>3, <2>4, ImagesGoOn
<1> QED
  BY <1>0, <1>1, CoveringImages, PreviewingImages, RemovingImages DEF RemovalNext

(* An accepted cover has its artifact, cut from the version it names, and    *)
(* the preview under the key of a file shows that file, for any number of    *)
(* files, versions and requests that overlap with removals and stops         *)
(* (CoverService.accept, GalleryPreviewService.generate_one).                *)
THEOREM ImagesAreAlwaysOfTheirSource == RemovalSpec => []ImagesAreOfTheirSource
<1>1. RemovalIInv /\ [RemovalNext]_removalVars => RemovalTypeOK'
  BY RemovalNextIInv DEF RemovalIInv
<1>2. RemovalTypeOK /\ ImagesFit => ImagesAreOfTheirSource
  <2> SUFFICES ASSUME RemovalTypeOK, ImagesFit PROVE ImagesAreOfTheirSource
    OBVIOUS
  <2>1. ASSUME NEW p \in previews, p.key = source[p.location] PROVE p.shown = p.key
    <3>1. p.key \in Nat /\ p.shown \in Nat /\ PreviewFits(p)
      BY RemovalAssumption DEF RemovalTypeOK, ImagesFit, Versions
    <3> QED
      BY <2>1, <3>1 DEF PreviewFits
  <2> QED
    BY <2>1 DEF ImagesFit, CoverFits, ImagesAreOfTheirSource
<1>3. RemovalIInv => RemovalTypeOK
  BY DEF RemovalIInv
<1> QED
  BY <1>1, <1>2, <1>3, ImagesInit, ImagesNext, RemovalInvariant, PTL DEF RemovalSpec
=============================================================================
