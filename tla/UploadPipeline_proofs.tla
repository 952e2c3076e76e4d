------------------------- MODULE UploadPipeline_proofs -------------------------
(******************************************************************************)
(* Proofs about the upload pipeline, for any number of sessions, contents and  *)
(* faults.  The runs' invariants are not inductive; IInv is.                   *)
(******************************************************************************)
EXTENDS UploadPipeline, TLAPS

(* The steps that belong to each coordinator.                               *)
StepsOf(w) ==
    CASE w = "validation"  -> {"examining", "recording"}
      [] w = "publication" -> {"reserving", "looking", "opening", "copying", "flushing",
                               "linking", "confirming", "unlinking", "committing",
                               "cleaning", "marking"}
      [] w = "catalog"     -> {"cataloging"}

(* A coordinator is at a step of its own exactly while it holds a lease, the *)
(* leased session is off its page, and no session is leased twice.           *)
Exclusive ==
    /\ \A w \in Workers :
          /\ worker[w].pc \in {"scanning"} \cup StepsOf(w)
          /\ worker[w].pc = "scanning" <=> worker[w].on = None
          /\ worker[w].on \notin worker[w].page
    /\ \A v, w \in Workers :
          worker[v].on = worker[w].on /\ worker[v].on # None => v = w

(* How far the publication row of a session has got, by its upload row.      *)
RowFits(s) ==
    LET p == publication[s] IN
    /\ upload[s].state \notin Canonical => p = Unpublished
    /\ upload[s].state = "publish_pending" =>
          p.state \in {"none", "reserved"} /\ p.cleanup # "complete" /\ ~p.media
    /\ upload[s].state = "published" =>
          p.state = "verified" /\ p.cleanup \in {"pending", "complete"} /\ ~p.media
    /\ upload[s].state = "cataloged" =>
          p.state = "verified" /\ p.cleanup = "complete" /\ p.media

(* What quarantine and the published root hold for it.  A final name is only *)
(* ever given to flushed data.                                               *)
FilesFit(s) ==
    /\ upload[s].state \in {"receiving", "received", "validating", "duplicate_pending",
                            "publish_pending"} => staged[s] # "gone"
    /\ target[s].final # "absent" => target[s].data = "synced"
    /\ upload[s].state \in {"published", "cataloged"} =>
          target[s].final = "durable" \/ s \in adopted
    /\ publication[s].cleanup = "complete" => staged[s] = "gone"

(* What the publication coordinator has already brought about at each step.  *)
PublicationAt(s, pc) ==
    LET p == publication[s]
        t == target[s] IN
    /\ pc = "reserving" => upload[s].state = "publish_pending" /\ p.state = "none"
    /\ pc \in {"looking", "opening", "copying", "flushing", "linking", "confirming",
               "unlinking", "committing"} =>
          upload[s].state = "publish_pending" /\ p.state = "reserved"
    /\ pc \in {"opening", "copying", "flushing", "linking"} => t.final = "absent"
    /\ pc = "linking" => t.data = "synced"
    /\ pc = "confirming" => t.final = "volatile"
    /\ pc = "unlinking" => t.final = "durable"
    /\ pc = "committing" => t.final = "durable" \/ (t.final = "volatile" /\ s \in adopted)
    /\ pc \in {"cleaning", "marking"} =>
          upload[s].state = "published" /\ p.cleanup = "pending"
    /\ pc = "marking" => staged[s] = "gone"

(* Whoever holds or will take the session finds what it counts on: nobody    *)
(* else changes a row or a file that a lease or a page relies on.            *)
TasksFit(s) ==
    /\ worker["validation"].on = s => upload[s].state = "validating"
    /\ worker["publication"].on = s => PublicationAt(s, worker["publication"].pc)
    /\ s \in worker["publication"].page => PublicationDue(s)
    /\ worker["catalog"].on = s \/ s \in worker["catalog"].page => CatalogDue(s)

Sound(s) == RowFits(s) /\ FilesFit(s) /\ TasksFit(s)

IInv ==
    /\ TypeOK
    /\ Exclusive
    /\ \A s \in Sessions : Sound(s)
    /\ OneCanonical
    /\ DuplicateOfSomething

-----------------------------------------------------------------------------
(* How rows change.                                                          *)

(* The state column of one row.                                              *)
LEMMA StateIsSet ==
    ASSUME TypeOK, NEW s \in Sessions, NEW x \in States, SetState(s, x)
    PROVE  /\ upload' \in [Sessions -> Uploads]
           /\ upload'[s].state = x
           /\ upload'[s].disposition = upload[s].disposition
           /\ \A r \in Sessions \ {s} : upload'[r] = upload[r]
<1>1. upload \in [Sessions -> Uploads]
  BY DEF TypeOK
<1>2. upload' = [upload EXCEPT ![s] = [upload[s] EXCEPT !.state = x]]
  BY DEF SetState
<1>3. [upload[s] EXCEPT !.state = x] \in Uploads
  BY <1>1 DEF Uploads
<1> QED
  BY <1>1, <1>2, <1>3 DEF Uploads

(* State and disposition of one row.                                         *)
LEMMA DecisionIsSet ==
    ASSUME TypeOK, NEW s \in Sessions, NEW x \in States,
           NEW d \in {"none", "keep_separate", "discard"},
           upload' = [upload EXCEPT ![s].state = x, ![s].disposition = d]
    PROVE  /\ upload' \in [Sessions -> Uploads]
           /\ upload'[s].state = x /\ upload'[s].disposition = d
           /\ \A r \in Sessions \ {s} : upload'[r] = upload[r]
<1>1. upload \in [Sessions -> Uploads]
  BY DEF TypeOK
<1>2. upload' = [upload EXCEPT ![s] = [upload[s] EXCEPT !.state = x, !.disposition = d]]
  BY <1>1 DEF Uploads
<1>3. [upload[s] EXCEPT !.state = x, !.disposition = d] \in Uploads
  BY <1>1 DEF Uploads
<1> QED
  BY <1>1, <1>2, <1>3 DEF Uploads

-----------------------------------------------------------------------------
(* How coordinators move.                                                    *)

WorkerStates ==
    [pc : Steps, on : Sessions \cup {None}, page : SUBSET Sessions, retry : BOOLEAN]

(* A coordinator goes on with the session it holds.                          *)
LEMMA GotoMoves ==
    ASSUME TypeOK, Exclusive, NEW w \in Workers, NEW step \in StepsOf(w),
           worker[w].on # None, Goto(w, step)
    PROVE  /\ worker' \in [Workers -> WorkerStates]
           /\ Exclusive'
           /\ \A v \in Workers : worker'[v].on = worker[v].on /\ worker'[v].page = worker[v].page
           /\ worker'[w].pc = step
           /\ \A v \in Workers \ {w} : worker'[v] = worker[v]
<1>1. worker \in [Workers -> WorkerStates] /\ step \in Steps /\ step # "scanning"
  BY DEF TypeOK, WorkerStates, Steps, StepsOf, Workers
<1>2. worker' = [worker EXCEPT ![w] = [worker[w] EXCEPT !.pc = step]]
  BY DEF Goto
<1>3. [worker[w] EXCEPT !.pc = step] \in WorkerStates
  BY <1>1 DEF WorkerStates
<1>4. worker' \in [Workers -> WorkerStates]
  BY <1>1, <1>2, <1>3
<1>5. /\ \A v \in Workers : worker'[v].on = worker[v].on /\ worker'[v].page = worker[v].page
      /\ worker'[w].pc = step
      /\ \A v \in Workers \ {w} : worker'[v] = worker[v]
  BY <1>1, <1>2, <1>3 DEF WorkerStates
<1>6. Exclusive'
  BY <1>1, <1>5 DEF Exclusive
<1> QED
  BY <1>4, <1>5, <1>6

(* A coordinator lets go of its session, to try it again or not.             *)
Release(w, retry) ==
    worker' = [worker EXCEPT ![w] = [worker[w] EXCEPT !.pc = "scanning", !.on = None,
                                                      !.retry = retry]]

LEMMA ReleaseMoves ==
    ASSUME TypeOK, Exclusive, NEW w \in Workers, NEW retry \in BOOLEAN, Release(w, retry)
    PROVE  /\ worker' \in [Workers -> WorkerStates]
           /\ Exclusive'
           /\ worker'[w].on = None /\ worker'[w].page = worker[w].page
           /\ \A v \in Workers \ {w} : worker'[v] = worker[v]
<1>1. worker \in [Workers -> WorkerStates] /\ "scanning" \in Steps
  BY DEF TypeOK, WorkerStates, Steps
<1> DEFINE new == [worker[w] EXCEPT !.pc = "scanning", !.on = None, !.retry = retry]
<1>2. new \in WorkerStates /\ new.pc = "scanning" /\ new.on = None /\ new.page = worker[w].page
  BY <1>1 DEF WorkerStates
<1>3. worker' = [worker EXCEPT ![w] = new]
  BY DEF Release
<1> HIDE DEF new
<1>4. worker' \in [Workers -> WorkerStates]
  BY <1>1, <1>2, <1>3
<1>5. /\ worker'[w] = new
      /\ \A v \in Workers \ {w} : worker'[v] = worker[v]
  BY <1>1, <1>3
<1>6. None \notin worker[w].page
  BY <1>1, PipelineAssumption DEF WorkerStates
<1>7. Exclusive'
  BY <1>1, <1>2, <1>5, <1>6 DEF Exclusive
<1> QED
  BY <1>2, <1>4, <1>5, <1>7

LEMMA DoneIsRelease ==
    ASSUME TypeOK, NEW w \in Workers, Done(w)
    PROVE  Release(w, worker[w].retry) /\ worker[w].retry \in BOOLEAN
<1>1. worker[w] \in WorkerStates /\ worker \in [Workers -> WorkerStates]
  BY DEF TypeOK, WorkerStates
<1>2. [worker[w] EXCEPT !.pc = "scanning", !.on = None]
        = [worker[w] EXCEPT !.pc = "scanning", !.on = None, !.retry = worker[w].retry]
  BY <1>1 DEF WorkerStates
<1>3. worker' = [worker EXCEPT ![w] = [worker[w] EXCEPT !.pc = "scanning", !.on = None]]
  BY <1>1 DEF Done, WorkerStates
<1> QED
  BY <1>1, <1>2, <1>3 DEF Release, WorkerStates

(* A coordinator takes the lease of a session of its page.                   *)
LEMMA TakesMoves ==
    ASSUME TypeOK, Exclusive, NEW w \in Workers, NEW s \in Sessions, NEW step \in StepsOf(w),
           Leases(w, s), Takes(w, s, step)
    PROVE  /\ worker' \in [Workers -> WorkerStates]
           /\ Exclusive'
           /\ worker'[w].on = s /\ worker'[w].pc = step
           /\ worker'[w].page = worker[w].page \ {s}
           /\ \A v \in Workers \ {w} : worker'[v] = worker[v]
<1>1. /\ worker \in [Workers -> WorkerStates] /\ step \in Steps /\ step # "scanning"
      /\ s # None
  BY PipelineAssumption DEF TypeOK, WorkerStates, Steps, StepsOf, Workers
<1> DEFINE new == [worker[w] EXCEPT !.pc = step, !.on = s, !.page = worker[w].page \ {s}]
<1>2. new \in WorkerStates /\ new.pc = step /\ new.on = s /\ new.page = worker[w].page \ {s}
  BY <1>1 DEF WorkerStates
<1>3. worker' = [worker EXCEPT ![w] = new]
  BY <1>1 DEF Takes, WorkerStates
<1> HIDE DEF new
<1>4. worker' \in [Workers -> WorkerStates]
  BY <1>1, <1>2, <1>3
<1>5. /\ worker'[w] = new
      /\ \A v \in Workers \ {w} : worker'[v] = worker[v]
  BY <1>1, <1>3
<1>6. \A v \in Workers : worker[v].on # s
  BY DEF Leases, Free
<1>7. Exclusive'
  BY <1>1, <1>2, <1>5, <1>6 DEF Exclusive
<1> QED
  BY <1>2, <1>4, <1>5, <1>7

(* A coordinator passes over a session of its page.                          *)
LEMMA DropsMoves ==
    ASSUME TypeOK, Exclusive, NEW w \in Workers, NEW s \in Sessions, Drops(w, s)
    PROVE  /\ worker' \in [Workers -> WorkerStates]
           /\ Exclusive'
           /\ worker'[w].on = worker[w].on /\ worker'[w].pc = worker[w].pc
           /\ worker'[w].page = worker[w].page \ {s}
           /\ \A v \in Workers \ {w} : worker'[v] = worker[v]
<1>1. worker \in [Workers -> WorkerStates]
  BY DEF TypeOK, WorkerStates
<1> DEFINE new == [worker[w] EXCEPT !.page = worker[w].page \ {s}]
<1>2. /\ new \in WorkerStates /\ new.pc = worker[w].pc /\ new.on = worker[w].on
      /\ new.page = worker[w].page \ {s}
  BY <1>1 DEF WorkerStates
<1>3. worker' = [worker EXCEPT ![w] = new]
  BY <1>1 DEF Drops, WorkerStates
<1> HIDE DEF new
<1>4. worker' \in [Workers -> WorkerStates]
  BY <1>1, <1>2, <1>3
<1>5. /\ worker'[w] = new
      /\ \A v \in Workers \ {w} : worker'[v] = worker[v]
  BY <1>1, <1>3
<1>6. Exclusive'
  BY <1>1, <1>2, <1>5 DEF Exclusive
<1> QED
  BY <1>2, <1>4, <1>5, <1>6

-----------------------------------------------------------------------------
(* What one step may do to the sessions it is not about, and to the claims   *)
(* that sessions have on their bytes.                                        *)

(* The step leaves session r to whoever has it, or lets go of it.            *)
LeavesAlone(r) ==
    /\ upload'[r] = upload[r]
    /\ publication'[r] = publication[r]
    /\ staged'[r] = staged[r]
    /\ target'[r] = target[r]
    /\ r \in adopted => r \in adopted'
    /\ \A w \in Workers :
          /\ worker'[w].on = r => worker[w].on = r /\ worker'[w].pc = worker[w].pc
          /\ r \in worker'[w].page => r \in worker[w].page

LEMMA Frame ==
    ASSUME NEW r \in Sessions, Sound(r), LeavesAlone(r)
    PROVE  Sound(r)'
<1>1. RowFits(r)'
  BY DEF Sound, RowFits, LeavesAlone
<1>2. FilesFit(r)'
  BY DEF Sound, FilesFit, LeavesAlone
<1>3. TasksFit(r)'
  <2>0. "validation" \in Workers /\ "publication" \in Workers /\ "catalog" \in Workers
    BY DEF Workers
  <2>1. worker'["validation"].on = r => upload'[r].state = "validating"
    BY <2>0 DEF Sound, TasksFit, LeavesAlone
  <2>2. ASSUME worker'["publication"].on = r
        PROVE  PublicationAt(r, worker["publication"].pc)'
    <3>1. worker["publication"].on = r /\ worker'["publication"].pc = worker["publication"].pc
      BY <2>0, <2>2 DEF LeavesAlone
    <3>2. PublicationAt(r, worker["publication"].pc)
      BY <3>1 DEF Sound, TasksFit
    <3> QED
      BY <3>1, <3>2 DEF PublicationAt, LeavesAlone
  <2>3. r \in worker'["publication"].page => PublicationDue(r)'
    BY <2>0 DEF Sound, TasksFit, LeavesAlone, PublicationDue
  <2>4. worker'["catalog"].on = r \/ r \in worker'["catalog"].page => CatalogDue(r)'
    BY <2>0 DEF Sound, TasksFit, LeavesAlone, CatalogDue
  <2> QED
    BY <2>1, <2>2, <2>3, <2>4 DEF TasksFit
<1> QED
  BY <1>1, <1>2, <1>3 DEF Sound

(* The session keeps the claim it has on its bytes, and makes a new one only *)
(* separately; nobody asks about it, or gives it up, who did not before.     *)
ClaimsNothingNew(r) ==
    /\ upload[r].state \in Canonical => upload'[r].state \in Canonical
    /\ upload'[r].state \in Canonical =>
          \/ upload'[r].disposition = "keep_separate"
          \/ upload[r].state \in Canonical /\ upload'[r].disposition = upload[r].disposition
    /\ upload'[r].state = "duplicate_pending" \/ upload'[r].disposition = "discard" =>
          upload[r].state = "duplicate_pending" \/ upload[r].disposition = "discard"

LEMMA ClaimsAreKept ==
    ASSUME OneCanonical, DuplicateOfSomething,
           \A r \in Sessions : ClaimsNothingNew(r)
    PROVE  OneCanonical' /\ DuplicateOfSomething'
<1>1. OneCanonical'
  <2> SUFFICES ASSUME NEW s \in Sessions, NEW t \in Sessions, s # t, Content[s] = Content[t],
                      upload'[s].state \in Canonical, upload'[t].state \in Canonical,
                      upload'[s].disposition # "keep_separate",
                      upload'[t].disposition # "keep_separate"
               PROVE  FALSE
    BY DEF OneCanonical
  <2>1. /\ upload[s].state \in Canonical /\ upload[s].disposition # "keep_separate"
        /\ upload[t].state \in Canonical /\ upload[t].disposition # "keep_separate"
    BY DEF ClaimsNothingNew
  <2> QED
    BY <2>1 DEF OneCanonical
<1>2. DuplicateOfSomething'
  <2> SUFFICES ASSUME NEW s \in Sessions,
                      upload'[s].state = "duplicate_pending" \/ upload'[s].disposition = "discard"
               PROVE  \E t \in Sessions \ {s} :
                         Content[t] = Content[s] /\ upload'[t].state \in Canonical
    BY DEF DuplicateOfSomething
  <2>1. upload[s].state = "duplicate_pending" \/ upload[s].disposition = "discard"
    BY DEF ClaimsNothingNew
  <2>2. PICK t \in Sessions \ {s} : Content[t] = Content[s] /\ upload[t].state \in Canonical
    BY <2>1 DEF DuplicateOfSomething
  <2> QED
    BY <2>2 DEF ClaimsNothingNew
<1> QED
  BY <1>1, <1>2

(* A step about one session preserves the invariant if it leaves the others  *)
(* alone, what it does to this one is sound, and its claims are.             *)
LEMMA OneSession ==
    ASSUME IInv, NEW s \in Sessions, TypeOK', Exclusive', Sound(s)',
           \/ ClaimsNothingNew(s)
           \/ OneCanonical' /\ DuplicateOfSomething',
           \A r \in Sessions \ {s} : LeavesAlone(r)
    PROVE  IInv'
<1>1. \A r \in Sessions : Sound(r)'
  BY Frame DEF IInv
<1>2. \A r \in Sessions \ {s} : ClaimsNothingNew(r)
  BY DEF ClaimsNothingNew, LeavesAlone
<1>3. OneCanonical' /\ DuplicateOfSomething'
  BY <1>2, ClaimsAreKept DEF IInv
<1> QED
  BY <1>1, <1>3 DEF IInv

-----------------------------------------------------------------------------

(* Every session starts with its first byte, everything else at rest.        *)
LEMMA InitIInv == Init => IInv
<1> SUFFICES ASSUME Init PROVE IInv
  OBVIOUS
<1>1. TypeOK
  BY DEF Init, TypeOK, Uploads, States, Publications, Unpublished, Targets, Untouched, Resting,
         Steps, Workers
<1>2. Exclusive
  BY PipelineAssumption DEF Init, Exclusive, Resting
<1>3. ASSUME NEW s \in Sessions PROVE Sound(s)
  <2>1. upload[s].state = "receiving" /\ publication[s] = Unpublished /\ staged[s] = "whole"
        /\ target[s] = Untouched
    BY DEF Init
  <2>2. \A w \in Workers : worker[w].on # s /\ worker[w].page = {}
    BY PipelineAssumption DEF Init, Resting
  <2>3. "validation" \in Workers /\ "publication" \in Workers /\ "catalog" \in Workers
    BY DEF Workers
  <2>4. RowFits(s)
    BY <2>1 DEF RowFits, Canonical
  <2>5. FilesFit(s)
    BY <2>1 DEF FilesFit, Untouched, Unpublished
  <2>6. TasksFit(s)
    BY <2>2, <2>3 DEF TasksFit
  <2> QED
    BY <2>4, <2>5, <2>6 DEF Sound
<1>4. OneCanonical /\ DuplicateOfSomething
  BY DEF Init, OneCanonical, DuplicateOfSomething, Canonical
<1> QED
  BY <1>1, <1>2, <1>3, <1>4 DEF IInv

-----------------------------------------------------------------------------
(* The three ways a step can be about a session.                             *)

(* TypeOK but for the coordinators, which the lemmas on their moves type.    *)
RecordsTyped ==
    /\ upload \in [Sessions -> Uploads]
    /\ publication \in [Sessions -> Publications]
    /\ staged \in [Sessions -> {"whole", "damaged", "gone"}]
    /\ target \in [Sessions -> Targets]
    /\ wake \subseteq Workers
    /\ startup \in BOOLEAN
    /\ adopted \subseteq Sessions
    /\ calm \in BOOLEAN

(* Rows and files of the other sessions stay what they are.                  *)
OthersKept(s) ==
    \A r \in Sessions \ {s} :
        /\ upload'[r] = upload[r]
        /\ publication'[r] = publication[r]
        /\ staged'[r] = staged[r]
        /\ target'[r] = target[r]
        /\ r \in adopted => r \in adopted'

(* Whoever holds a session is alone with it: it is not even on a page of     *)
(* those that rely on their pages.                                           *)
LEMMA HolderIsAlone ==
    ASSUME IInv, NEW s \in Sessions, NEW w \in Workers, worker[w].on = s
    PROVE  /\ \A v \in Workers \ {w} : worker[v].on # s
           /\ s \notin worker["publication"].page
           /\ s \notin worker["catalog"].page
<1>1. \A v \in Workers \ {w} : worker[v].on # s
  BY PipelineAssumption DEF IInv, Exclusive
<1>2. s \notin worker[w].page /\ worker[w].pc \in StepsOf(w)
  BY PipelineAssumption DEF IInv, Exclusive
<1>3. TasksFit(s)
  BY DEF IInv, Sound
<1>4. CASE w = "validation"
  BY <1>1, <1>3, <1>4 DEF TasksFit, PublicationDue, CatalogDue
<1>5. CASE w = "publication"
  <2>1. CatalogDue(s) => FALSE
    BY <1>2, <1>3, <1>5 DEF TasksFit, PublicationAt, CatalogDue, StepsOf
  <2> QED
    BY <1>1, <1>2, <1>3, <1>5, <2>1 DEF TasksFit
<1>6. CASE w = "catalog"
  <2>1. CatalogDue(s) /\ s \notin worker["catalog"].page
    BY <1>2, <1>3, <1>6 DEF TasksFit
  <2>2. ~PublicationDue(s)
    BY <2>1 DEF PublicationDue, CatalogDue
  <2> QED
    BY <1>1, <1>3, <2>1, <2>2 DEF TasksFit
<1>7. w \in {"validation", "publication", "catalog"}
  BY DEF Workers
<1> QED
  BY <1>1, <1>4, <1>5, <1>6, <1>7

(* Its holder goes on with it.                                               *)
LEMMA HolderGoesOn ==
    ASSUME IInv, NEW s \in Sessions, NEW w \in Workers, worker[w].on = s,
           NEW step \in StepsOf(w), Goto(w, step),
           RecordsTyped', OthersKept(s), RowFits(s)', FilesFit(s)', ClaimsNothingNew(s),
           w = "validation" => upload'[s].state = "validating",
           w = "publication" => PublicationAt(s, step)',
           w = "catalog" => CatalogDue(s)'
    PROVE  IInv'
<1>1. /\ worker' \in [Workers -> WorkerStates]
      /\ Exclusive'
      /\ \A v \in Workers : worker'[v].on = worker[v].on /\ worker'[v].page = worker[v].page
      /\ worker'[w].pc = step
      /\ \A v \in Workers \ {w} : worker'[v] = worker[v]
  <2>1. worker[w].on # None /\ TypeOK /\ Exclusive
    BY PipelineAssumption DEF IInv
  <2> QED
    BY <2>1, GotoMoves
<1>2. TypeOK'
  BY <1>1 DEF TypeOK, RecordsTyped, WorkerStates
<1>3. \A r \in Sessions \ {s} : LeavesAlone(r)
  BY <1>1 DEF LeavesAlone, OthersKept
<1>4. /\ \A v \in Workers \ {w} : worker[v].on # s
      /\ s \notin worker["publication"].page
      /\ s \notin worker["catalog"].page
  BY HolderIsAlone
<1>5. "validation" \in Workers /\ "publication" \in Workers /\ "catalog" \in Workers
  BY DEF Workers
<1>6. TasksFit(s)'
  <2>1. worker'["validation"].on = s => upload'[s].state = "validating"
    BY <1>1, <1>4, <1>5
  <2>2. worker'["publication"].on = s =>
            w = "publication" /\ worker'["publication"].pc = step
    BY <1>1, <1>4, <1>5
  <2>3. worker'["publication"].on = s => PublicationAt(s, worker["publication"].pc)'
    BY <2>2 DEF PublicationAt
  <2>4. worker'["catalog"].on = s => CatalogDue(s)'
    BY <1>1, <1>4, <1>5
  <2> QED
    BY <1>1, <1>4, <1>5, <2>1, <2>3, <2>4 DEF TasksFit
<1> QED
  BY <1>1, <1>2, <1>3, <1>6, OneSession DEF Sound

(* Its holder is done with it, or failed.                                    *)
LEMMA HolderReleases ==
    ASSUME IInv, NEW s \in Sessions, NEW w \in Workers, worker[w].on = s,
           NEW retry \in BOOLEAN, Release(w, retry),
           RecordsTyped', OthersKept(s), RowFits(s)', FilesFit(s)',
           \/ ClaimsNothingNew(s)
           \/ OneCanonical' /\ DuplicateOfSomething'
    PROVE  IInv'
<1>1. /\ worker' \in [Workers -> WorkerStates]
      /\ Exclusive'
      /\ worker'[w].on = None /\ worker'[w].page = worker[w].page
      /\ \A v \in Workers \ {w} : worker'[v] = worker[v]
  BY ReleaseMoves DEF IInv
<1>2. TypeOK'
  BY <1>1 DEF TypeOK, RecordsTyped, WorkerStates
<1>3. \A r \in Sessions \ {s} : LeavesAlone(r)
  BY <1>1, PipelineAssumption DEF LeavesAlone, OthersKept
<1>4. /\ \A v \in Workers \ {w} : worker[v].on # s
      /\ s \notin worker["publication"].page
      /\ s \notin worker["catalog"].page
  BY HolderIsAlone
<1>5. \A v \in Workers : worker'[v].on # s /\ worker'[v].page = worker[v].page
  BY <1>1, <1>4, PipelineAssumption
<1>6. TasksFit(s)'
  BY <1>4, <1>5 DEF TasksFit, Workers
<1> QED
  BY <1>1, <1>2, <1>3, <1>6, OneSession DEF Sound

(* A request is made about a session that nobody holds.                      *)
LEMMA RequestIsMade ==
    ASSUME IInv, NEW s \in Sessions, Free(s), worker' = worker,
           RecordsTyped', OthersKept(s), RowFits(s)', FilesFit(s)', ClaimsNothingNew(s),
           PublicationDue(s) => PublicationDue(s)',
           CatalogDue(s) => CatalogDue(s)'
    PROVE  IInv'
<1>1. TypeOK'
  BY DEF IInv, TypeOK, RecordsTyped
<1>2. Exclusive'
  BY DEF IInv, Exclusive
<1>3. \A r \in Sessions \ {s} : LeavesAlone(r)
  BY DEF LeavesAlone, OthersKept
<1>4. TasksFit(s)'
  <2>1. TasksFit(s)
    BY DEF IInv, Sound
  <2> QED
    BY <2>1 DEF TasksFit, Free, Workers
<1> QED
  BY <1>1, <1>2, <1>3, <1>4, OneSession DEF Sound

(* A coordinator leases a session of its page.                               *)
LEMMA LeaseIsTaken ==
    ASSUME IInv, NEW s \in Sessions, NEW w \in Workers, NEW step \in StepsOf(w),
           Leases(w, s), Takes(w, s, step),
           RecordsTyped', OthersKept(s), RowFits(s)', FilesFit(s)', ClaimsNothingNew(s),
           PublicationDue(s) => PublicationDue(s)',
           CatalogDue(s) => CatalogDue(s)',
           w = "validation" => upload'[s].state = "validating",
           w = "publication" => PublicationAt(s, step)'
    PROVE  IInv'
<1>1. /\ worker' \in [Workers -> WorkerStates]
      /\ Exclusive'
      /\ worker'[w].on = s /\ worker'[w].pc = step
      /\ worker'[w].page = worker[w].page \ {s}
      /\ \A v \in Workers \ {w} : worker'[v] = worker[v]
  BY TakesMoves DEF IInv
<1>2. TypeOK'
  BY <1>1 DEF TypeOK, RecordsTyped, WorkerStates
<1>3. \A r \in Sessions \ {s} : LeavesAlone(r)
  BY <1>1 DEF LeavesAlone, OthersKept
<1>4. s \in worker[w].page /\ \A v \in Workers : worker[v].on # s
  BY DEF Leases, Free
<1>5. "validation" \in Workers /\ "publication" \in Workers /\ "catalog" \in Workers
  BY DEF Workers
<1>6. TasksFit(s)'
  <2>1. TasksFit(s)
    BY DEF IInv, Sound
  <2>2. worker'["validation"].on = s => upload'[s].state = "validating"
    BY <1>1, <1>4, <1>5
  <2>3. worker'["publication"].on = s =>
            w = "publication" /\ worker'["publication"].pc = step
    BY <1>1, <1>4, <1>5
  <2>4. worker'["publication"].on = s => PublicationAt(s, worker["publication"].pc)'
    BY <2>3 DEF PublicationAt
  <2>5. s \in worker'["publication"].page => PublicationDue(s)'
    BY <1>1, <1>5, <2>1 DEF TasksFit
  <2>6. worker'["catalog"].on = s \/ s \in worker'["catalog"].page => CatalogDue(s)'
    BY <1>1, <1>4, <1>5, <2>1 DEF TasksFit
  <2> QED
    BY <2>2, <2>4, <2>5, <2>6 DEF TasksFit
<1> QED
  BY <1>1, <1>2, <1>3, <1>6, OneSession DEF Sound

-----------------------------------------------------------------------------
(* Every action preserves the invariant.                                     *)

LEMMA Typed == IInv => TypeOK /\ RecordsTyped
BY DEF IInv, TypeOK, RecordsTyped

LEMMA MayRemoveTyped ==
    ASSUME TypeOK, NEW s \in Sessions, MayRemove(s)
    PROVE  /\ staged' \in [Sessions -> {"whole", "damaged", "gone"}]
           /\ \A r \in Sessions \ {s} : staged'[r] = staged[r]
           /\ staged'[s] = "gone" \/ staged'[s] = staged[s]
BY DEF TypeOK, MayRemove

LEMMA RequestPreserves ==
    ASSUME IInv, NEW s \in Sessions, Request(s)
    PROVE  IInv'
<1>0. /\ TypeOK /\ RecordsTyped
      /\ RowFits(s) /\ FilesFit(s)
  BY Typed DEF IInv, Sound
<1>1. ASSUME Complete(s) PROVE IInv'
  <2>1. /\ Free(s) /\ Requested /\ staged' = staged
        /\ upload[s].state \in {"receiving", "received"}
        /\ wake' = wake \/ wake' = wake \cup {"validation"}
    BY <1>1 DEF Complete
  <2>2. PICK x \in {"received", "failed"} :
            /\ SetState(s, x)
            /\ x = "received" => staged[s] = "whole"
    BY <1>1 DEF Complete
  <2>3. /\ upload' \in [Sessions -> Uploads]
        /\ upload'[s].state = x /\ upload'[s].disposition = upload[s].disposition
        /\ \A r \in Sessions \ {s} : upload'[r] = upload[r]
    BY <1>0, <2>2, StateIsSet DEF States
  <2>4. RecordsTyped' /\ OthersKept(s)
    BY <1>0, <2>1, <2>3 DEF RecordsTyped, OthersKept, Requested, Workers
  <2>5. RowFits(s)' /\ FilesFit(s)'
    BY <1>0, <2>1, <2>2, <2>3 DEF RowFits, FilesFit, Requested, Canonical, Unpublished
  <2>6. ClaimsNothingNew(s) /\ ~PublicationDue(s) /\ ~CatalogDue(s)
    BY <2>1, <2>2, <2>3 DEF ClaimsNothingNew, Canonical, PublicationDue, CatalogDue
  <2> QED
    BY <2>1, <2>4, <2>5, <2>6, RequestIsMade DEF Requested
<1>2. ASSUME Expire(s) PROVE IInv'
  <2>1. /\ Free(s) /\ Requested /\ staged' = staged /\ wake' = wake
        /\ upload[s].state \in {"receiving", "received", "duplicate_pending"}
        /\ SetState(s, "expired")
    BY <1>2 DEF Expire
  <2>2. /\ upload' \in [Sessions -> Uploads]
        /\ upload'[s].state = "expired" /\ upload'[s].disposition = upload[s].disposition
        /\ \A r \in Sessions \ {s} : upload'[r] = upload[r]
    BY <1>0, <2>1, StateIsSet DEF States
  <2>3. RecordsTyped' /\ OthersKept(s)
    BY <1>0, <2>1, <2>2 DEF RecordsTyped, OthersKept, Requested
  <2>4. RowFits(s)' /\ FilesFit(s)'
    BY <1>0, <2>1, <2>2 DEF RowFits, FilesFit, Requested, Canonical, Unpublished
  <2>5. ClaimsNothingNew(s) /\ ~PublicationDue(s) /\ ~CatalogDue(s)
    BY <2>1, <2>2 DEF ClaimsNothingNew, Canonical, PublicationDue, CatalogDue
  <2> QED
    BY <2>1, <2>3, <2>4, <2>5, RequestIsMade DEF Requested
<1>3. ASSUME Cancel(s) PROVE IInv'
  <2>1. /\ Free(s) /\ Requested /\ MayRemove(s) /\ wake' = wake
        /\ upload[s].state \in {"receiving", "received", "duplicate_pending", "cancelled"}
        /\ SetState(s, "cancelled")
    BY <1>3 DEF Cancel
  <2>2. /\ upload' \in [Sessions -> Uploads]
        /\ upload'[s].state = "cancelled" /\ upload'[s].disposition = upload[s].disposition
        /\ \A r \in Sessions \ {s} : upload'[r] = upload[r]
    BY <1>0, <2>1, StateIsSet DEF States
  <2>3. RecordsTyped' /\ OthersKept(s)
    BY <1>0, <2>1, <2>2, MayRemoveTyped DEF RecordsTyped, OthersKept, Requested
  <2>4. RowFits(s)' /\ FilesFit(s)'
    BY <1>0, <2>1, <2>2, MayRemoveTyped
       DEF RowFits, FilesFit, Requested, Canonical, Unpublished
  <2>5. ClaimsNothingNew(s) /\ ~PublicationDue(s) /\ ~CatalogDue(s)
    BY <2>1, <2>2 DEF ClaimsNothingNew, Canonical, PublicationDue, CatalogDue
  <2> QED
    BY <2>1, <2>3, <2>4, <2>5, RequestIsMade DEF Requested
<1>4. ASSUME KeepSeparate(s) PROVE IInv'
  <2>1. /\ Free(s) /\ Requested /\ staged' = staged /\ wake' = wake \cup {"publication"}
        /\ upload[s].state \in {"duplicate_pending", "publish_pending"}
        /\ upload' = [upload EXCEPT ![s].state = "publish_pending",
                                    ![s].disposition = "keep_separate"]
    BY <1>4, SMTT(60) DEF KeepSeparate
  <2>2. /\ upload' \in [Sessions -> Uploads]
        /\ upload'[s].state = "publish_pending" /\ upload'[s].disposition = "keep_separate"
        /\ \A r \in Sessions \ {s} : upload'[r] = upload[r]
    BY <1>0, <2>1, DecisionIsSet, ZenonT(60) DEF States
  <2>3. RecordsTyped' /\ OthersKept(s)
    BY <1>0, <2>1, <2>2 DEF RecordsTyped, OthersKept, Requested, Workers
  <2>4. RowFits(s)' /\ FilesFit(s)'
    BY <1>0, <2>1, <2>2 DEF RowFits, FilesFit, Requested, Canonical, Unpublished
  <2>5. ClaimsNothingNew(s) /\ PublicationDue(s)' /\ ~CatalogDue(s)
    BY <2>1, <2>2 DEF ClaimsNothingNew, Canonical, PublicationDue, CatalogDue
  <2> QED
    BY <2>1, <2>3, <2>4, <2>5, RequestIsMade DEF Requested
<1>5. ASSUME Discard(s) PROVE IInv'
  <2>1. /\ Free(s) /\ Requested /\ MayRemove(s) /\ wake' = wake
        /\ \/ upload[s].state = "duplicate_pending"
           \/ upload[s].state = "cancelled" /\ upload[s].disposition = "discard"
        /\ upload' = [upload EXCEPT ![s].state = "cancelled", ![s].disposition = "discard"]
    BY <1>5, SMTT(60) DEF Discard
  <2>2. /\ upload' \in [Sessions -> Uploads]
        /\ upload'[s].state = "cancelled" /\ upload'[s].disposition = "discard"
        /\ \A r \in Sessions \ {s} : upload'[r] = upload[r]
    BY <1>0, <2>1, DecisionIsSet, ZenonT(60) DEF States
  <2>3. RecordsTyped' /\ OthersKept(s)
    BY <1>0, <2>1, <2>2, MayRemoveTyped DEF RecordsTyped, OthersKept, Requested
  <2>4. RowFits(s)' /\ FilesFit(s)'
    BY <1>0, <2>1, <2>2, MayRemoveTyped
       DEF RowFits, FilesFit, Requested, Canonical, Unpublished
  <2>5. ClaimsNothingNew(s) /\ ~PublicationDue(s) /\ ~CatalogDue(s)
    BY <2>1, <2>2 DEF ClaimsNothingNew, Canonical, PublicationDue, CatalogDue
  <2> QED
    BY <2>1, <2>3, <2>4, <2>5, RequestIsMade DEF Requested
<1> QED
  BY <1>1, <1>2, <1>3, <1>4, <1>5 DEF Request

(* A coordinator passes over a session that changed since it was listed.     *)
LEMMA PassedOverPreserves ==
    ASSUME IInv, NEW s \in Sessions, Leases("validation", s), Drops("validation", s),
           upload' = upload, wake' = wake
    PROVE  IInv'
<1> "validation" \in Workers
  BY DEF Workers
<1>1. /\ worker' \in [Workers -> WorkerStates]
      /\ Exclusive'
      /\ worker'["validation"].on = worker["validation"].on
      /\ worker'["validation"].pc = worker["validation"].pc
      /\ worker'["validation"].page = worker["validation"].page \ {s}
      /\ \A v \in Workers \ {"validation"} : worker'[v] = worker[v]
  BY DropsMoves DEF IInv
<1>2. TypeOK'
  BY <1>1 DEF IInv, TypeOK, WorkerStates, Leases
<1>3. \A r \in Sessions : LeavesAlone(r) /\ ClaimsNothingNew(r)
  BY <1>1 DEF LeavesAlone, Leases, ClaimsNothingNew
<1>4. Sound(s)'
  BY <1>3, Frame DEF IInv
<1> QED
  BY <1>1, <1>2, <1>3, <1>4, OneSession

LEMMA LeaseValidationPreserves ==
    ASSUME IInv, NEW s \in Sessions, LeaseValidation(s)
    PROVE  IInv'
<1>0. /\ TypeOK /\ RecordsTyped /\ "validation" \in Workers
      /\ RowFits(s) /\ FilesFit(s)
  BY Typed DEF IInv, Sound, Workers
<1>1. Leases("validation", s) /\ wake' = wake
  BY DEF LeaseValidation
<1>2. CASE upload[s].state \in {"received", "validating"}
  <2>1. SetState(s, "validating") /\ Takes("validation", s, "examining")
    BY <1>2 DEF LeaseValidation
  <2>2. /\ upload' \in [Sessions -> Uploads]
        /\ upload'[s].state = "validating" /\ upload'[s].disposition = upload[s].disposition
        /\ \A r \in Sessions \ {s} : upload'[r] = upload[r]
    BY <1>0, <2>1, StateIsSet DEF States
  <2>3. RecordsTyped' /\ OthersKept(s)
    BY <1>0, <1>1, <2>2 DEF RecordsTyped, OthersKept, Leases
  <2>4. RowFits(s)' /\ FilesFit(s)'
    BY <1>0, <1>1, <1>2, <2>2 DEF RowFits, FilesFit, Leases, Canonical, Unpublished
  <2>5. ClaimsNothingNew(s) /\ ~PublicationDue(s) /\ ~CatalogDue(s)
    BY <1>2, <2>2 DEF ClaimsNothingNew, Canonical, PublicationDue, CatalogDue
  <2>6. "examining" \in StepsOf("validation")
    BY DEF StepsOf
  <2> QED
    BY <1>0, <1>1, <2>1, <2>2, <2>3, <2>4, <2>5, <2>6, LeaseIsTaken
<1>3. CASE upload[s].state \notin {"received", "validating"}
  BY <1>1, <1>3, PassedOverPreserves DEF LeaseValidation
<1> QED
  BY <1>2, <1>3

(* The three ways a validation ends otherwise than in success: the row takes *)
(* a state that claims nothing, and nothing else changes.                    *)
LEMMA ValidationEndsPreserves ==
    ASSUME IInv, NEW s \in Sessions, worker["validation"].on = s, Done("validation"),
           ValidationOnly, wake' = wake,
           \/ upload' = upload
           \/ SetState(s, "rejected")
           \/ SetState(s, "failed")
    PROVE  IInv'
<1>0. /\ TypeOK /\ RecordsTyped /\ "validation" \in Workers
      /\ RowFits(s) /\ FilesFit(s) /\ TasksFit(s)
  BY Typed DEF IInv, Sound, Workers
<1>1. upload[s].state = "validating"
  BY <1>0 DEF TasksFit
<1>2. PICK retry \in BOOLEAN : Release("validation", retry)
  BY <1>0, DoneIsRelease
<1>3. CASE upload' = upload
  <2>1. RecordsTyped' /\ OthersKept(s) /\ RowFits(s)' /\ FilesFit(s)' /\ ClaimsNothingNew(s)
    BY <1>0, <1>3
       DEF RecordsTyped, OthersKept, RowFits, FilesFit, ClaimsNothingNew, ValidationOnly
  <2> QED
    BY <1>0, <1>2, <2>1, HolderReleases
<1>4. ASSUME NEW x \in {"rejected", "failed"}, SetState(s, x) PROVE IInv'
  <2>1. /\ upload' \in [Sessions -> Uploads]
        /\ upload'[s].state = x /\ upload'[s].disposition = upload[s].disposition
        /\ \A r \in Sessions \ {s} : upload'[r] = upload[r]
    BY <1>0, <1>4, StateIsSet DEF States
  <2>2. RecordsTyped' /\ OthersKept(s)
    BY <1>0, <2>1 DEF RecordsTyped, OthersKept, ValidationOnly
  <2>3. RowFits(s)' /\ FilesFit(s)'
    BY <1>0, <1>1, <2>1 DEF RowFits, FilesFit, ValidationOnly, Canonical, Unpublished
  <2>4. ClaimsNothingNew(s)
    BY <1>1, <2>1 DEF ClaimsNothingNew, Canonical
  <2> QED
    BY <1>0, <1>2, <2>2, <2>3, <2>4, HolderReleases
<1> QED
  BY <1>3, <1>4

LEMMA ExaminePreserves ==
    ASSUME IInv, NEW s \in Sessions, Examine(s)
    PROVE  IInv'
<1>0. /\ TypeOK /\ RecordsTyped /\ "validation" \in Workers
      /\ RowFits(s) /\ FilesFit(s) /\ TasksFit(s)
  BY Typed DEF IInv, Sound, Workers
<1>1. /\ worker["validation"].on = s /\ Goto("validation", "recording")
      /\ upload' = upload /\ wake' = wake /\ ValidationOnly
  BY DEF Examine, At
<1>2. RecordsTyped' /\ OthersKept(s) /\ RowFits(s)' /\ FilesFit(s)' /\ ClaimsNothingNew(s)
  BY <1>0, <1>1
     DEF RecordsTyped, OthersKept, RowFits, FilesFit, ClaimsNothingNew, ValidationOnly
<1>3. "recording" \in StepsOf("validation") /\ upload'[s].state = "validating"
  BY <1>0, <1>1 DEF StepsOf, TasksFit
<1> QED
  BY <1>0, <1>1, <1>2, <1>3, HolderGoesOn

(* canonical_exists is what it should be: the media of a catalogued upload   *)
(* is always there.                                                          *)
LEMMA CanonicalIsFound ==
    ASSUME IInv, NEW s \in Sessions
    PROVE  CanonicalExists(s) <=>
              \E t \in Sessions \ {s} : Content[t] = Content[s] /\ upload[t].state \in Canonical
<1>1. \A t \in Sessions : upload[t].state = "cataloged" => publication[t].media
  BY DEF IInv, Sound, RowFits
<1> QED
  BY <1>1 DEF CanonicalExists, Canonical

LEMMA RecordSuccessPreserves ==
    ASSUME IInv, NEW s \in Sessions, RecordSuccess(s)
    PROVE  IInv'
<1>0. /\ TypeOK /\ RecordsTyped /\ "validation" \in Workers
      /\ RowFits(s) /\ FilesFit(s) /\ TasksFit(s)
      /\ OneCanonical /\ DuplicateOfSomething
  BY Typed DEF IInv, Sound, Workers
<1>1. worker["validation"].on = s /\ ValidationOnly
  BY DEF RecordSuccess, At
<1>2. upload[s].state = "validating" /\ upload[s] \in Uploads
  BY <1>0, <1>1 DEF TasksFit, TypeOK
<1>3. PICK retry \in BOOLEAN : Release("validation", retry)
  BY <1>0, DoneIsRelease DEF RecordSuccess
<1>4. CASE CanonicalExists(s) /\ s \notin Silent
  <2>1. SetState(s, "duplicate_pending") /\ wake' = wake
    BY <1>4 DEF RecordSuccess
  <2>2. /\ upload' \in [Sessions -> Uploads]
        /\ upload'[s].state = "duplicate_pending"
        /\ upload'[s].disposition = upload[s].disposition
        /\ \A r \in Sessions \ {s} : upload'[r] = upload[r]
    BY <1>0, <2>1, StateIsSet DEF States
  <2>3. RecordsTyped' /\ OthersKept(s)
    BY <1>0, <1>1, <2>1, <2>2 DEF RecordsTyped, OthersKept, ValidationOnly
  <2>4. RowFits(s)' /\ FilesFit(s)'
    BY <1>0, <1>1, <1>2, <2>2 DEF RowFits, FilesFit, ValidationOnly, Canonical, Unpublished
  <2>5. OneCanonical'
    BY <1>0, <2>2 DEF OneCanonical, Canonical
  <2>6. DuplicateOfSomething'
    <3>1. PICK t \in Sessions \ {s} : Content[t] = Content[s] /\ upload[t].state \in Canonical
      BY <1>4, CanonicalIsFound
    <3>2. \A r \in Sessions : upload[r].state \in Canonical => upload'[r].state \in Canonical
      BY <1>2, <2>2 DEF Canonical
    <3>3. ASSUME NEW r \in Sessions \ {s},
                 upload'[r].state = "duplicate_pending" \/ upload'[r].disposition = "discard"
          PROVE  \E u \in Sessions \ {r} :
                    Content[u] = Content[r] /\ upload'[u].state \in Canonical
      BY <1>0, <2>2, <3>2, <3>3 DEF DuplicateOfSomething
    <3> QED
      BY <3>1, <3>2, <3>3 DEF DuplicateOfSomething
  <2> QED
    BY <1>0, <1>1, <1>3, <2>3, <2>4, <2>5, <2>6, HolderReleases
<1>5. CASE ~(CanonicalExists(s) /\ s \notin Silent)
  <2> DEFINE d == IF CanonicalExists(s) THEN "keep_separate" ELSE upload[s].disposition
  <2>1. /\ upload' = [upload EXCEPT ![s].state = "publish_pending", ![s].disposition = d]
        /\ wake' = wake \cup {"publication"}
        /\ d \in {"none", "keep_separate", "discard"}
        /\ CanonicalExists(s) => d = "keep_separate"
        /\ ~CanonicalExists(s) => d = upload[s].disposition
    BY <1>0, <1>2, <1>5, SMTT(60) DEF RecordSuccess, Uploads, TypeOK
  <2> HIDE DEF d
  <2>2. /\ upload' \in [Sessions -> Uploads]
        /\ upload'[s].state = "publish_pending" /\ upload'[s].disposition = d
        /\ \A r \in Sessions \ {s} : upload'[r] = upload[r]
    BY <1>0, <2>1, DecisionIsSet, ZenonT(60) DEF States
  <2>3. RecordsTyped' /\ OthersKept(s)
    BY <1>0, <1>1, <2>1, <2>2 DEF RecordsTyped, OthersKept, ValidationOnly, Workers
  <2>4. RowFits(s)' /\ FilesFit(s)'
    BY <1>0, <1>1, <1>2, <2>2 DEF RowFits, FilesFit, ValidationOnly, Canonical, Unpublished
  <2>5. CASE CanonicalExists(s)
    <3>1. ClaimsNothingNew(s)
      BY <1>2, <2>1, <2>2, <2>5 DEF ClaimsNothingNew, Canonical
    <3> QED
      BY <1>0, <1>1, <1>3, <2>3, <2>4, <3>1, HolderReleases
  <2>6. CASE ~CanonicalExists(s)
    <3>1. \A t \in Sessions \ {s} : Content[t] = Content[s] => upload[t].state \notin Canonical
      BY <2>6, CanonicalIsFound
    <3>2. OneCanonical'
      BY <1>0, <2>2, <3>1 DEF OneCanonical
    <3>3. \A r \in Sessions : upload[r].state \in Canonical => upload'[r].state \in Canonical
      BY <1>2, <2>2 DEF Canonical
    <3>4. DuplicateOfSomething'
      <4> SUFFICES ASSUME NEW r \in Sessions, upload'[r].state = "duplicate_pending"
                                                  \/ upload'[r].disposition = "discard"
                   PROVE  \E u \in Sessions \ {r} :
                             Content[u] = Content[r] /\ upload'[u].state \in Canonical
        BY DEF DuplicateOfSomething
      <4>1. upload[r].state = "duplicate_pending" \/ upload[r].disposition = "discard"
        BY <2>1, <2>2, <2>6
      <4>2. PICK u \in Sessions \ {r} : Content[u] = Content[r] /\ upload[u].state \in Canonical
        BY <1>0, <4>1 DEF DuplicateOfSomething
      <4> QED
        BY <3>3, <4>2
    <3> QED
      BY <1>0, <1>1, <1>3, <2>3, <2>4, <3>2, <3>4, HolderReleases
  <2> QED
    BY <2>5, <2>6
<1> QED
  BY <1>4, <1>5

LEMMA ValidatePreserves ==
    ASSUME IInv, NEW s \in Sessions,
           Validate(s) \/ ClaimFails(s) \/ RecordFails(s)
    PROVE  IInv'
<1>1. ASSUME Reject(s) \/ FailValidation(s) \/ RecordFails(s) PROVE IInv'
  <2>1. /\ worker["validation"].on = s /\ Done("validation") /\ ValidationOnly /\ wake' = wake
        /\ upload' = upload \/ SetState(s, "rejected") \/ SetState(s, "failed")
    BY <1>1 DEF Reject, FailValidation, RecordFails, At
  <2> QED
    BY <2>1, ValidationEndsPreserves
<1>2. ASSUME ClaimFails(s) PROVE IInv'
  BY <1>2, PassedOverPreserves DEF ClaimFails
<1> QED
  BY <1>1, <1>2, LeaseValidationPreserves, ExaminePreserves, RecordSuccessPreserves DEF Validate

(* The rows of a session under publication, by its holder.                   *)
LEMMA UnderPublication ==
    ASSUME IInv, NEW s \in Sessions, worker["publication"].on = s
    PROVE  /\ TypeOK /\ RecordsTyped /\ "publication" \in Workers
           /\ RowFits(s) /\ FilesFit(s)
           /\ PublicationAt(s, worker["publication"].pc)
           /\ publication[s] \in Publications /\ target[s] \in Targets
BY Typed DEF IInv, Sound, TasksFit, Workers, TypeOK

(* Its fields, assigned one or two at a time.                                *)
LEMMA PublicationIsSet ==
    ASSUME TypeOK, NEW s \in Sessions, NEW p \in Publications,
           publication' = [publication EXCEPT ![s] = p]
    PROVE  /\ publication' \in [Sessions -> Publications]
           /\ publication'[s] = p
           /\ \A r \in Sessions \ {s} : publication'[r] = publication[r]
BY DEF TypeOK

LEMMA TargetIsSet ==
    ASSUME TypeOK, NEW s \in Sessions, NEW t \in Targets,
           target' = [target EXCEPT ![s] = t]
    PROVE  /\ target' \in [Sessions -> Targets]
           /\ target'[s] = t
           /\ \A r \in Sessions \ {s} : target'[r] = target[r]
BY DEF TypeOK

LEMMA LeasePublicationPreserves ==
    ASSUME IInv, NEW s \in Sessions, LeasePublication(s)
    PROVE  IInv'
<1>0. /\ TypeOK /\ RecordsTyped /\ "publication" \in Workers
      /\ RowFits(s) /\ FilesFit(s) /\ TasksFit(s)
      /\ publication[s] \in Publications
  BY Typed DEF IInv, Sound, Workers, TypeOK
<1>1. Leases("publication", s) /\ upload' = upload /\ wake' = wake
  BY DEF LeasePublication
<1>2. PublicationDue(s)
  BY <1>0, <1>1 DEF TasksFit, Leases
<1>3. PICK next \in StepsOf("publication") :
         Takes("publication", s, next) /\ PublicationAt(s, next)
  <2>1. CASE upload[s].state = "published"
    <3>1. /\ Takes("publication", s, "cleaning") /\ PublicationAt(s, "cleaning")
          /\ "cleaning" \in StepsOf("publication")
      BY <1>2, <2>1 DEF LeasePublication, PublicationAt, PublicationDue, StepsOf
    <3> QED
      BY <3>1
  <2>2. CASE upload[s].state # "published" /\ publication[s].state = "none"
    <3>1. /\ Takes("publication", s, "reserving") /\ PublicationAt(s, "reserving")
          /\ "reserving" \in StepsOf("publication")
      BY <1>2, <2>2 DEF LeasePublication, PublicationAt, PublicationDue, StepsOf
    <3> QED
      BY <3>1
  <2>3. CASE upload[s].state # "published" /\ publication[s].state # "none"
    <3>1. /\ Takes("publication", s, "looking") /\ PublicationAt(s, "looking")
          /\ "looking" \in StepsOf("publication")
      BY <1>0, <1>2, <2>3
         DEF LeasePublication, PublicationAt, PublicationDue, RowFits, StepsOf
    <3> QED
      BY <3>1
  <2> QED
    BY <2>1, <2>2, <2>3
<1>4. PublicationAt(s, next)'
  BY <1>1, <1>3 DEF PublicationAt, Leases
<1>5. RecordsTyped' /\ OthersKept(s) /\ RowFits(s)' /\ FilesFit(s)' /\ ClaimsNothingNew(s)
  BY <1>0, <1>1 DEF RecordsTyped, OthersKept, RowFits, FilesFit, ClaimsNothingNew, Leases
<1>6. PublicationDue(s)' /\ (CatalogDue(s) => CatalogDue(s)')
  BY <1>1, <1>2 DEF PublicationDue, CatalogDue, Leases
<1> QED
  BY <1>0, <1>1, <1>3, <1>4, <1>5, <1>6, LeaseIsTaken

LEMMA ReservePreserves ==
    ASSUME IInv, NEW s \in Sessions, Reserve(s)
    PROVE  IInv'
<1>1. /\ worker["publication"].on = s /\ worker["publication"].pc = "reserving"
      /\ Goto("publication", "looking") /\ "looking" \in StepsOf("publication")
  BY DEF Reserve, At, StepsOf
<1>0. /\ TypeOK /\ RecordsTyped /\ "publication" \in Workers
      /\ RowFits(s) /\ FilesFit(s)
      /\ upload[s].state = "publish_pending"
      /\ publication[s] \in Publications /\ publication[s].state = "none"
  BY <1>1, UnderPublication DEF PublicationAt
<1> DEFINE p == [publication[s] EXCEPT !.state = "reserved", !.cleanup = "pending"]
<1>2. p \in Publications /\ p.state = "reserved" /\ p.cleanup = "pending" /\ ~p.media
  BY <1>0 DEF Publications, RowFits
<1>3. publication' = [publication EXCEPT ![s] = p]
  BY <1>0 DEF Reserve, TypeOK, Publications
<1> HIDE DEF p
<1>4. /\ publication' \in [Sessions -> Publications]
      /\ publication'[s] = p
      /\ \A r \in Sessions \ {s} : publication'[r] = publication[r]
  BY <1>0, <1>2, <1>3, PublicationIsSet
<1>5. RecordsTyped' /\ OthersKept(s) /\ ClaimsNothingNew(s)
  BY <1>0, <1>4 DEF RecordsTyped, OthersKept, ClaimsNothingNew, Reserve
<1>6. RowFits(s)' /\ FilesFit(s)' /\ PublicationAt(s, "looking")'
  BY <1>0, <1>2, <1>4 DEF RowFits, FilesFit, PublicationAt, Reserve, Canonical
<1> QED
  BY <1>0, <1>1, <1>5, <1>6, HolderGoesOn

LEMMA LookAtTargetPreserves ==
    ASSUME IInv, NEW s \in Sessions, LookAtTarget(s)
    PROVE  IInv'
<1>1. /\ worker["publication"].on = s /\ worker["publication"].pc = "looking"
      /\ upload' = upload /\ publication' = publication /\ staged' = staged
      /\ target' = target /\ wake' = wake /\ startup' = startup /\ calm' = calm
  BY DEF LookAtTarget, At
<1>0. /\ TypeOK /\ RecordsTyped /\ "publication" \in Workers
      /\ RowFits(s) /\ FilesFit(s)
      /\ upload[s].state = "publish_pending" /\ publication[s].state = "reserved"
      /\ target[s] \in Targets
  BY <1>1, UnderPublication DEF PublicationAt
<1>2. adopted' \subseteq Sessions /\ adopted \subseteq adopted'
  BY <1>0 DEF LookAtTarget, TypeOK
<1>3. RecordsTyped' /\ OthersKept(s) /\ ClaimsNothingNew(s) /\ RowFits(s)' /\ FilesFit(s)'
  BY <1>0, <1>1, <1>2
     DEF RecordsTyped, OthersKept, ClaimsNothingNew, RowFits, FilesFit
<1>4. CASE Verified(s) /\ Goto("publication", "committing")
           /\ adopted' = IF target[s].final = "volatile" THEN adopted \cup {s} ELSE adopted
  <2>1. PublicationAt(s, "committing")'
    BY <1>0, <1>1, <1>4 DEF PublicationAt, Verified, Targets
  <2>2. "committing" \in StepsOf("publication")
    BY DEF StepsOf
  <2> QED
    BY <1>0, <1>1, <1>3, <1>4, <2>1, <2>2, HolderGoesOn
<1>5. CASE target[s].final = "absent" /\ Goto("publication", "opening")
  <2>1. PublicationAt(s, "opening")' /\ "opening" \in StepsOf("publication")
    BY <1>0, <1>1, <1>5 DEF PublicationAt, StepsOf
  <2> QED
    BY <1>0, <1>1, <1>3, <1>5, <2>1, HolderGoesOn
<1> QED
  BY <1>4, <1>5 DEF LookAtTarget

(* The steps of publish_from_reader change only what the published root      *)
(* holds of the session, and leave it as the next step counts on it.         *)
LEMMA AtTargetPreserves ==
    ASSUME IInv, NEW s \in Sessions, NEW step \in StepsOf("publication"),
           NEW next \in StepsOf("publication"), NEW t \in Targets,
           AtTarget(s, step, next), target' = [target EXCEPT ![s] = t],
           t.final # "absent" => t.data = "synced",
           upload[s].state = "publish_pending",
           PublicationAt(s, next)'
    PROVE  IInv'
<1>1. /\ worker["publication"].on = s /\ Goto("publication", next)
      /\ upload' = upload /\ publication' = publication /\ staged' = staged
      /\ wake' = wake /\ startup' = startup /\ adopted' = adopted /\ calm' = calm
  BY DEF AtTarget, At
<1>0. /\ TypeOK /\ RecordsTyped /\ "publication" \in Workers
      /\ RowFits(s) /\ FilesFit(s)
  BY <1>1, UnderPublication
<1>2. /\ target' \in [Sessions -> Targets]
      /\ target'[s] = t
      /\ \A r \in Sessions \ {s} : target'[r] = target[r]
  BY <1>0, TargetIsSet
<1>3. RecordsTyped' /\ OthersKept(s) /\ ClaimsNothingNew(s) /\ RowFits(s)'
  BY <1>0, <1>1, <1>2 DEF RecordsTyped, OthersKept, ClaimsNothingNew, RowFits
<1>4. FilesFit(s)'
  BY <1>0, <1>1, <1>2 DEF FilesFit
<1> QED
  BY <1>0, <1>1, <1>3, <1>4, HolderGoesOn

LEMMA FilePreserves ==
    ASSUME IInv, NEW s \in Sessions,
           \/ OpenTemporary(s) \/ CopySource(s) \/ FlushTemporary(s)
           \/ LinkFinal(s) \/ FsyncDirectory(s) \/ UnlinkTemporary(s)
    PROVE  IInv'
<1> DEFINE t == target[s]
<1>0. TypeOK /\ t \in Targets
  BY DEF IInv, TypeOK
<1>1. ASSUME OpenTemporary(s) PROVE IInv'
  <2> DEFINE new == [t EXCEPT !.temporary = TRUE, !.data = "partial"]
  <2>1. /\ AtTarget(s, "opening", "copying") /\ target' = [target EXCEPT ![s] = new]
        /\ worker["publication"].on = s /\ worker["publication"].pc = "opening"
    BY <1>0, <1>1 DEF OpenTemporary, AtTarget, At, TypeOK, Targets
  <2>2. /\ upload[s].state = "publish_pending" /\ publication[s].state = "reserved"
        /\ t.final = "absent"
    BY <2>1, UnderPublication DEF PublicationAt
  <2>3. new \in Targets /\ new.final = "absent"
    BY <1>0, <2>2 DEF Targets
  <2>4. PublicationAt(s, "copying")'
    BY <1>0, <2>1, <2>2, <2>3 DEF PublicationAt, AtTarget, TypeOK
  <2>5. "opening" \in StepsOf("publication") /\ "copying" \in StepsOf("publication")
    BY DEF StepsOf
  <2> HIDE DEF new
  <2>6. PICK n \in Targets : n = new
    BY <2>3
  <2> QED
    BY <2>1, <2>2, <2>3, <2>4, <2>5, <2>6, AtTargetPreserves
<1>2. ASSUME CopySource(s) PROVE IInv'
  <2> DEFINE new == [t EXCEPT !.data = "written"]
  <2>1. /\ AtTarget(s, "copying", "flushing") /\ target' = [target EXCEPT ![s] = new]
        /\ worker["publication"].on = s /\ worker["publication"].pc = "copying"
    BY <1>0, <1>2 DEF CopySource, AtTarget, At, TypeOK, Targets
  <2>2. /\ upload[s].state = "publish_pending" /\ publication[s].state = "reserved"
        /\ t.final = "absent"
    BY <2>1, UnderPublication DEF PublicationAt
  <2>3. new \in Targets /\ new.final = "absent"
    BY <1>0, <2>2 DEF Targets
  <2>4. PublicationAt(s, "flushing")'
    BY <1>0, <2>1, <2>2, <2>3 DEF PublicationAt, AtTarget, TypeOK
  <2>5. "copying" \in StepsOf("publication") /\ "flushing" \in StepsOf("publication")
    BY DEF StepsOf
  <2> HIDE DEF new
  <2>6. PICK n \in Targets : n = new
    BY <2>3
  <2> QED
    BY <2>1, <2>2, <2>3, <2>4, <2>5, <2>6, AtTargetPreserves
<1>3. ASSUME FlushTemporary(s) PROVE IInv'
  <2> DEFINE new == [t EXCEPT !.data = "synced"]
  <2>1. /\ AtTarget(s, "flushing", "linking") /\ target' = [target EXCEPT ![s] = new]
        /\ worker["publication"].on = s /\ worker["publication"].pc = "flushing"
    BY <1>0, <1>3 DEF FlushTemporary, AtTarget, At, TypeOK, Targets
  <2>2. /\ upload[s].state = "publish_pending" /\ publication[s].state = "reserved"
        /\ t.final = "absent"
    BY <2>1, UnderPublication DEF PublicationAt
  <2>3. new \in Targets /\ new.final = "absent" /\ new.data = "synced"
    BY <1>0, <2>2 DEF Targets
  <2>4. PublicationAt(s, "linking")'
    BY <1>0, <2>1, <2>2, <2>3 DEF PublicationAt, AtTarget, TypeOK
  <2>5. "flushing" \in StepsOf("publication") /\ "linking" \in StepsOf("publication")
    BY DEF StepsOf
  <2> HIDE DEF new
  <2>6. PICK n \in Targets : n = new
    BY <2>3
  <2> QED
    BY <2>1, <2>2, <2>3, <2>4, <2>5, <2>6, AtTargetPreserves
<1>4. ASSUME LinkFinal(s) PROVE IInv'
  <2> DEFINE new == [t EXCEPT !.final = "volatile"]
  <2>1. /\ AtTarget(s, "linking", "confirming") /\ target' = [target EXCEPT ![s] = new]
        /\ worker["publication"].on = s /\ worker["publication"].pc = "linking"
    BY <1>0, <1>4 DEF LinkFinal, AtTarget, At, TypeOK, Targets
  <2>2. /\ upload[s].state = "publish_pending" /\ publication[s].state = "reserved"
        /\ t.data = "synced"
    BY <2>1, UnderPublication DEF PublicationAt
  <2>3. new \in Targets /\ new.final = "volatile" /\ new.data = "synced"
    BY <1>0, <2>2 DEF Targets
  <2>4. PublicationAt(s, "confirming")'
    BY <1>0, <2>1, <2>2, <2>3 DEF PublicationAt, AtTarget, TypeOK
  <2>5. "linking" \in StepsOf("publication") /\ "confirming" \in StepsOf("publication")
    BY DEF StepsOf
  <2> HIDE DEF new
  <2>6. PICK n \in Targets : n = new
    BY <2>3
  <2> QED
    BY <2>1, <2>2, <2>3, <2>4, <2>5, <2>6, AtTargetPreserves
<1>5. ASSUME FsyncDirectory(s) PROVE IInv'
  <2> DEFINE new == [t EXCEPT !.final = "durable"]
  <2>1. /\ AtTarget(s, "confirming", "unlinking") /\ target' = [target EXCEPT ![s] = new]
        /\ worker["publication"].on = s /\ worker["publication"].pc = "confirming"
    BY <1>0, <1>5 DEF FsyncDirectory, AtTarget, At, TypeOK, Targets
  <2>2. /\ upload[s].state = "publish_pending" /\ publication[s].state = "reserved"
        /\ t.data = "synced"
    BY <2>1, UnderPublication DEF PublicationAt, FilesFit
  <2>3. new \in Targets /\ new.final = "durable" /\ new.data = "synced"
    BY <1>0, <2>2 DEF Targets
  <2>4. PublicationAt(s, "unlinking")'
    BY <1>0, <2>1, <2>2, <2>3 DEF PublicationAt, AtTarget, TypeOK
  <2>5. "confirming" \in StepsOf("publication") /\ "unlinking" \in StepsOf("publication")
    BY DEF StepsOf
  <2> HIDE DEF new
  <2>6. PICK n \in Targets : n = new
    BY <2>3
  <2> QED
    BY <2>1, <2>2, <2>3, <2>4, <2>5, <2>6, AtTargetPreserves
<1>6. ASSUME UnlinkTemporary(s) PROVE IInv'
  <2> DEFINE new == [t EXCEPT !.temporary = FALSE]
  <2>1. /\ AtTarget(s, "unlinking", "committing") /\ target' = [target EXCEPT ![s] = new]
        /\ worker["publication"].on = s /\ worker["publication"].pc = "unlinking"
    BY <1>0, <1>6 DEF UnlinkTemporary, AtTarget, At, TypeOK, Targets
  <2>2. /\ upload[s].state = "publish_pending" /\ publication[s].state = "reserved"
        /\ t.final = "durable" /\ t.data = "synced"
    BY <2>1, UnderPublication DEF PublicationAt, FilesFit
  <2>3. new \in Targets /\ new.final = "durable" /\ new.data = "synced"
    BY <1>0, <2>2 DEF Targets
  <2>4. PublicationAt(s, "committing")'
    BY <1>0, <2>1, <2>2, <2>3 DEF PublicationAt, AtTarget, TypeOK
  <2>5. "unlinking" \in StepsOf("publication") /\ "committing" \in StepsOf("publication")
    BY DEF StepsOf
  <2> HIDE DEF new
  <2>6. PICK n \in Targets : n = new
    BY <2>3
  <2> QED
    BY <2>1, <2>2, <2>3, <2>4, <2>5, <2>6, AtTargetPreserves
<1> QED
  BY <1>1, <1>2, <1>3, <1>4, <1>5, <1>6

LEMMA CommitPublishedPreserves ==
    ASSUME IInv, NEW s \in Sessions, CommitPublished(s)
    PROVE  IInv'
<1>1. /\ worker["publication"].on = s /\ worker["publication"].pc = "committing"
      /\ SetState(s, "published") /\ Goto("publication", "cleaning")
      /\ staged' = staged /\ target' = target /\ wake' = wake /\ startup' = startup
      /\ adopted' = adopted /\ calm' = calm
  BY DEF CommitPublished, At
<1>0. /\ TypeOK /\ RecordsTyped /\ "publication" \in Workers
      /\ RowFits(s) /\ FilesFit(s)
      /\ upload[s].state = "publish_pending"
      /\ publication[s] \in Publications /\ publication[s].state = "reserved"
      /\ target[s].final = "durable" \/ s \in adopted
  BY <1>1, UnderPublication DEF PublicationAt
<1>2. PICK p \in Publications :
          /\ publication' = [publication EXCEPT ![s] = p]
          /\ p.state = "verified" /\ p.cleanup = "pending" /\ ~p.media
  <2> DEFINE p == [publication[s] EXCEPT !.state = "verified"]
  <2>1. publication' = [publication EXCEPT ![s] = p]
    BY <1>0 DEF CommitPublished, TypeOK, Publications
  <2>2. p \in Publications /\ p.state = "verified" /\ p.cleanup = "pending" /\ ~p.media
    BY <1>0 DEF Publications, RowFits
  <2> QED
    BY <2>1, <2>2
<1>3. /\ publication' \in [Sessions -> Publications]
      /\ publication'[s] = p
      /\ \A r \in Sessions \ {s} : publication'[r] = publication[r]
  BY <1>0, <1>2, PublicationIsSet
<1>4. /\ upload' \in [Sessions -> Uploads]
      /\ upload'[s].state = "published" /\ upload'[s].disposition = upload[s].disposition
      /\ \A r \in Sessions \ {s} : upload'[r] = upload[r]
  BY <1>0, <1>1, StateIsSet DEF States
<1>5. RecordsTyped' /\ OthersKept(s) /\ ClaimsNothingNew(s)
  BY <1>0, <1>1, <1>3, <1>4 DEF RecordsTyped, OthersKept, ClaimsNothingNew, Canonical
<1>6. RowFits(s)' /\ FilesFit(s)' /\ PublicationAt(s, "cleaning")'
  BY <1>0, <1>1, <1>2, <1>3, <1>4 DEF RowFits, FilesFit, PublicationAt, Canonical
<1>7. "cleaning" \in StepsOf("publication")
  BY DEF StepsOf
<1> QED
  BY <1>0, <1>1, <1>5, <1>6, <1>7, HolderGoesOn

LEMMA RemoveSourcePreserves ==
    ASSUME IInv, NEW s \in Sessions, RemoveSource(s)
    PROVE  IInv'
<1>1. /\ worker["publication"].on = s /\ worker["publication"].pc = "cleaning"
      /\ Goto("publication", "marking") /\ "marking" \in StepsOf("publication")
      /\ staged' = [staged EXCEPT ![s] = "gone"]
      /\ upload' = upload /\ publication' = publication /\ target' = target /\ wake' = wake
      /\ startup' = startup /\ adopted' = adopted /\ calm' = calm
  BY DEF RemoveSource, At, StepsOf
<1>0. /\ TypeOK /\ RecordsTyped /\ "publication" \in Workers
      /\ RowFits(s) /\ FilesFit(s)
      /\ upload[s].state = "published" /\ publication[s].cleanup = "pending"
  BY <1>1, UnderPublication DEF PublicationAt
<1>2. /\ staged' \in [Sessions -> {"whole", "damaged", "gone"}]
      /\ staged'[s] = "gone"
      /\ \A r \in Sessions \ {s} : staged'[r] = staged[r]
  BY <1>0, <1>1 DEF TypeOK
<1>3. RecordsTyped' /\ OthersKept(s) /\ ClaimsNothingNew(s) /\ RowFits(s)'
  BY <1>0, <1>1, <1>2 DEF RecordsTyped, OthersKept, ClaimsNothingNew, RowFits
<1>4. FilesFit(s)' /\ PublicationAt(s, "marking")'
  BY <1>0, <1>1, <1>2 DEF FilesFit, PublicationAt
<1> QED
  BY <1>0, <1>1, <1>3, <1>4, HolderGoesOn

LEMMA MarkCleanPreserves ==
    ASSUME IInv, NEW s \in Sessions, MarkClean(s)
    PROVE  IInv'
<1>1. /\ worker["publication"].on = s /\ worker["publication"].pc = "marking"
      /\ Done("publication") /\ wake' = wake \cup {"catalog"}
      /\ upload' = upload /\ staged' = staged /\ target' = target
      /\ startup' = startup /\ adopted' = adopted /\ calm' = calm
  BY DEF MarkClean, At
<1>0. /\ TypeOK /\ RecordsTyped /\ "publication" \in Workers
      /\ RowFits(s) /\ FilesFit(s)
      /\ upload[s].state = "published" /\ staged[s] = "gone"
      /\ publication[s] \in Publications
  BY <1>1, UnderPublication DEF PublicationAt
<1>2. PICK p \in Publications :
          /\ publication' = [publication EXCEPT ![s] = p]
          /\ p.state = "verified" /\ p.cleanup = "complete" /\ ~p.media
  <2> DEFINE p == [publication[s] EXCEPT !.cleanup = "complete"]
  <2>1. publication' = [publication EXCEPT ![s] = p]
    BY <1>0 DEF MarkClean, TypeOK, Publications
  <2>2. p \in Publications /\ p.state = "verified" /\ p.cleanup = "complete" /\ ~p.media
    BY <1>0 DEF Publications, RowFits
  <2> QED
    BY <2>1, <2>2
<1>3. /\ publication' \in [Sessions -> Publications]
      /\ publication'[s] = p
      /\ \A r \in Sessions \ {s} : publication'[r] = publication[r]
  BY <1>0, <1>2, PublicationIsSet
<1>4. RecordsTyped' /\ OthersKept(s) /\ ClaimsNothingNew(s)
  BY <1>0, <1>1, <1>3 DEF RecordsTyped, OthersKept, ClaimsNothingNew, Workers
<1>5. RowFits(s)' /\ FilesFit(s)'
  BY <1>0, <1>1, <1>2, <1>3 DEF RowFits, FilesFit, Canonical
<1>6. PICK retry \in BOOLEAN : Release("publication", retry)
  BY <1>0, <1>1, DoneIsRelease
<1> QED
  BY <1>0, <1>1, <1>4, <1>5, <1>6, HolderReleases

LEMMA PublicationFailsPreserves ==
    ASSUME IInv, NEW s \in Sessions, PublicationFails(s)
    PROVE  IInv'
<1>1. /\ worker["publication"].on = s
      /\ upload' = upload /\ publication' = publication /\ staged' = staged /\ wake' = wake
      /\ startup' = startup /\ adopted' = adopted /\ calm' = calm
  BY DEF PublicationFails
<1>0. /\ TypeOK /\ RecordsTyped /\ "publication" \in Workers
      /\ RowFits(s) /\ FilesFit(s)
      /\ PublicationAt(s, worker["publication"].pc)
  BY <1>1, UnderPublication
<1>2. Release("publication", TRUE)
  BY <1>0 DEF PublicationFails, Release, TypeOK
<1>3. \/ target' = target
      \/ /\ worker["publication"].pc \in {"copying", "flushing", "linking"}
         /\ target' = [target EXCEPT ![s] = Untouched]
  BY DEF PublicationFails
<1>4. /\ target' \in [Sessions -> Targets]
      /\ \A r \in Sessions \ {s} : target'[r] = target[r]
      /\ target'[s] = target[s]
            \/ (target'[s] = Untouched /\ upload[s].state = "publish_pending")
  <2>1. Untouched \in Targets
    BY DEF Untouched, Targets
  <2> QED
    BY <1>0, <1>3, <2>1 DEF TypeOK, PublicationAt
<1>5. RecordsTyped' /\ OthersKept(s) /\ ClaimsNothingNew(s) /\ RowFits(s)'
  BY <1>0, <1>1, <1>4 DEF RecordsTyped, OthersKept, ClaimsNothingNew, RowFits
<1>6. FilesFit(s)'
  BY <1>0, <1>1, <1>4 DEF FilesFit, Untouched
<1> QED
  BY <1>0, <1>1, <1>2, <1>5, <1>6, HolderReleases

LEMMA PublishPreserves ==
    ASSUME IInv, NEW s \in Sessions, Publish(s)
    PROVE  IInv'
BY LeasePublicationPreserves, ReservePreserves, LookAtTargetPreserves, FilePreserves,
   CommitPublishedPreserves, RemoveSourcePreserves, MarkCleanPreserves,
   PublicationFailsPreserves DEF Publish

LEMMA CatalogPreserves ==
    ASSUME IInv, NEW s \in Sessions, Catalog(s) \/ CatalogFails(s)
    PROVE  IInv'
<1>0. /\ TypeOK /\ RecordsTyped /\ "catalog" \in Workers
      /\ RowFits(s) /\ FilesFit(s) /\ TasksFit(s)
      /\ publication[s] \in Publications
  BY Typed DEF IInv, Sound, Workers, TypeOK
<1>1. ASSUME LeaseCatalog(s) PROVE IInv'
  <2>1. /\ Leases("catalog", s) /\ Takes("catalog", s, "cataloging")
        /\ upload' = upload /\ wake' = wake
    BY <1>1 DEF LeaseCatalog
  <2>2. RecordsTyped' /\ OthersKept(s) /\ RowFits(s)' /\ FilesFit(s)' /\ ClaimsNothingNew(s)
    BY <1>0, <2>1 DEF RecordsTyped, OthersKept, RowFits, FilesFit, ClaimsNothingNew, Leases
  <2>3. /\ PublicationDue(s) => PublicationDue(s)'
        /\ CatalogDue(s) => CatalogDue(s)'
        /\ "cataloging" \in StepsOf("catalog")
    BY <2>1 DEF PublicationDue, CatalogDue, Leases, StepsOf
  <2> QED
    BY <1>0, <2>1, <2>2, <2>3, LeaseIsTaken
<1>2. ASSUME CommitCataloged(s) PROVE IInv'
  <2>1. /\ worker["catalog"].on = s
        /\ SetState(s, "cataloged") /\ Done("catalog")
        /\ staged' = staged /\ target' = target /\ wake' = wake /\ startup' = startup
        /\ adopted' = adopted /\ calm' = calm
    BY <1>2 DEF CommitCataloged, At
  <2>2. /\ upload[s].state = "published" /\ publication[s].state = "verified"
        /\ publication[s].cleanup = "complete"
    BY <1>0, <2>1 DEF TasksFit, CatalogDue, RowFits
  <2>3. PICK p \in Publications :
            /\ publication' = [publication EXCEPT ![s] = p]
            /\ p.state = "verified" /\ p.cleanup = "complete" /\ p.media
    <3> DEFINE p == [publication[s] EXCEPT !.media = TRUE]
    <3>1. publication' = [publication EXCEPT ![s] = p]
      BY <1>0, <1>2 DEF CommitCataloged, TypeOK, Publications
    <3>2. p \in Publications /\ p.state = "verified" /\ p.cleanup = "complete" /\ p.media
      BY <1>0, <2>2 DEF Publications
    <3> QED
      BY <3>1, <3>2
  <2>4. /\ publication' \in [Sessions -> Publications]
        /\ publication'[s] = p
        /\ \A r \in Sessions \ {s} : publication'[r] = publication[r]
    BY <1>0, <2>3, PublicationIsSet
  <2>5. /\ upload' \in [Sessions -> Uploads]
        /\ upload'[s].state = "cataloged" /\ upload'[s].disposition = upload[s].disposition
        /\ \A r \in Sessions \ {s} : upload'[r] = upload[r]
    BY <1>0, <2>1, StateIsSet DEF States
  <2>6. RecordsTyped' /\ OthersKept(s) /\ ClaimsNothingNew(s)
    BY <1>0, <2>1, <2>2, <2>4, <2>5
       DEF RecordsTyped, OthersKept, ClaimsNothingNew, Canonical
  <2>7. RowFits(s)' /\ FilesFit(s)'
    BY <1>0, <2>1, <2>2, <2>3, <2>4, <2>5 DEF RowFits, FilesFit, Canonical
  <2>8. PICK retry \in BOOLEAN : Release("catalog", retry)
    BY <1>0, <2>1, DoneIsRelease
  <2> QED
    BY <1>0, <2>1, <2>6, <2>7, <2>8, HolderReleases
<1>3. ASSUME CatalogFails(s) PROVE IInv'
  <2>1. /\ worker["catalog"].on = s
        /\ upload' = upload /\ publication' = publication /\ staged' = staged
        /\ target' = target /\ wake' = wake /\ startup' = startup
        /\ adopted' = adopted /\ calm' = calm
    BY <1>3 DEF CatalogFails, At
  <2>2. Release("catalog", TRUE)
    BY <1>0, <1>3 DEF CatalogFails, Release, TypeOK
  <2>3. RecordsTyped' /\ OthersKept(s) /\ ClaimsNothingNew(s) /\ RowFits(s)' /\ FilesFit(s)'
    BY <1>0, <2>1 DEF RecordsTyped, OthersKept, ClaimsNothingNew, RowFits, FilesFit
  <2> QED
    BY <1>0, <2>1, <2>2, <2>3, HolderReleases
<1> QED
  BY <1>1, <1>2, <1>3 DEF Catalog

(* A coordinator lists the sessions that are due for it, or fails to.        *)
LEMMA PassPreserves ==
    ASSUME IInv, NEW w \in Workers, StartPass(w) \/ DiscoveryFails(w)
    PROVE  IInv'
<1>1. PICK page \in SUBSET Sessions, retry \in BOOLEAN :
         /\ worker' = [worker EXCEPT ![w] = [worker[w] EXCEPT !.page = page, !.retry = retry]]
         /\ page \subseteq Eligible(w)
  <2>1. worker \in [Workers -> WorkerStates]
    BY DEF IInv, TypeOK, WorkerStates
  <2>2. CASE StartPass(w)
    <3>1. worker' = [worker EXCEPT ![w] =
                        [worker[w] EXCEPT !.page = Eligible(w), !.retry = FALSE]]
      BY <2>1, <2>2 DEF StartPass, WorkerStates
    <3>2. Eligible(w) \in SUBSET Sessions /\ Eligible(w) \subseteq Eligible(w)
      BY DEF Eligible
    <3> QED
      BY <3>1, <3>2, Zenon
  <2>3. CASE DiscoveryFails(w)
    <3>1. worker' = [worker EXCEPT ![w] =
                        [worker[w] EXCEPT !.page = {}, !.retry = TRUE]]
      BY <2>1, <2>3 DEF DiscoveryFails, Quiet, WorkerStates
    <3>2. {} \in SUBSET Sessions /\ {} \subseteq Eligible(w)
      OBVIOUS
    <3> QED
      BY <3>1, <3>2, Zenon
  <2> QED
    BY <2>2, <2>3
<1>2. /\ upload' = upload /\ publication' = publication /\ staged' = staged
      /\ target' = target /\ adopted' = adopted /\ calm' = calm
      /\ wake' = wake \ {w} /\ startup' \in BOOLEAN
      /\ worker[w].on = None
  BY DEF StartPass, DiscoveryFails, Quiet, IInv, TypeOK
<1>3. /\ worker' \in [Workers -> WorkerStates]
      /\ worker'[w].pc = worker[w].pc /\ worker'[w].on = None
      /\ worker'[w].page \subseteq Eligible(w)
      /\ \A v \in Workers \ {w} : worker'[v] = worker[v]
  <2>1. worker \in [Workers -> WorkerStates]
    BY DEF IInv, TypeOK, WorkerStates
  <2> DEFINE new == [worker[w] EXCEPT !.page = page, !.retry = retry]
  <2>2. new \in WorkerStates /\ new.pc = worker[w].pc /\ new.on = None /\ new.page = page
    BY <1>2, <2>1 DEF WorkerStates
  <2>3. worker' = [worker EXCEPT ![w] = new]
    BY <1>1
  <2> HIDE DEF new
  <2> QED
    BY <1>1, <2>1, <2>2, <2>3
<1>4. TypeOK'
  BY <1>2, <1>3 DEF IInv, TypeOK, WorkerStates
<1>5. Exclusive'
  <2>1. None \notin worker'[w].page
    BY <1>3, PipelineAssumption DEF Eligible
  <2> QED
    BY <1>2, <1>3, <2>1 DEF IInv, Exclusive
<1>6. ASSUME NEW s \in Sessions PROVE Sound(s)'
  <2>1. RowFits(s) /\ FilesFit(s) /\ TasksFit(s)
    BY DEF IInv, Sound
  <2>2. RowFits(s)' /\ FilesFit(s)'
    BY <1>2, <2>1 DEF RowFits, FilesFit
  <2>3. "validation" \in Workers /\ "publication" \in Workers /\ "catalog" \in Workers
    BY DEF Workers
  <2>4. \A v \in Workers : worker'[v].on = s => worker[v].on = s /\ worker'[v] = worker[v]
    BY <1>2, <1>3, PipelineAssumption
  <2>5. worker'["validation"].on = s => upload'[s].state = "validating"
    BY <1>2, <2>1, <2>3, <2>4 DEF TasksFit
  <2>6. ASSUME worker'["publication"].on = s
        PROVE  PublicationAt(s, worker["publication"].pc)'
    BY <1>2, <2>1, <2>3, <2>4, <2>6 DEF TasksFit, PublicationAt
  <2>7. s \in worker'["publication"].page => PublicationDue(s)
    BY <1>3, <2>1, <2>3 DEF TasksFit, Eligible
  <2>8. worker'["catalog"].on = s \/ s \in worker'["catalog"].page => CatalogDue(s)
    BY <1>3, <2>1, <2>3, <2>4 DEF TasksFit, Eligible
  <2>9. TasksFit(s)'
    BY <1>2, <2>5, <2>6, <2>7, <2>8 DEF TasksFit, PublicationDue, CatalogDue
  <2> QED
    BY <2>2, <2>9 DEF Sound
<1>7. OneCanonical' /\ DuplicateOfSomething'
  BY <1>2 DEF IInv, OneCanonical, DuplicateOfSomething
<1> QED
  BY <1>4, <1>5, <1>6, <1>7 DEF IInv

(* The process starts again over whatever the disk holds.  A power loss      *)
(* takes an unsynced name or leaves a durable one; either way what had a     *)
(* durable name keeps it, and a final name its data.                         *)
LEMMA RestartPreserves ==
    ASSUME IInv, ProcessStops \/ PowerLoss \/ CalmDown
    PROVE  IInv'
<1>1. /\ upload' = upload /\ publication' = publication /\ staged' = staged
      /\ adopted' = adopted /\ calm' \in BOOLEAN /\ Restart
  BY DEF ProcessStops, PowerLoss, CalmDown, IInv, TypeOK
<1>2. ASSUME NEW s \in Sessions
      PROVE  /\ target'[s] \in Targets
             /\ target[s].final = "durable" => target'[s].final = "durable"
             /\ target'[s].final # "absent" => target'[s].data = "synced"
  <2>1. target[s] \in Targets /\ (target[s].final # "absent" => target[s].data = "synced")
    BY DEF IInv, TypeOK, Sound, FilesFit
  <2>2. CASE target' = target
    BY <2>1, <2>2
  <2>3. CASE PowerLoss
    <3>1. PICK survivors \in SUBSET Sessions :
             target' = [r \in Sessions |-> AfterPowerLoss(target[r], r \in survivors)]
      BY <2>3 DEF PowerLoss
    <3>2. target'[s] = AfterPowerLoss(target[s], s \in survivors)
      BY <3>1
    <3>3. CASE s \in survivors
      BY <2>1, <3>2, <3>3 DEF AfterPowerLoss, Targets
    <3>4. CASE s \notin survivors
      BY <2>1, <3>2, <3>4 DEF AfterPowerLoss, Targets, Untouched
    <3> QED
      BY <3>3, <3>4
  <2> QED
    BY <2>2, <2>3 DEF ProcessStops, CalmDown
<1>3. target' \in [Sessions -> Targets]
  <2>1. target' = target \/ \E f : target' = [r \in Sessions |-> f[r]]
    <3>1. CASE PowerLoss
      <4>1. PICK survivors \in SUBSET Sessions :
               target' = [r \in Sessions |-> AfterPowerLoss(target[r], r \in survivors)]
        BY <3>1 DEF PowerLoss
      <4>2. target' = [r \in Sessions |-> target'[r]]
        BY <4>1
      <4> QED
        BY <4>2
    <3> QED
      BY <3>1 DEF ProcessStops, CalmDown
  <2> QED
    BY <1>2, <2>1 DEF IInv, TypeOK
<1>4. worker' = [w \in Workers |-> Resting] /\ wake' = Workers /\ startup' = TRUE
  BY <1>1 DEF Restart
<1>5. TypeOK'
  BY <1>1, <1>3, <1>4 DEF IInv, TypeOK, Resting, Steps
<1>6. Exclusive'
  BY <1>4, PipelineAssumption DEF Exclusive, Resting
<1>7. ASSUME NEW s \in Sessions PROVE Sound(s)'
  <2>1. RowFits(s)'
    BY <1>1 DEF IInv, Sound, RowFits
  <2>2. FilesFit(s)'
    BY <1>1, <1>2 DEF IInv, Sound, FilesFit
  <2>3. \A w \in Workers : worker'[w].on # s /\ worker'[w].page = {}
    BY <1>4, PipelineAssumption DEF Resting
  <2>4. TasksFit(s)'
    BY <2>3 DEF TasksFit, Workers
  <2> QED
    BY <2>1, <2>2, <2>4 DEF Sound
<1>8. OneCanonical' /\ DuplicateOfSomething'
  BY <1>1 DEF IInv, OneCanonical, DuplicateOfSomething
<1> QED
  BY <1>5, <1>6, <1>7, <1>8 DEF IInv

(* Damage in quarantine leaves something there.                              *)
LEMMA DamagePreserves ==
    ASSUME IInv, NEW s \in Sessions, Damage(s)
    PROVE  IInv'
<1>1. /\ staged[s] = "whole" /\ staged' = [staged EXCEPT ![s] = "damaged"]
      /\ upload' = upload /\ publication' = publication /\ target' = target
      /\ worker' = worker /\ wake' = wake /\ startup' = startup
      /\ adopted' = adopted /\ calm' = calm
  BY DEF Damage
<1>2. /\ staged' \in [Sessions -> {"whole", "damaged", "gone"}]
      /\ staged'[s] = "damaged"
      /\ \A r \in Sessions \ {s} : staged'[r] = staged[r]
  BY <1>1 DEF IInv, TypeOK
<1>3. RowFits(s) /\ FilesFit(s) /\ TasksFit(s)
  BY DEF IInv, Sound
<1>4. TypeOK' /\ Exclusive'
  BY <1>1, <1>2 DEF IInv, TypeOK, Exclusive
<1>5. RowFits(s)' /\ FilesFit(s)'
  BY <1>1, <1>2, <1>3 DEF RowFits, FilesFit
<1>6. TasksFit(s)'
  BY <1>1, <1>2, <1>3 DEF TasksFit, PublicationAt, PublicationDue, CatalogDue, FilesFit
<1>7. ClaimsNothingNew(s) /\ \A r \in Sessions \ {s} : LeavesAlone(r)
  BY <1>1, <1>2 DEF ClaimsNothingNew, LeavesAlone
<1> QED
  BY <1>4, <1>5, <1>6, <1>7, OneSession DEF Sound

-----------------------------------------------------------------------------

(* The invariant is inductive, under every action and the start from which   *)
(* on nothing fails.                                                         *)
LEMMA NextIInv == IInv /\ [Next \/ CalmDown]_vars => IInv'
<1> SUFFICES ASSUME IInv, [Next \/ CalmDown]_vars PROVE IInv'
  OBVIOUS
<1>1. ASSUME NEW s \in Sessions,
             Request(s) \/ Validate(s) \/ Publish(s) \/ Catalog(s) \/ Fault(s)
      PROVE  IInv'
  BY <1>1, RequestPreserves, ValidatePreserves, PublishPreserves, CatalogPreserves,
     DamagePreserves DEF Fault
<1>2. ASSUME NEW w \in Workers, StartPass(w) \/ DiscoveryFails(w) PROVE IInv'
  BY <1>2, PassPreserves
<1>3. CASE ProcessStops \/ PowerLoss \/ CalmDown
  BY <1>3, RestartPreserves
<1>4. CASE UNCHANGED vars
  <2>1. TypeOK' /\ Exclusive'
    BY <1>4 DEF vars, IInv, TypeOK, Exclusive
  <2>2. \A r \in Sessions : LeavesAlone(r) /\ ClaimsNothingNew(r)
    BY <1>4 DEF vars, LeavesAlone, ClaimsNothingNew
  <2>3. \A r \in Sessions : Sound(r)'
    BY <2>2, Frame DEF IInv
  <2>4. OneCanonical' /\ DuplicateOfSomething'
    BY <2>2, ClaimsAreKept DEF IInv
  <2> QED
    BY <2>1, <2>3, <2>4 DEF IInv
<1> QED
  BY <1>1, <1>2, <1>3, <1>4 DEF Next

LEMMA VerifiedRow ==
    ASSUME NEW p \in Publications, p.state = "verified", p.cleanup = "complete", p.media
    PROVE  p = [state |-> "verified", cleanup |-> "complete", media |-> TRUE]
<1>1. /\ p \in [state : {"none", "reserved", "verified"},
               cleanup : {"none", "pending", "complete"}, media : BOOLEAN]
      /\ p.media = TRUE
  BY DEF Publications
<1> QED
  BY <1>1

LEMMA IInvImplies == IInv => BytesKept /\ CatalogedIsClean
<1> SUFFICES ASSUME IInv PROVE BytesKept /\ CatalogedIsClean
  OBVIOUS
<1>1. \A s \in Sessions : RowFits(s) /\ FilesFit(s)
  BY DEF IInv, Sound
<1>2. ASSUME NEW s \in Sessions,
             upload[s].state \in {"received", "validating", "duplicate_pending"} \cup Canonical
      PROVE  staged[s] # "gone" \/ Verified(s) \/ s \in adopted
  BY <1>1, <1>2 DEF FilesFit, Verified, Canonical
<1>3. ASSUME NEW s \in Sessions, upload[s].state = "cataloged"
      PROVE  /\ staged[s] = "gone"
             /\ publication[s] = [state |-> "verified", cleanup |-> "complete", media |-> TRUE]
  <2>1. publication[s] \in Publications
    BY DEF IInv, TypeOK
  <2> QED
    BY <1>1, <1>3, <2>1, VerifiedRow DEF RowFits, FilesFit
<1> QED
  BY <1>2, <1>3 DEF BytesKept, CatalogedIsClean

(* At every moment of every run, with or without a start from which on       *)
(* nothing fails.                                                            *)
Runs == Init /\ [][Next \/ CalmDown]_vars

LEMMA SpecRuns == Spec => Runs
<1>1. [Next]_vars => [Next \/ CalmDown]_vars
  OBVIOUS
<1> QED
  BY <1>1, PTL DEF Spec, Runs

LEMMA CalmingRuns == CalmingSpec => Runs
BY PTL DEF CalmingSpec, Runs

LEMMA Invariance == Runs => []IInv
BY InitIInv, NextIInv, PTL DEF Runs

(* Rows, files and coordinators have their types, whatever is interrupted.   *)
THEOREM TypesAreKept == Spec \/ CalmingSpec => []TypeOK
<1>1. IInv => TypeOK
  BY DEF IInv
<1> QED
  BY <1>1, SpecRuns, CalmingRuns, Invariance, PTL

(* The bytes of an upload nobody gave up stay in quarantine until the        *)
(* library holds them under their final name (publish_owned_blocking,        *)
(* publish_from_reader), for any number of uploads, faults and restarts.     *)
THEOREM BytesAreKept == Spec \/ CalmingSpec => []BytesKept
<1>1. IInv => BytesKept
  BY IInvImplies
<1> QED
  BY <1>1, SpecRuns, CalmingRuns, Invariance, PTL

(* At most one holder of the same bytes has made no decision to be kept      *)
(* separately (complete_validation_success, resolve_duplicate).              *)
THEOREM CanonicalIsOne == Spec \/ CalmingSpec => []OneCanonical
<1>1. IInv => OneCanonical
  BY DEF IInv
<1> QED
  BY <1>1, SpecRuns, CalmingRuns, Invariance, PTL

(* Who is asked about a duplicate, or discards one, has one.                 *)
THEOREM DuplicatesAreReal == Spec \/ CalmingSpec => []DuplicateOfSomething
<1>1. IInv => DuplicateOfSomething
  BY DEF IInv
<1> QED
  BY <1>1, SpecRuns, CalmingRuns, Invariance, PTL

(* Nothing is catalogued before its source has left quarantine and the row   *)
(* says so (_finish_cleanup, commit_cataloged_publication).                  *)
THEOREM CatalogIsClean == Spec \/ CalmingSpec => []CatalogedIsClean
<1>1. IInv => CatalogedIsClean
  BY IInvImplies
<1> QED
  BY <1>1, SpecRuns, CalmingRuns, Invariance, PTL

-----------------------------------------------------------------------------
(* The pipeline implements the lifecycle of upload sessions.                 *)

(* The row of s stays in its state or takes an edge that the lifecycle has;  *)
(* the other rows stay what they are.                                        *)
Along(s) ==
    /\ upload' \in [Sessions -> Uploads]
    /\ \A r \in Sessions \ {s} : upload'[r] = upload[r]
    /\ \/ upload'[s].state = upload[s].state
       \/ upload'[s].state \in Lifecycle!Allowed[upload[s].state]
                                  \cup Lifecycle!Committed(upload[s].state)

LEMMA SetAlong ==
    ASSUME TypeOK, NEW s \in Sessions, NEW x \in States, SetState(s, x),
           \/ x = upload[s].state
           \/ x \in Lifecycle!Allowed[upload[s].state]
                       \cup Lifecycle!Committed(upload[s].state)
    PROVE  Along(s)
BY StateIsSet DEF Along

LEMMA SameAlong == ASSUME TypeOK, NEW s \in Sessions, upload' = upload PROVE Along(s)
BY DEF Along, TypeOK

(* The edges, spelled out.                                                   *)
LEMMA Edges ==
    /\ Lifecycle!Allowed["receiving"] = {"received", "cancelled", "expired", "failed"}
    /\ Lifecycle!Allowed["received"] = {"validating", "cancelled", "expired", "failed"}
    /\ Lifecycle!Allowed["validating"] =
          {"duplicate_pending", "publish_pending", "rejected", "failed"}
    /\ Lifecycle!Allowed["duplicate_pending"] =
          {"publish_pending", "cancelled", "expired", "failed"}
    /\ Lifecycle!Committed("publish_pending") = {"published"}
    /\ Lifecycle!Committed("published") = {"cataloged"}
BY DEF Lifecycle!Allowed, Lifecycle!Committed, Lifecycle!States, Lifecycle!Terminal,
       Lifecycle!Ended

LEMMA SessionAlong ==
    ASSUME IInv, NEW s \in Sessions,
           Request(s) \/ Validate(s) \/ Publish(s) \/ Catalog(s) \/ Fault(s)
    PROVE  Along(s)
<1>0. TypeOK /\ TasksFit(s)
  BY DEF IInv, Sound
<1>1. ASSUME Complete(s) PROVE Along(s)
  <2>1. PICK x \in {"received", "failed"} : SetState(s, x)
    BY <1>1 DEF Complete
  <2>2. x \in States /\ upload[s].state \in {"receiving", "received"}
    BY <1>1 DEF Complete, States
  <2> QED
    BY <1>0, <2>1, <2>2, Edges, SetAlong
<1>2. ASSUME Expire(s) PROVE Along(s)
  <2>1. SetState(s, "expired") /\ "expired" \in States
    BY <1>2 DEF Expire, States
  <2>2. upload[s].state \in {"receiving", "received", "duplicate_pending"}
    BY <1>2 DEF Expire
  <2> QED
    BY <1>0, <2>1, <2>2, Edges, SetAlong
<1>3. ASSUME Cancel(s) PROVE Along(s)
  <2>1. SetState(s, "cancelled") /\ "cancelled" \in States
    BY <1>3 DEF Cancel, States
  <2>2. upload[s].state \in {"receiving", "received", "duplicate_pending", "cancelled"}
    BY <1>3 DEF Cancel
  <2> QED
    BY <1>0, <2>1, <2>2, Edges, SetAlong
<1>4. ASSUME KeepSeparate(s) PROVE Along(s)
  <2>1. /\ upload' = [upload EXCEPT ![s].state = "publish_pending",
                                    ![s].disposition = "keep_separate"]
        /\ "publish_pending" \in States
    BY <1>4 DEF KeepSeparate, States
  <2>2. upload[s].state \in {"duplicate_pending", "publish_pending"}
    BY <1>4 DEF KeepSeparate
  <2>3. /\ upload' \in [Sessions -> Uploads]
        /\ upload'[s].state = "publish_pending"
        /\ \A r \in Sessions \ {s} : upload'[r] = upload[r]
    BY <1>0, <2>1, DecisionIsSet
  <2> QED
    BY <2>2, <2>3, Edges DEF Along
<1>5. ASSUME Discard(s) PROVE Along(s)
  <2>1. /\ upload' = [upload EXCEPT ![s].state = "cancelled", ![s].disposition = "discard"]
        /\ "cancelled" \in States
    BY <1>5 DEF Discard, States
  <2>2. upload[s].state \in {"duplicate_pending", "cancelled"}
    BY <1>5 DEF Discard
  <2>3. /\ upload' \in [Sessions -> Uploads]
        /\ upload'[s].state = "cancelled"
        /\ \A r \in Sessions \ {s} : upload'[r] = upload[r]
    BY <1>0, <2>1, DecisionIsSet
  <2> QED
    BY <2>2, <2>3, Edges DEF Along
<1>6. ASSUME LeaseValidation(s) PROVE Along(s)
  <2>1. CASE upload[s].state \in {"received", "validating"}
    <3>1. SetState(s, "validating") /\ "validating" \in States
      BY <1>6, <2>1 DEF LeaseValidation, States
    <3> QED
      BY <1>0, <2>1, <3>1, Edges, SetAlong
  <2>2. CASE upload[s].state \notin {"received", "validating"}
    BY <1>0, <1>6, <2>2, SameAlong DEF LeaseValidation
  <2> QED
    BY <2>1, <2>2
<1>7. ASSUME Reject(s) \/ FailValidation(s) PROVE Along(s)
  <2>1. PICK x \in {"rejected", "failed"} : SetState(s, x)
    BY <1>7 DEF Reject, FailValidation
  <2>2. x \in States /\ upload[s].state = "validating"
    BY <1>0, <1>7 DEF Reject, FailValidation, At, TasksFit, States
  <2> QED
    BY <1>0, <2>1, <2>2, Edges, SetAlong
<1>8. ASSUME RecordSuccess(s) PROVE Along(s)
  <2>1. upload[s].state = "validating" /\ upload[s] \in Uploads
    BY <1>0, <1>8 DEF RecordSuccess, At, TasksFit, TypeOK
  <2>2. CASE CanonicalExists(s) /\ s \notin Silent
    <3>1. SetState(s, "duplicate_pending") /\ "duplicate_pending" \in States
      BY <1>8, <2>2 DEF RecordSuccess, States
    <3> QED
      BY <1>0, <2>1, <3>1, Edges, SetAlong
  <2>3. CASE ~(CanonicalExists(s) /\ s \notin Silent)
    <3>1. PICK d \in {"none", "keep_separate", "discard"} :
             upload' = [upload EXCEPT ![s].state = "publish_pending", ![s].disposition = d]
      <4> DEFINE e == IF CanonicalExists(s) THEN "keep_separate" ELSE upload[s].disposition
      <4>1. upload' = [upload EXCEPT ![s].state = "publish_pending", ![s].disposition = e]
        BY <1>0, <1>8, <2>1, <2>3 DEF RecordSuccess, TypeOK, Uploads
      <4>2. e \in {"none", "keep_separate", "discard"}
        BY <2>1 DEF Uploads
      <4> QED
        BY <4>1, <4>2, ZenonT(60)
    <3>2. /\ upload' \in [Sessions -> Uploads]
          /\ upload'[s].state = "publish_pending"
          /\ \A r \in Sessions \ {s} : upload'[r] = upload[r]
      BY <1>0, <3>1, DecisionIsSet, ZenonT(60) DEF States
    <3> QED
      BY <2>1, <3>2, Edges DEF Along
  <2> QED
    BY <2>2, <2>3
<1>9. ASSUME CommitPublished(s) PROVE Along(s)
  <2>1. SetState(s, "published") /\ "published" \in States
    BY <1>9 DEF CommitPublished, States
  <2>2. upload[s].state = "publish_pending"
    BY <1>9, UnderPublication DEF CommitPublished, At, PublicationAt
  <2> QED
    BY <1>0, <2>1, <2>2, Edges, SetAlong
<1>10. ASSUME CommitCataloged(s) PROVE Along(s)
  <2>1. SetState(s, "cataloged") /\ "cataloged" \in States
    BY <1>10 DEF CommitCataloged, States
  <2>2. upload[s].state = "published"
    BY <1>0, <1>10 DEF CommitCataloged, At, TasksFit, CatalogDue
  <2> QED
    BY <1>0, <2>1, <2>2, Edges, SetAlong
<1>11. ASSUME upload' = upload PROVE Along(s)
  BY <1>0, <1>11, SameAlong
<1>12. ASSUME LeasePublication(s) \/ Reserve(s) \/ LookAtTarget(s) \/ OpenTemporary(s)
                \/ CopySource(s) \/ FlushTemporary(s) \/ LinkFinal(s) \/ FsyncDirectory(s)
                \/ UnlinkTemporary(s) \/ RemoveSource(s) \/ MarkClean(s)
                \/ PublicationFails(s) \/ LeaseCatalog(s) \/ Examine(s) \/ Fault(s)
       PROVE  upload' = upload
  BY <1>12
     DEF LeasePublication, Reserve, LookAtTarget, OpenTemporary, CopySource, FlushTemporary,
         LinkFinal, FsyncDirectory, UnlinkTemporary, RemoveSource, MarkClean,
         PublicationFails, LeaseCatalog, Examine, Fault, ClaimFails, RecordFails,
         CatalogFails, Damage, AtTarget
<1> QED
  BY <1>1, <1>2, <1>3, <1>4, <1>5, <1>6, <1>7, <1>8, <1>9, <1>10, <1>11, <1>12
     DEF Request, Validate, Publish, Catalog

LEMMA StepAlong ==
    IInv /\ [Next \/ CalmDown]_vars =>
        [Lifecycle!Next]_([s \in Sessions |-> upload[s].state])
<1> SUFFICES ASSUME IInv, [Next \/ CalmDown]_vars
             PROVE  [Lifecycle!Next]_([s \in Sessions |-> upload[s].state])
  OBVIOUS
<1> DEFINE st == [s \in Sessions |-> upload[s].state]
<1>1. ASSUME NEW s \in Sessions, Along(s) PROVE [Lifecycle!Next]_st
  <2>1. CASE upload'[s].state = upload[s].state
    <3>1. st' = st
      BY <1>1, <2>1 DEF Along
    <3> QED
      BY <3>1
  <2>2. CASE upload'[s].state \in Lifecycle!Allowed[upload[s].state]
                                     \cup Lifecycle!Committed(upload[s].state)
    <3>1. st' = [st EXCEPT ![s] = upload'[s].state]
      BY <1>1 DEF Along
    <3>2. upload'[s].state \in Lifecycle!Allowed[st[s]] \cup Lifecycle!Committed(st[s])
      BY <2>2
    <3>3. Lifecycle!Move(s)
      BY <3>1, <3>2 DEF Lifecycle!Move
    <3> QED
      BY <3>3 DEF Lifecycle!Next
  <2> QED
    BY <1>1, <2>1, <2>2 DEF Along
<1>2. ASSUME upload' = upload PROVE [Lifecycle!Next]_st
  BY <1>2
<1>3. ASSUME (\E w \in Workers : StartPass(w) \/ DiscoveryFails(w))
                \/ ProcessStops \/ PowerLoss \/ CalmDown \/ UNCHANGED vars
      PROVE  upload' = upload
  BY <1>3 DEF StartPass, DiscoveryFails, ProcessStops, PowerLoss, CalmDown, vars
<1> QED
  BY <1>1, <1>2, <1>3, SessionAlong DEF Next

(* Every commit of the repositories keeps to the transition table of         *)
(* domain/uploads.py and the two edges beside it.                            *)
THEOREM PipelineImplementsLifecycle == Spec \/ CalmingSpec => ImplementsLifecycle
<1>1. Init => Lifecycle!Init
  BY DEF Init, Lifecycle!Init
<1>2. Runs => ImplementsLifecycle
  BY <1>1, Invariance, StepAlong, PTL DEF Runs, ImplementsLifecycle, Lifecycle!Spec
<1> QED
  BY <1>2, SpecRuns, CalmingRuns, PTL
================================================================================
