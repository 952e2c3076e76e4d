------------------------- MODULE CaptureBridge_proofs -------------------------
(* Proofs about the capture bridge, for any number of prompts, managers,        *)
(* runners and faults.  The argument is about ledgers: every handler turns the  *)
(* one it works on into one that continues it, a commit only succeeds on a copy *)
(* that equals the journal, and so the journal is continued by every step.      *)
EXTENDS CaptureBridge, FiniteSetTheorems, TLAPS

\* At most one job is active.
OneAtATime(L) == \A i, j \in Active(L) : i = j

\* Only a blocked service has an intervention.
Sealed(L) == L.service.issue # 0 => L.service.state = "blocked"

\* A ledger as handlers leave it, with identities up to n.
Sound(L, n) ==
    /\ L \in Ledgers(n)
    /\ \A j \in Requests : Shaped(L.jobs[j])
    /\ OneAtATime(L)
    /\ Sealed(L)

\* What is in K after L: ends stay, nothing is forgotten, no permission to send
\* is taken back.
Continues(L, K) ==
    \A j \in Requests :
        /\ L.jobs[j].status \in Ended => K.jobs[j] = L.jobs[j]
        /\ L.jobs[j].status # "absent" => K.jobs[j].status # "absent"
        /\ L.jobs[j].submission # "not_started" => K.jobs[j].submission # "not_started"

\* What a resume names, and the uncertain ends that go with it in L.
View(L) == [job |-> ActiveJob(L), issue |-> Issue(L), known |-> Uncertain(L)]
Views == [job : Requests \cup {None}, issue : Nat, known : SUBSET Requests]

\* Whoever read v knows every uncertain end of L as long as v still names what is
\* active or blocked there.
Told(v, L) ==
    /\ v.job # None =>
          /\ L.jobs[v.job].status # "absent"
          /\ v.job \in Active(L) => Uncertain(L) \subseteq v.known
    /\ v.job = None /\ v.issue # 0 =>
          /\ \A j \in Active(L) : L.jobs[j].issue # v.issue
          /\ L.service.issue = v.issue => Active(L) = {} /\ Uncertain(L) \subseteq v.known

\* What was read of L is still true of K, unless it names an identity drawn now.
Tells(L, K) == \A v \in Views : v.issue # New /\ Told(v, L) => Told(v, K)

\* The service is open, or will be as soon as a runner is ready.
IsOpen(L) == L.service.state # "blocked" \/ L.service.resume # 0

\* That is so only when an administrator knows every uncertain end.
Cleared(L) == IsOpen(L) => Uncertain(L) \subseteq reviewed'

\* What a handler makes of L.
Grown(L, K) ==
    /\ Sound(K, New)
    /\ Continues(L, K)
    /\ K.service.epoch = L.service.epoch
    /\ Tells(L, K)
    /\ Cleared(L) => Cleared(K)

\* The managers are told apart by their epochs, none is ahead of the journal, and
\* what each one knows is still true there.
ManagersFenced ==
    /\ \A m \in Managers : manager[m].up =>
          /\ Service(m).epoch <= journal.service.epoch
          /\ Continues(Ledger(m), journal)
    /\ \A m, n \in Managers :
          manager[m].up /\ manager[n].up /\ Service(m).epoch = Service(n).epoch => m = n

\* A runner at work has a job, and what it delivers is an end.
Busy(state) ==
    /\ state.pc \in Executing \cup {"delivering"} => state.job \in Requests
    /\ state.pc = "delivering" => state.outcome \in Ended

RunnersBusy == \A r \in Runners : Busy(runner[r])

\* r is about to click for j.
Clicking(r, j) == runner[r].pc = "clicking" /\ runner[r].job = j

\* A permission is given once, to one runner, and used once.
ClicksOnce ==
    \A j \in Requests :
        /\ clicks[j] <= 1
        /\ journal.jobs[j].submission = "not_started" =>
              clicks[j] = 0 /\ \A r \in Runners : ~Clicking(r, j)
        /\ \A r \in Runners : Clicking(r, j) => clicks[j] = 0
        /\ \A r, s \in Runners : Clicking(r, j) /\ Clicking(s, j) => r = s

\* The part of the invariant that speaks of ledgers.
LedgersKept ==
    /\ ids \in Nat
    /\ Sound(journal, ids)
    /\ manager \in [Managers -> [up : BOOLEAN, usable : BOOLEAN, heard : BOOLEAN,
                                 ledger : Ledgers(ids)]]
    /\ \A m \in Managers : Sound(Ledger(m), ids)
    /\ ManagersFenced
    /\ CopyIsJournal

\* What a step does to them.
StepKept ==
    /\ LedgersKept'
    /\ Continues(journal, journal')
    /\ ids' >= ids
    /\ Tells(journal, journal')
    /\ Cleared(journal) => Cleared(journal')
    /\ \A m \in Managers : manager'[m].up =>
          \/ manager[m].up /\ manager'[m].ledger = manager[m].ledger
          \/ Told(View(manager'[m].ledger), journal')

-------------------------------------------------------------------------------
(* Facts about ledgers.                                                         *)

LEMMA LedgersGrow ==
    ASSUME NEW n \in Nat, NEW k \in Nat, n <= k
    PROVE  /\ Jobs(n) \subseteq Jobs(k)
           /\ Ledgers(n) \subseteq Ledgers(k)
           /\ RunnerStates(n) \subseteq RunnerStates(k)
           /\ \A L : Sound(L, n) => Sound(L, k)
<1>1. 0..n \subseteq 0..k
  OBVIOUS
<1>2. Jobs(n) \subseteq Jobs(k) /\ Services(n) \subseteq Services(k)
  BY <1>1 DEF Jobs, Services
<1>3. Ledgers(n) \subseteq Ledgers(k)
  BY <1>2 DEF Ledgers
<1>4. RunnerStates(n) \subseteq RunnerStates(k)
  BY <1>1 DEF RunnerStates
<1> QED
  BY <1>2, <1>3, <1>4 DEF Sound

LEMMA ContinuesItself == \A L : Continues(L, L)
BY DEF Continues

LEMMA ContinuesOn ==
    ASSUME NEW L, NEW K, NEW M, Continues(L, K), Continues(K, M)
    PROVE  Continues(L, M)
BY DEF Continues

(* A ledger that was sound stays so when it is committed again.                 *)
LEMMA GrownItself ==
    ASSUME ids \in Nat, NEW L, Sound(L, New)
    PROVE  Grown(L, L)
BY ContinuesItself DEF Grown, Tells

LEMMA GrownOn ==
    ASSUME NEW L, NEW K, NEW M, Grown(L, K), Grown(K, M)
    PROVE  Grown(L, M)
BY ContinuesOn DEF Grown, Tells

(* What somebody reads of a ledger is true of it.                               *)
LEMMA ViewTyped ==
    ASSUME NEW n \in Nat, NEW L, Sound(L, n)
    PROVE  View(L) \in Views /\ View(L).issue <= n /\ Told(View(L), L)
<1>1. /\ \A j \in Requests : L.jobs[j].issue \in 0..n
      /\ L.service.issue \in 0..n
  BY DEF Sound, Ledgers, Jobs, Services
<1>2. /\ ActiveJob(L) \in Requests \cup {None}
      /\ ActiveJob(L) = None => Active(L) = {}
      /\ ActiveJob(L) # None => ActiveJob(L) \in Active(L)
  BY CaptureAssumption DEF ActiveJob, Active
<1>3. Issue(L) \in 0..n
  BY <1>1, <1>2 DEF Issue
<1>4. Uncertain(L) \subseteq Requests
  BY DEF Uncertain
<1> QED
  BY <1>2, <1>3, <1>4 DEF View, Views, Told, Active, InFlight

LEMMA SoundNow ==
    ASSUME LedgersKept
    PROVE  /\ ids \in Nat
           /\ Sound(journal, New)
           /\ \A m \in Managers : Sound(Ledger(m), New)
BY LedgersGrow DEF LedgersKept, New

(* The new identity is drawn when a ledger names it.                            *)
LEMMA Drawn ==
    ASSUME ids \in Nat, NEW made, Draw(made)
    PROVE  /\ ids' \in Nat /\ ids' >= ids
           /\ \A L \in made : Sound(L, New) => Sound(L, ids')
           /\ \A L : Sound(L, ids) => Sound(L, ids')
<1>1. ids' \in {ids, New} /\ New \in Nat /\ New >= ids /\ New = ids + 1
  BY DEF Draw, New
<1>2. \A L : Sound(L, ids) => Sound(L, ids')
  BY <1>1, LedgersGrow
<1>3. ASSUME NEW L \in made, Sound(L, New), ids' # New PROVE Sound(L, ids')
  <2>1. New \notin Named(L) /\ ids' = ids
    BY <1>1, <1>3 DEF Draw
  <2>2. L \in Ledgers(New)
    BY <1>3 DEF Sound
  <2>3. L.service \in Services(ids)
    BY <1>1, <2>1, <2>2 DEF Ledgers, Services, Named
  <2>4. ASSUME NEW j \in Requests PROVE L.jobs[j] \in Jobs(ids)
    <3>1. L.jobs[j].issue \in 0..New /\ L.jobs[j].issue # New
      BY <2>1, <2>2 DEF Ledgers, Jobs, Named
    <3> QED
      BY <1>1, <2>2, <3>1 DEF Ledgers, Jobs
  <2>5. L \in Ledgers(ids)
    BY <2>2, <2>3, <2>4 DEF Ledgers
  <2> QED
    BY <1>3, <2>1, <2>5 DEF Sound
<1> QED
  BY <1>1, <1>2, <1>3

(* How to see that a handler's ledger continues the one it works on: active     *)
(* jobs keep their permission, all others are left alone.                       *)
LEMMA JobsMove ==
    ASSUME ids \in Nat, NEW L, Sound(L, New), NEW K \in Ledgers(New), Sealed(K),
           \A j \in Requests :
              \/ K.jobs[j] = L.jobs[j]
              \/ /\ j \in Active(L)
                 /\ K.jobs[j].status # "absent"
                 /\ Shaped(K.jobs[j])
                 /\ L.jobs[j].submission # "not_started" => K.jobs[j].submission # "not_started"
                 /\ K.jobs[j].status \in Ended \/ K.jobs[j].issue \in {0, New, L.jobs[j].issue},
           \/ K.service.issue \in {0, New, L.service.issue}
           \/ \E j \in Active(L) : K.service.issue = L.jobs[j].issue
    PROVE  Sound(K, New) /\ Continues(L, K) /\ Tells(L, K)
<1>1. Active(K) \subseteq Active(L)
  BY DEF Active, Ended, InFlight
<1>2. \A j \in Requests : Shaped(K.jobs[j])
  BY DEF Sound
<1>3. OneAtATime(K) /\ OneAtATime(L)
  BY <1>1 DEF Sound, OneAtATime
<1>4. Continues(L, K)
  BY DEF Continues, Active, Ended, InFlight
<1>5. \A j \in Active(K) : j \in Active(L) /\ K.jobs[j].issue \in {0, New, L.jobs[j].issue}
  BY <1>1 DEF Active, Ended, InFlight
<1>6. \A j \in Uncertain(K) : j \in Uncertain(L) \/ (j \in Active(L) /\ j \notin Active(K))
  BY <1>2 DEF Uncertain, Shaped, Active, Ended, InFlight
<1>7. ASSUME NEW v \in Views, v.issue # New, Told(v, L)
      PROVE  Told(v, K)
  <2>1. CASE v.job # None
    <3>1. v.job \in Requests /\ K.jobs[v.job].status # "absent"
      BY <1>4, <1>7, <2>1 DEF Views, Told, Continues
    <3>2. ASSUME v.job \in Active(K) PROVE Uncertain(K) \subseteq v.known
      <4>1. Uncertain(L) \subseteq v.known /\ \A j \in Active(L) : j = v.job
        BY <1>3, <1>5, <1>7, <2>1, <3>2 DEF Told, OneAtATime
      <4> QED
        BY <1>6, <3>2, <4>1
    <3> QED
      BY <2>1, <3>1, <3>2 DEF Told
  <2>2. CASE v.job = None /\ v.issue # 0
    <3>1. /\ \A j \in Active(L) : L.jobs[j].issue # v.issue
          /\ L.service.issue = v.issue => Active(L) = {} /\ Uncertain(L) \subseteq v.known
      BY <1>7, <2>2 DEF Told
    <3>2. \A j \in Active(K) : K.jobs[j].issue # v.issue
      BY <1>5, <1>7, <2>2, <3>1
    <3>3. K.service.issue = v.issue => L.service.issue = v.issue
      BY <1>7, <2>2, <3>1
    <3>4. K.service.issue = v.issue => Active(K) = {} /\ Uncertain(K) \subseteq v.known
      BY <1>1, <1>6, <3>1, <3>3
    <3> QED
      BY <2>2, <3>2, <3>4 DEF Told
  <2>3. CASE v.job = None /\ v.issue = 0
    BY <2>3 DEF Told
  <2> QED
    BY <2>1, <2>2, <2>3
<1> QED
  BY <1>2, <1>3, <1>4, <1>7 DEF Sound, Tells

\* The handler of one job, which may touch the service record as well.
LEMMA OneJobMoves ==
    ASSUME ids \in Nat, NEW L, Sound(L, New), NEW j \in Active(L),
           NEW job \in Jobs(New), NEW service \in Services(New),
           service.epoch = L.service.epoch, job.status # "absent", Shaped(job),
           L.jobs[j].submission # "not_started" => job.submission # "not_started",
           job.status \in Ended \/ job.issue \in {0, New, L.jobs[j].issue},
           service.issue \in {0, New, L.service.issue, L.jobs[j].issue},
           service.issue # 0 => service.state = "blocked",
           service.state # "blocked" \/ service.resume # 0 => IsOpen(L) /\ job.end # "unknown"
    PROVE  Grown(L, [jobs |-> [L.jobs EXCEPT ![j] = job], service |-> service])
<1> DEFINE K == [jobs |-> [L.jobs EXCEPT ![j] = job], service |-> service]
<1>1. L \in Ledgers(New) /\ j \in Requests
  BY LedgersGrow DEF Sound, New, Active
<1>2. K \in Ledgers(New)
  BY <1>1 DEF Ledgers
<1>3. \A i \in Requests : K.jobs[i] = IF i = j THEN job ELSE L.jobs[i]
  BY <1>1 DEF Ledgers
<1>4. K.service.epoch = L.service.epoch /\ K.service = service /\ Sealed(K)
  BY DEF Sealed
<1> HIDE DEF K
<1>5. Sound(K, New) /\ Continues(L, K) /\ Tells(L, K)
  BY <1>2, <1>3, <1>4, JobsMove
<1>6. Cleared(L) => Cleared(K)
  BY <1>3, <1>4 DEF Cleared, IsOpen, Uncertain
<1> QED
  BY <1>4, <1>5, <1>6 DEF Grown, K

\* A handler of the service record alone.
LEMMA ServiceMoves ==
    ASSUME ids \in Nat, NEW L, Sound(L, New), NEW service \in Services(New),
           service.epoch = L.service.epoch,
           service.issue \in {0, New, L.service.issue},
           service.issue # 0 => service.state = "blocked",
           service.state # "blocked" \/ service.resume # 0 =>
               IsOpen(L) \/ Uncertain(L) \subseteq reviewed'
    PROVE  Grown(L, [jobs |-> L.jobs, service |-> service])
<1> DEFINE K == [jobs |-> L.jobs, service |-> service]
<1>1. L \in Ledgers(New)
  BY LedgersGrow DEF Sound, New
<1>2. K \in Ledgers(New)
  BY <1>1 DEF Ledgers
<1>3. \A i \in Requests : K.jobs[i] = L.jobs[i]
  OBVIOUS
<1>4. K.service.epoch = L.service.epoch /\ K.service = service /\ Sealed(K)
  BY DEF Sealed
<1> HIDE DEF K
<1>5. Sound(K, New) /\ Continues(L, K) /\ Tells(L, K)
  BY <1>2, <1>3, <1>4, JobsMove
<1>6. Cleared(L) => Cleared(K)
  BY <1>3, <1>4 DEF Cleared, IsOpen, Uncertain
<1> QED
  BY <1>4, <1>5, <1>6 DEF Grown, K

\* EXCEPT on a ledger, field by field.
LEMMA Written ==
    ASSUME NEW n, NEW L \in Ledgers(n), NEW j \in Requests, NEW job, NEW service
    PROVE  /\ [L EXCEPT !.jobs[j] = job] = [jobs |-> [L.jobs EXCEPT ![j] = job], service |-> L.service]
           /\ [L EXCEPT !.service = service] = [jobs |-> L.jobs, service |-> service]
           /\ L = [jobs |-> L.jobs, service |-> L.service]
           /\ L.jobs \in [Requests -> Jobs(n)] /\ L.service \in Services(n)
BY DEF Ledgers

LEMMA BlockedService ==
    ASSUME ids \in Nat, NEW service \in Services(New)
    PROVE  /\ Block(service) \in Services(New) /\ Block(service).epoch = service.epoch
           /\ Block(service).state = "blocked" /\ Block(service).resume = 0
           /\ Block(service).issue \in {New, service.issue}
<1> DEFINE issue == IF service.issue = 0 THEN New ELSE service.issue
<1>1. New \in 0..New /\ 0 \in 0..New
  BY DEF New
<1>2. issue \in 0..New
  BY <1>1 DEF Services
<1>3. /\ [service EXCEPT !.state = "blocked", !.resume = 0, !.issue = issue] \in Services(New)
      /\ Block(service).epoch = service.epoch
      /\ Block(service).state = "blocked" /\ Block(service).resume = 0
      /\ Block(service).issue \in {New, service.issue}
  BY <1>1, <1>2 DEF Services, Block
<1> QED
  BY <1>3 DEF Block

-------------------------------------------------------------------------------
(* The ends a handler's ledger can meet.                                        *)

\* A manager's record, with well-typed fields.
ManagerRecord(n) == [up : BOOLEAN, usable : BOOLEAN, heard : BOOLEAN, ledger : Ledgers(n)]

(* Nothing is committed, and no manager learns or gains anything.               *)
LEMMA JournalStays ==
    ASSUME LedgersKept, UNCHANGED <<journal, ids>>,
           manager' \in [Managers -> ManagerRecord(ids)],
           \A m \in Managers :
              \/ ~manager'[m].up /\ Sound(manager'[m].ledger, ids)
              \/ /\ manager'[m].up => manager[m].up
                 /\ manager'[m].usable => manager[m].usable
                 /\ manager'[m].ledger = manager[m].ledger
    PROVE  StepKept
<1>1. \A m \in Managers : Sound(Ledger(m), ids)'
  BY DEF LedgersKept, Ledger, Sound, Ledgers, Jobs, Services, Sealed
<1>2. ManagersFenced'
  BY DEF LedgersKept, ManagersFenced, Service, Ledger, Continues
<1>3. CopyIsJournal'
  BY DEF LedgersKept, CopyIsJournal, Works, Current, Service, Ledger
<1>4. Sound(journal, ids)'
  BY DEF LedgersKept, Sound, Ledgers, Jobs, Services, Sealed
<1> QED
  BY <1>1, <1>2, <1>3, <1>4, ContinuesItself DEF StepKept, LedgersKept, ManagerRecord, Tells, Ledger

(* A manager whose epoch is the journal's commits what continues its copy.      *)
LEMMA CommitKept ==
    ASSUME LedgersKept, NEW m \in Managers, NEW L, Works(m), Current(m),
           Grown(Ledger(m), L), journal' = L, ids' \in Nat, ids' >= ids,
           Sound(L, ids'), \A K : Sound(K, ids) => Sound(K, ids'),
           \E heard \in BOOLEAN :
              manager' = [manager EXCEPT ![m].ledger = L, ![m].heard = heard]
    PROVE  StepKept
<1>1. Ledger(m) = journal
  BY DEF LedgersKept, CopyIsJournal
<1>2. Continues(journal, L) /\ L.service.epoch = journal.service.epoch
  BY <1>1 DEF Grown
<1>3. /\ manager'[m].ledger = L
      /\ manager'[m].up /\ manager[m].up
      /\ \A n \in Managers \ {m} : manager'[n] = manager[n]
      /\ \A n \in Managers : Sound(manager'[n].ledger, ids')
  BY DEF LedgersKept, Works, Ledger
<1>4. manager' \in [Managers -> ManagerRecord(ids')]
  BY <1>3, ZenonT(60) DEF LedgersKept, ManagerRecord, Sound
<1>5. ASSUME NEW n \in Managers, manager'[n].up
      PROVE  /\ manager'[n].ledger.service.epoch <= L.service.epoch
             /\ Continues(manager'[n].ledger, L)
  <2>1. CASE n = m
    BY <1>3, <2>1, ContinuesItself DEF Sound, Ledgers, Services
  <2>2. CASE n # m
    <3>1. /\ Service(n).epoch <= journal.service.epoch
          /\ Continues(Ledger(n), journal)
      BY <1>3, <1>5, <2>2 DEF LedgersKept, ManagersFenced
    <3> QED
      BY <1>2, <1>3, <2>2, <3>1, ContinuesOn DEF Ledger, Service
  <2> QED
    BY <2>1, <2>2
<1>6. \A n, k \in Managers :
          manager'[n].up /\ manager'[k].up
          /\ manager'[n].ledger.service.epoch = manager'[k].ledger.service.epoch => n = k
  BY <1>1, <1>2, <1>3 DEF LedgersKept, ManagersFenced, Service, Ledger
<1>7. \A n \in Managers :
          manager'[n].up /\ manager'[n].ledger.service.epoch = L.service.epoch
             => manager'[n].ledger = L
  BY <1>3, <1>6
<1>8. LedgersKept'
  BY <1>3, <1>4, <1>5, <1>6, <1>7
     DEF LedgersKept, ManagersFenced, CopyIsJournal, Works, Current, Service, Ledger,
         ManagerRecord
<1>9. Tells(journal, journal') /\ (Cleared(journal) => Cleared(journal'))
  BY <1>1 DEF Grown
<1>10. ASSUME NEW n \in Managers, manager'[n].up
       PROVE  \/ manager[n].up /\ manager'[n].ledger = manager[n].ledger
              \/ Told(View(manager'[n].ledger), journal')
  BY <1>3, <1>10, ViewTyped
<1> QED
  BY <1>2, <1>8, <1>9, <1>10 DEF StepKept

(* A manager that another one has fenced serves no more.                        *)
LEMMA FencedKept ==
    ASSUME LedgersKept, NEW m \in Managers, NEW B, NEW L, ~Current(m), CommitFails(m, B, L)
    PROVE  StepKept
<1>1. manager' = [manager EXCEPT ![m].usable = FALSE] /\ UNCHANGED <<journal, ids>>
  BY DEF CommitFails
<1>2. manager' \in [Managers -> ManagerRecord(ids)]
  BY <1>1 DEF LedgersKept, ManagerRecord
<1>3. \A n \in Managers :
          /\ manager'[n].up => manager[n].up
          /\ manager'[n].usable => manager[n].usable
          /\ manager'[n].ledger = manager[n].ledger
  BY <1>1 DEF LedgersKept
<1> QED
  BY <1>1, <1>2, <1>3, JournalStays

(* A commit that fails leaves the journal as it was, or as it should become,    *)
(* and a manager that serves no more.                                           *)
LEMMA FailureKept ==
    ASSUME LedgersKept, NEW m \in Managers, NEW B, NEW L,
           Grown(Ledger(m), B), Grown(B, L), Told(View(B), L), CommitFails(m, B, L)
    PROVE  StepKept
<1>1. CASE ~Current(m)
  BY <1>1, FencedKept
<1>2. CASE Current(m)
  <2>1. /\ journal' \in {B, L} /\ Draw({B, L})
        /\ manager' = [manager EXCEPT ![m].usable = FALSE, ![m].ledger = B]
        /\ Works(m)
    BY <1>2 DEF CommitFails
  <2>2. Ledger(m) = journal
    BY <1>2, <2>1 DEF LedgersKept, CopyIsJournal
  <2>3. /\ ids' \in Nat /\ ids' >= ids
        /\ Sound(B, ids') /\ Sound(L, ids')
        /\ \A K : Sound(K, ids) => Sound(K, ids')
    BY <2>1, Drawn DEF LedgersKept, Grown
  <2>4. /\ Continues(journal, B) /\ Continues(B, journal') /\ Continues(journal, journal')
        /\ journal'.service.epoch = journal.service.epoch
        /\ B.service.epoch = journal.service.epoch
    BY <2>1, <2>2, ContinuesItself, GrownOn DEF Grown
  <2>5. /\ manager'[m].ledger = B /\ ~manager'[m].usable
        /\ manager'[m].up /\ manager[m].up
        /\ \A n \in Managers \ {m} : manager'[n] = manager[n]
        /\ \A n \in Managers : Sound(manager'[n].ledger, ids')
    BY <2>1, <2>3 DEF LedgersKept, Works, Ledger
  <2>6. manager' \in [Managers -> ManagerRecord(ids')]
    <3>1. ASSUME NEW n \in Managers PROVE manager'[n] \in ManagerRecord(ids')
      <4>1. manager'[n].ledger \in Ledgers(ids')
        BY <2>5 DEF Sound
      <4>2. CASE n = m
        BY <2>1, <2>3, <4>2, ZenonT(60) DEF LedgersKept, ManagerRecord, Sound
      <4>3. CASE n # m
        BY <2>5, <4>1, <4>3 DEF LedgersKept, ManagerRecord
      <4> QED
        BY <4>2, <4>3
    <3>2. manager' = [n \in Managers |-> manager'[n]]
      BY <2>1 DEF LedgersKept
    <3> QED
      BY <3>1, <3>2
  <2>7. ASSUME NEW n \in Managers, manager'[n].up
        PROVE  /\ manager'[n].ledger.service.epoch <= journal'.service.epoch
               /\ Continues(manager'[n].ledger, journal')
    <3>1. CASE n = m
      BY <2>4, <2>5, <3>1 DEF LedgersKept, Sound, Ledgers, Services
    <3>2. CASE n # m
      <4>1. /\ Service(n).epoch <= journal.service.epoch
            /\ Continues(Ledger(n), journal)
        BY <2>5, <2>7, <3>2 DEF LedgersKept, ManagersFenced
      <4> QED
        BY <2>4, <2>5, <3>2, <4>1, ContinuesOn DEF Ledger, Service
    <3> QED
      BY <3>1, <3>2
  <2>8. \A n, k \in Managers :
            manager'[n].up /\ manager'[k].up
            /\ manager'[n].ledger.service.epoch = manager'[k].ledger.service.epoch => n = k
    BY <2>2, <2>4, <2>5 DEF LedgersKept, ManagersFenced, Service, Ledger
  <2>9. \A n \in Managers :
            manager'[n].up /\ manager'[n].usable
               => manager'[n].ledger.service.epoch # journal'.service.epoch
    BY <2>4, <2>5, <2>8
  <2>10. LedgersKept'
    BY <2>1, <2>3, <2>4, <2>5, <2>6, <2>7, <2>8, <2>9
       DEF LedgersKept, ManagersFenced, CopyIsJournal, Works, Current, Service, Ledger,
           ManagerRecord
  <2>11. Tells(journal, journal') /\ (Cleared(journal) => Cleared(journal'))
    <3>1. journal' = B \/ journal' = L
      BY <2>1
    <3>2. Grown(journal, B) /\ Grown(B, L)
      BY <2>2
    <3>3. CASE journal' = B
      BY <3>2, <3>3 DEF Grown
    <3>4. CASE journal' = L
      BY <3>2, <3>4 DEF Grown, Tells
    <3> QED
      BY <3>1, <3>3, <3>4
  <2>12. ASSUME NEW n \in Managers, manager'[n].up
         PROVE  \/ manager[n].up /\ manager'[n].ledger = manager[n].ledger
                \/ Told(View(manager'[n].ledger), journal')
    <3>1. CASE n # m
      BY <2>5, <2>12, <3>1
    <3>2. CASE n = m
      <4>1. Told(View(B), B) /\ Told(View(B), L)
        BY <2>3, ViewTyped
      <4> QED
        BY <2>1, <2>5, <3>2, <4>1
    <3> QED
      BY <3>1, <3>2
  <2> QED
    BY <2>3, <2>4, <2>10, <2>11, <2>12 DEF StepKept
<1> QED
  BY <1>1, <1>2

\* What is read of a copy is still true of what a handler makes of it.
LEMMA CopyTold ==
    ASSUME LedgersKept, NEW m \in Managers, NEW L, Grown(Ledger(m), L)
    PROVE  Told(View(Ledger(m)), L)
<1>1. Sound(Ledger(m), ids) /\ ids \in Nat
  BY DEF LedgersKept
<1>2. /\ View(Ledger(m)) \in Views /\ View(Ledger(m)).issue <= ids
      /\ Told(View(Ledger(m)), Ledger(m))
  BY <1>1, ViewTyped
<1>3. View(Ledger(m)).issue # New
  BY <1>1, <1>2 DEF New, Views
<1> QED
  BY <1>2, <1>3 DEF Grown, Tells

(* Whatever becomes of the reply, a handler keeps the ledgers.                  *)
LEMMA CallKept ==
    ASSUME LedgersKept, NEW m \in Managers, NEW L, Grown(Ledger(m), L),
           Commit(m, L) \/ CommitFails(m, Ledger(m), L)
    PROVE  StepKept
<1>1. CASE Commit(m, L)
  <2>1. /\ ids' \in Nat /\ ids' >= ids /\ Sound(L, ids')
        /\ \A K : Sound(K, ids) => Sound(K, ids')
    BY <1>1, Drawn DEF Commit, LedgersKept, Grown
  <2>2. manager' = [manager EXCEPT ![m].ledger = L, ![m].heard = manager[m].heard]
    BY <1>1 DEF Commit, LedgersKept
  <2>3. manager[m].heard \in BOOLEAN
    BY DEF LedgersKept
  <2> QED
    BY <1>1, <2>1, <2>2, <2>3, CommitKept DEF Commit
<1>2. CASE CommitFails(m, Ledger(m), L)
  <2>1. Grown(Ledger(m), Ledger(m))
    BY GrownItself, SoundNow
  <2>2. Told(View(Ledger(m)), L)
    BY CopyTold
  <2> QED
    BY <1>2, <2>1, <2>2, FailureKept
<1> QED
  BY <1>1, <1>2

LEMMA UnchangedKept ==
    ASSUME LedgersKept, UNCHANGED <<journal, manager, ids>>
    PROVE  StepKept
BY JournalStays DEF LedgersKept, ManagerRecord

-------------------------------------------------------------------------------
(* What the handlers make of a ledger.                                          *)

\* A job in flight that nobody reports on.
LEMMA LostJob ==
    ASSUME NEW n, NEW job \in Jobs(n)
    PROVE  /\ Lost(job) \in Jobs(n) /\ Lost(job).status = "failed"
           /\ Lost(job).submission = job.submission /\ Lost(job).status \in Ended
           /\ ~job.held => Shaped(Lost(job))
BY DEF Lost, Jobs, Shaped, Ended, InFlight

LEMMA DispossessedGrows ==
    ASSUME ids \in Nat, NEW L, Sound(L, New)
    PROVE  Grown(L, Dispossessed(L))
<1>1. CASE Flying(L) = {}
  BY <1>1, GrownItself DEF Dispossessed
<1>2. CASE Flying(L) # {}
  <2> DEFINE K == [jobs |-> [j \in Requests |-> IF j \in Flying(L) THEN Lost(L.jobs[j])
                                                ELSE L.jobs[j]],
                   service |-> Block(L.service)]
  <2>1. Dispossessed(L) = K
    BY <1>2 DEF Dispossessed
  <2>2. L \in Ledgers(New)
    BY LedgersGrow DEF Sound, New
  <2>3. /\ Block(L.service) \in Services(New) /\ K.service.epoch = L.service.epoch
        /\ K.service.state = "blocked" /\ K.service.resume = 0
        /\ K.service.issue \in {New, L.service.issue}
    BY <2>2, BlockedService DEF Ledgers
  <2>4. ASSUME NEW j \in Requests
        PROVE  /\ K.jobs[j] \in Jobs(New)
               /\ K.jobs[j] # L.jobs[j] =>
                    /\ j \in Active(L) /\ K.jobs[j].status \in Ended /\ Shaped(K.jobs[j])
                    /\ K.jobs[j].submission = L.jobs[j].submission
    <3>1. L.jobs[j] \in Jobs(New) /\ Shaped(L.jobs[j])
      BY <2>2 DEF Ledgers, Sound
    <3>2. CASE j \in Flying(L)
      <4>1. K.jobs[j] = Lost(L.jobs[j]) /\ j \in Active(L) /\ ~L.jobs[j].held
        BY <3>1, <3>2 DEF Flying, Active, Shaped, InFlight
      <4> QED
        BY <3>1, <4>1, LostJob
    <3>3. CASE j \notin Flying(L)
      BY <3>1, <3>3
    <3> QED
      BY <3>2, <3>3
  <2>5. K \in Ledgers(New)
    BY <2>3, <2>4 DEF Ledgers
  <2> HIDE DEF K
  <2>6. Sealed(K) /\ ~IsOpen(K)
    BY <2>3 DEF Sealed, IsOpen
  <2>7. Sound(K, New) /\ Continues(L, K) /\ Tells(L, K)
    BY <2>3, <2>4, <2>5, <2>6, JobsMove DEF Ended
  <2> QED
    BY <2>1, <2>3, <2>6, <2>7 DEF Grown, Cleared
<1> QED
  BY <1>1, <1>2

LEMMA NotReadyGrows ==
    ASSUME ids \in Nat, NEW L, Sound(L, New), NEW r \in Runners, NEW resume
    PROVE  Grown(L, NotReady(L, r, resume))
<1> DEFINE kept == IF resume = L.service.resume THEN 0 ELSE L.service.resume
           service == [Block(L.service) EXCEPT !.runner = r, !.resume = kept]
           target == ActiveJob(L)
           job == [L.jobs[target] EXCEPT !.held = TRUE,
                                         !.issue = IF L.jobs[target].held THEN @ ELSE New]
<1>1. L \in Ledgers(New) /\ New \in Nat /\ New \in 0..New /\ 0 \in 0..New
  BY LedgersGrow DEF Sound, New
<1>2. L.service \in Services(New) /\ kept \in 0..New
  BY <1>1 DEF Ledgers, Services
<1>3. /\ Block(L.service) \in Services(New) /\ Block(L.service).epoch = L.service.epoch
      /\ Block(L.service).state = "blocked"
      /\ Block(L.service).issue \in {New, L.service.issue}
  BY <1>2, BlockedService
<1>0. kept # 0 => IsOpen(L)
  BY DEF IsOpen
<1> HIDE DEF kept
<1>4. /\ service \in Services(New) /\ service.epoch = L.service.epoch
      /\ service.state = "blocked" /\ service.resume = kept
      /\ service.issue \in {New, L.service.issue}
  BY <1>2, <1>3 DEF Services
<1>5. CASE Active(L) \ Flying(L) = {}
  <2>1. NotReady(L, r, resume) = [L EXCEPT !.service = service]
    BY <1>5 DEF NotReady, kept
  <2>2. NotReady(L, r, resume) = [jobs |-> L.jobs, service |-> service]
    BY <1>1, <2>1 DEF Ledgers
  <2> HIDE DEF service
  <2> QED
    BY <1>0, <1>4, <2>2, ServiceMoves
<1>6. CASE Active(L) \ Flying(L) # {}
  <2>1. target \in Active(L) /\ L.jobs[target].status = "queued" /\ target \in Requests
    BY <1>6 DEF ActiveJob, Active, Flying, Sound, OneAtATime
  <2>2. L.jobs[target] \in Jobs(New) /\ Shaped(L.jobs[target])
    BY <1>1, <2>1 DEF Ledgers, Sound
  <2> DEFINE was == L.jobs[target]
             issue == IF was.held THEN was.issue ELSE New
  <2>3. issue \in 0..New
    BY <1>1, <2>2 DEF Jobs
  <2>4. job = [was EXCEPT !.held = TRUE, !.issue = issue]
    BY <2>2 DEF Jobs
  <2> HIDE DEF issue, was, job, target
  <2>5. was \in Jobs(New) /\ Shaped(was) /\ was.status = "queued" /\ was.end = "none"
    BY <2>1, <2>2 DEF was, Shaped, Ended
  <2>6. /\ job \in Jobs(New) /\ job.status = "queued" /\ job.issue = issue
        /\ job.submission = was.submission /\ Shaped(job) /\ job.end = "none"
    BY <2>3, <2>4, <2>5 DEF Jobs, Shaped, InFlight, Ended
  <2>7. /\ [service EXCEPT !.issue = job.issue] \in Services(New)
        /\ [service EXCEPT !.issue = job.issue].epoch = L.service.epoch
    BY <1>4, <2>3, <2>6 DEF Services
  <2>8. NotReady(L, r, resume) = [jobs |-> [L.jobs EXCEPT ![target] = job],
                                  service |-> [service EXCEPT !.issue = job.issue]]
    BY <1>6 DEF NotReady, kept, target, job
  <2> HIDE DEF service
  <2>9. /\ L.jobs[target].submission # "not_started" => job.submission # "not_started"
        /\ issue \in {New, L.jobs[target].issue}
    BY <2>6 DEF was, issue
  <2> DEFINE named == [service EXCEPT !.issue = job.issue]
  <2>10. /\ named \in Services(New) /\ named.epoch = L.service.epoch
         /\ NotReady(L, r, resume) = [jobs |-> [L.jobs EXCEPT ![target] = job], service |-> named]
         /\ named.state = "blocked" /\ named.resume = kept /\ named.issue = job.issue
    BY <1>4, <2>7, <2>8 DEF Services
  <2> HIDE DEF named
  <2>11. /\ job.status # "absent" /\ job.issue \in {0, New, L.jobs[target].issue}
         /\ named.issue \in {0, New, L.service.issue, L.jobs[target].issue}
         /\ named.state # "blocked" \/ named.resume # 0 => IsOpen(L) /\ job.end # "unknown"
    BY <1>0, <2>6, <2>9, <2>10
  <2>12. Grown(L, [jobs |-> [L.jobs EXCEPT ![target] = job], service |-> named])
    BY <2>1, <2>6, <2>9, <2>10, <2>11, OneJobMoves, SMTT(60)
  <2> QED
    BY <2>10, <2>12
<1> QED
  BY <1>5, <1>6

LEMMA ReadyGrows ==
    ASSUME ids \in Nat, NEW L, Sound(L, New), NEW r \in Runners, NEW resume,
           NEW K \in Ready(L, r, resume)
    PROVE  Grown(L, K)
<1> DEFINE open == [L.service EXCEPT !.state = "ready", !.runner = r, !.issue = 0, !.resume = 0]
           shut == [L.service EXCEPT !.runner = r]
           Free(job) == IF job.status = "queued" THEN [job EXCEPT !.held = FALSE, !.issue = 0]
                        ELSE job
           Expire(job) == IF job.status = "queued"
                          THEN [job EXCEPT !.status = "failed", !.held = FALSE] ELSE job
           freed == [jobs |-> [j \in Requests |-> Free(L.jobs[j])], service |-> open]
           expired == [jobs |-> [j \in Requests |-> Expire(L.jobs[j])], service |-> shut]
<1>1. L \in Ledgers(New) /\ New \in Nat /\ 0 \in 0..New
  BY LedgersGrow DEF Sound, New
<1>2. L.service \in Services(New)
  BY <1>1 DEF Ledgers
<1>3. /\ open \in Services(New) /\ open.epoch = L.service.epoch
      /\ open.issue = 0 /\ open.state = "ready"
      /\ shut \in Services(New) /\ shut.epoch = L.service.epoch
      /\ shut.issue = L.service.issue /\ shut.state = L.service.state
      /\ shut.resume = L.service.resume
  BY <1>1, <1>2 DEF Services
<1>4. /\ K \in {[L EXCEPT !.service = shut], freed, expired}
      /\ K \in {[L EXCEPT !.service = shut], expired} \/ IsOpen(L)
  BY DEF Ready, IsOpen
<1>9. Sealed(L)
  BY DEF Sound
<1>5. \A j \in Requests : L.jobs[j] \in Jobs(New) /\ Shaped(L.jobs[j])
  BY <1>1 DEF Ledgers, Sound
<1>6. CASE K = [L EXCEPT !.service = shut]
  <2>1. K = [jobs |-> L.jobs, service |-> shut]
    BY <1>1, <1>6 DEF Ledgers
  <2> HIDE DEF shut
  <2> QED
    BY <1>3, <1>9, <2>1, ServiceMoves DEF Sealed, IsOpen
<1>7. CASE K = freed /\ IsOpen(L)
  <2>1. \A j \in Requests :
            /\ Free(L.jobs[j]) \in Jobs(New) /\ Shaped(Free(L.jobs[j]))
            /\ Free(L.jobs[j]).status = L.jobs[j].status
            /\ Free(L.jobs[j]).submission = L.jobs[j].submission
            /\ L.jobs[j].status # "queued" => Free(L.jobs[j]) = L.jobs[j]
            /\ Free(L.jobs[j]).issue \in {0, L.jobs[j].issue}
            /\ Free(L.jobs[j]).end = L.jobs[j].end
    BY <1>1, <1>5, ZenonT(60) DEF Jobs, Shaped, InFlight, Ended
  <2>2. \A j \in Requests : K.jobs[j] = Free(L.jobs[j])
    BY <1>7
  <2>3. K \in Ledgers(New) /\ K.service = open
    BY <1>3, <1>7, <2>1 DEF Ledgers
  <2> HIDE DEF Free, open
  <2>4. Sealed(K) /\ K.service.issue = 0
    BY <1>3, <2>3 DEF Sealed
  <2>5. Sound(K, New) /\ Continues(L, K) /\ Tells(L, K)
    BY <2>1, <2>2, <2>3, <2>4, JobsMove DEF Active
  <2>6. Cleared(L) => Cleared(K)
    BY <1>7, <2>1, <2>2 DEF Cleared, Uncertain
  <2> QED
    BY <1>3, <2>3, <2>5, <2>6 DEF Grown
<1>8. CASE K = expired
  <2>1. \A j \in Requests :
            /\ Expire(L.jobs[j]) \in Jobs(New) /\ Shaped(Expire(L.jobs[j]))
            /\ Expire(L.jobs[j]).status = "absent" => L.jobs[j].status = "absent"
            /\ Expire(L.jobs[j]).submission = L.jobs[j].submission
            /\ Expire(L.jobs[j]).end = L.jobs[j].end
            /\ L.jobs[j].status # "queued" => Expire(L.jobs[j]) = L.jobs[j]
            /\ L.jobs[j].status = "queued" => Expire(L.jobs[j]).status \in Ended
    <3>1. ASSUME NEW j \in Requests, L.jobs[j].status = "queued"
          PROVE  /\ Expire(L.jobs[j]) \in Jobs(New)
                 /\ Expire(L.jobs[j]).status = "failed" /\ ~Expire(L.jobs[j]).held
                 /\ Expire(L.jobs[j]).submission = L.jobs[j].submission
                 /\ Expire(L.jobs[j]).end = L.jobs[j].end
      BY <1>1, <1>5, <3>1, ZenonT(60) DEF Jobs, Ended
    <3>2. \A j \in Requests : L.jobs[j].status # "queued" => Expire(L.jobs[j]) = L.jobs[j]
      OBVIOUS
    <3> HIDE DEF Expire
    <3> QED
      BY <1>5, <3>1, <3>2 DEF Shaped, InFlight, Ended
  <2>2. \A j \in Requests : K.jobs[j] = Expire(L.jobs[j])
    BY <1>8
  <2>3. K \in Ledgers(New) /\ K.service = shut
    BY <1>3, <1>8, <2>1 DEF Ledgers
  <2> HIDE DEF Expire, shut
  <2>4. Sealed(K) /\ K.service.issue = L.service.issue
    BY <1>3, <1>9, <2>3 DEF Sealed
  <2>5. Sound(K, New) /\ Continues(L, K) /\ Tells(L, K)
    BY <2>1, <2>2, <2>3, <2>4, JobsMove DEF Active
  <2>6. Cleared(L) => Cleared(K)
    BY <1>3, <2>1, <2>2, <2>3 DEF Cleared, Uncertain, IsOpen
  <2> QED
    BY <1>3, <2>3, <2>5, <2>6 DEF Grown
<1> QED
  BY <1>4, <1>6, <1>7, <1>8, ZenonT(60)

LEMMA GreetedGrows ==
    ASSUME ids \in Nat, NEW L, Sound(L, New), NEW r \in Runners, NEW resume,
           NEW ready \in BOOLEAN, NEW K \in Greeted(L, r, ready, resume)
    PROVE  Grown(L, K)
BY NotReadyGrows, ReadyGrows DEF Greeted

\* A handler that changes the job r works on.
LEMMA ChangedGrows ==
    ASSUME ids \in Nat, NEW m \in Managers, NEW r \in Runners, Sound(Ledger(m), New),
           runner[r].job \in Requests, Job(r, m).status \notin Ended \cup {"absent"},
           NEW job \in Jobs(New), job.status # "absent", Shaped(job),
           Job(r, m).submission # "not_started" => job.submission # "not_started",
           job.status \in Ended \/ job.issue \in {0, New, Job(r, m).issue}
    PROVE  /\ job.end # "unknown" => Grown(Ledger(m), Changed(r, m, job))
           /\ \A service \in Services(New) :
                 /\ service.epoch = Service(m).epoch
                 /\ service.issue \in {0, New, Service(m).issue}
                 /\ service.issue # 0 => service.state = "blocked"
                 /\ service.state # "blocked" \/ service.resume # 0 =>
                        IsOpen(Ledger(m)) /\ job.end # "unknown"
                 => Grown(Ledger(m), [Changed(r, m, job) EXCEPT !.service = service])
<1> DEFINE L == Ledger(m)
           j == runner[r].job
<1>1. L \in Ledgers(New) /\ j \in Active(L)
  <2>1. L \in Ledgers(New)
    BY LedgersGrow DEF Sound, New
  <2> QED
    BY <2>1 DEF Ledgers, Jobs, Job, Active, Ended
<1>2. /\ Changed(r, m, job) = [jobs |-> [L.jobs EXCEPT ![j] = job], service |-> L.service]
      /\ L.service \in Services(New)
  <2>1. j \in Requests
    OBVIOUS
  <2>2. [L EXCEPT !.jobs[j] = job] = [jobs |-> [L.jobs EXCEPT ![j] = job], service |-> L.service]
    BY <1>1, <2>1 DEF Ledgers
  <2>3. L.service \in Services(New)
    BY <1>1 DEF Ledgers
  <2> QED
    BY <2>2, <2>3 DEF Changed
<1>3. ASSUME job.end # "unknown"
      PROVE  Grown(L, [jobs |-> [L.jobs EXCEPT ![j] = job], service |-> L.service])
  <2>1. Sealed(L)
    BY DEF Sound
  <2> QED
    BY <1>1, <1>2, <1>3, <2>1, OneJobMoves DEF Job, Sealed, IsOpen
<1>4. ASSUME NEW service \in Services(New), service.epoch = Service(m).epoch,
             service.issue \in {0, New, Service(m).issue},
             service.issue # 0 => service.state = "blocked",
             service.state # "blocked" \/ service.resume # 0 => IsOpen(L) /\ job.end # "unknown"
      PROVE  Grown(L, [Changed(r, m, job) EXCEPT !.service = service])
  <2>1. [Changed(r, m, job) EXCEPT !.service = service]
            = [jobs |-> [L.jobs EXCEPT ![j] = job], service |-> service]
    BY <1>2
  <2> QED
    BY <1>1, <1>4, <2>1, OneJobMoves DEF Job, Service
<1> QED
  BY <1>2, <1>3, <1>4

(* A manager that recovers ends what was in flight and continues the rest.      *)
LEMMA RecoveredGrows ==
    ASSUME ids \in Nat, NEW L, Sound(L, New), NEW expires \in BOOLEAN
    PROVE  /\ Sound(Recovered(L, expires), New)
           /\ Continues(L, Recovered(L, expires))
           /\ Recovered(L, expires).service.epoch = L.service.epoch + 1
           /\ Tells(L, Recovered(L, expires))
           /\ Cleared(L) => Cleared(Recovered(L, expires))
<1> DEFINE Recover(job) ==
              CASE job.status \in InFlight -> Lost(job)
                [] job.status = "queued" /\ expires ->
                      [job EXCEPT !.status = "failed", !.held = FALSE]
                [] OTHER -> job
           K == Recovered(L, expires)
<1>1. L \in Ledgers(New) /\ New \in 0..New /\ 0 \in 0..New
  BY LedgersGrow DEF Sound, New
<1>2. \A j \in Requests : L.jobs[j] \in Jobs(New) /\ Shaped(L.jobs[j])
  BY <1>1 DEF Ledgers, Sound
<1>3. /\ K.service.epoch = L.service.epoch + 1 /\ K.service \in Services(New)
      /\ K.service.issue \in {0, New} /\ Sealed(K)
  BY <1>1 DEF Recovered, Ledgers, Services, Sealed
<1>8. IsOpen(K) => IsOpen(L) /\ Flying(L) = {}
  BY DEF Recovered, IsOpen
<1>4. \A j \in Requests : K.jobs[j] = Recover(L.jobs[j])
  BY DEF Recovered
<1>5. ASSUME NEW j \in Requests
      PROVE  /\ K.jobs[j] \in Jobs(New)
             /\ K.jobs[j] # L.jobs[j] =>
                  /\ j \in Active(L) /\ K.jobs[j].status \in Ended /\ Shaped(K.jobs[j])
                  /\ K.jobs[j].submission = L.jobs[j].submission
                  /\ j \in Flying(L) \/ K.jobs[j].end = L.jobs[j].end
  <2> DEFINE was == L.jobs[j]
  <2>0. was \in Jobs(New) /\ Shaped(was)
    BY <1>2
  <2>1. CASE was.status \in InFlight
    <3>1. K.jobs[j] = Lost(was) /\ j \in Active(L) /\ j \in Flying(L) /\ ~was.held
      BY <1>4, <2>0, <2>1 DEF Active, Flying, Shaped, InFlight
    <3> QED
      BY <2>0, <3>1, LostJob, SMTT(40)
  <2>2. CASE was.status = "queued" /\ expires
    <3>1. K.jobs[j] = [was EXCEPT !.status = "failed", !.held = FALSE] /\ j \in Active(L)
      BY <1>4, <2>2 DEF Active, InFlight
    <3>2. [was EXCEPT !.status = "failed", !.held = FALSE] \in Jobs(New)
      BY <2>0 DEF Jobs, Ended
    <3>3. /\ K.jobs[j].status = "failed" /\ ~K.jobs[j].held
          /\ K.jobs[j].submission = was.submission /\ K.jobs[j].end = was.end
      BY <2>0, <3>1 DEF Jobs
    <3> QED
      BY <3>1, <3>2, <3>3 DEF Shaped, InFlight, Ended
  <2>3. CASE was.status \notin InFlight /\ ~(was.status = "queued" /\ expires)
    <3>1. K.jobs[j] = was
      BY <1>4, <2>3
    <3> QED
      BY <2>0, <3>1
  <2> HIDE DEF K, Recover
  <2> QED
    BY <2>1, <2>2, <2>3
<1>6. K \in Ledgers(New)
  <2> DEFINE jobs == [j \in Requests |-> Recover(L.jobs[j])]
  <2>1. K.jobs = jobs /\ K = [jobs |-> K.jobs, service |-> K.service]
    BY DEF Recovered
  <2> HIDE DEF K, Recover
  <2>2. K.jobs \in [Requests -> Jobs(New)]
    BY <1>4, <1>5, <2>1
  <2> QED
    BY <1>3, <2>1, <2>2 DEF Ledgers
<1> HIDE DEF K
<1>7. Sound(K, New) /\ Continues(L, K) /\ Tells(L, K)
  BY <1>3, <1>5, <1>6, JobsMove DEF Ended
<1>9. Cleared(L) => Cleared(K)
  BY <1>5, <1>8 DEF Cleared, Uncertain
<1> QED
  BY <1>3, <1>7, <1>9 DEF K

-------------------------------------------------------------------------------
(* Each action keeps the ledgers.                                               *)

LEMMA StartKept ==
    ASSUME LedgersKept, NEW m \in Managers, Start(m)
    PROVE  StepKept
<1>1. PICK expires \in BOOLEAN :
         LET L == Recovered(journal, expires)
         IN /\ journal' = L /\ Draw({L})
            /\ \/ manager' = [manager EXCEPT ![m] = [Down EXCEPT !.up = TRUE, !.ledger = L]]
               \/ UNCHANGED manager
  BY DEF Start
<1> DEFINE L == Recovered(journal, expires)
<1>2. /\ Sound(L, New) /\ Continues(journal, L)
      /\ L.service.epoch = journal.service.epoch + 1
      /\ Tells(journal, L) /\ (Cleared(journal) => Cleared(L))
  BY RecoveredGrows, SoundNow
<1>3. journal' = L /\ Draw({L})
  BY <1>1
<1> HIDE DEF L
<1>4. /\ ids' \in Nat /\ ids' >= ids /\ Sound(L, ids')
      /\ \A K : Sound(K, ids) => Sound(K, ids')
  BY <1>2, <1>3, Drawn DEF LedgersKept
<1>5. journal.service.epoch \in Nat
  BY DEF LedgersKept, Sound, Ledgers, Services
<1>6. \A n \in Managers : Ledger(n).service.epoch \in Nat
  BY DEF LedgersKept, Sound, Ledgers, Services
<1>7. /\ \A n \in Managers \ {m} : manager'[n] = manager[n]
      /\ \/ manager'[m] = manager[m]
         \/ manager'[m] = [Down EXCEPT !.up = TRUE, !.ledger = L]
      /\ manager' = [n \in Managers |-> manager'[n]]
  BY <1>1 DEF LedgersKept, L
<1>8. \A n \in Managers :
          /\ manager'[n] \in ManagerRecord(ids') /\ Sound(manager'[n].ledger, ids')
          /\ \/ manager'[n] = manager[n]
             \/ n = m /\ manager'[n].ledger = L
  <2>1. [Down EXCEPT !.up = TRUE, !.ledger = L] \in ManagerRecord(ids')
    BY <1>4 DEF ManagerRecord, Down, Sound
  <2>2. [Down EXCEPT !.up = TRUE, !.ledger = L].ledger = L
    BY DEF Down
  <2>3. \A n \in Managers : Sound(manager[n].ledger, ids') /\ manager[n] \in ManagerRecord(ids')
    BY <1>4 DEF LedgersKept, ManagerRecord, Ledger, Sound
  <2> QED
    BY <1>4, <1>7, <2>1, <2>2, <2>3
<1>9. manager' \in [Managers -> ManagerRecord(ids')]
  BY <1>7, <1>8
<1>10. ASSUME NEW n \in Managers, manager'[n].up
       PROVE  /\ manager'[n].ledger.service.epoch <= L.service.epoch
              /\ Continues(manager'[n].ledger, L)
              /\ \/ manager'[n].ledger = L /\ n = m
                 \/ /\ manager'[n].ledger.service.epoch < L.service.epoch
                    /\ manager'[n] = manager[n]
  <2>1. CASE manager'[n] = manager[n]
    <3>1. Service(n).epoch <= journal.service.epoch /\ Continues(Ledger(n), journal)
      BY <1>10, <2>1 DEF LedgersKept, ManagersFenced
    <3> QED
      BY <1>2, <1>5, <1>6, <2>1, <3>1, ContinuesOn DEF Ledger, Service
  <2>2. CASE n = m /\ manager'[n].ledger = L
    BY <1>2, <1>5, <2>2, ContinuesItself
  <2> QED
    BY <1>8, <2>1, <2>2
<1>11. \A n, k \in Managers :
           manager'[n].up /\ manager'[k].up
           /\ manager'[n].ledger.service.epoch = manager'[k].ledger.service.epoch => n = k
  BY <1>2, <1>5, <1>6, <1>10 DEF LedgersKept, ManagersFenced, Service, Ledger
<1>12. \A n \in Managers :
           manager'[n].up /\ manager'[n].ledger.service.epoch = L.service.epoch
              => manager'[n].ledger = L
  BY <1>2, <1>5, <1>6, <1>10 DEF Ledger
<1>13. LedgersKept'
  BY <1>3, <1>4, <1>8, <1>9, <1>10, <1>11, <1>12
     DEF LedgersKept, ManagersFenced, CopyIsJournal, Works, Current, Service, Ledger,
         ManagerRecord
<1>14. ASSUME NEW n \in Managers, manager'[n].up
       PROVE  \/ manager[n].up /\ manager'[n].ledger = manager[n].ledger
              \/ Told(View(manager'[n].ledger), journal')
  BY <1>3, <1>4, <1>8, <1>14, ViewTyped
<1> QED
  BY <1>2, <1>3, <1>4, <1>13, <1>14 DEF StepKept

LEMMA EmptySound == \A n \in Nat : Sound(Empty, n)
<1> SUFFICES ASSUME NEW n \in Nat PROVE Sound(Empty, n)
  OBVIOUS
<1>1. /\ Absent \in Jobs(n) /\ Shaped(Absent) /\ Absent.status = "absent"
      /\ Blank \in Services(n)
  <2>1. 0 \in 0..n
    OBVIOUS
  <2>2. Fresh \in Jobs(n)
    BY <2>1 DEF Fresh, Jobs
  <2>3. Absent \in Jobs(n)
    BY <2>2 DEF Absent, Jobs
  <2>4. /\ Absent.status = "absent" /\ Absent.submission = "not_started"
        /\ Absent.runner = None /\ Absent.held = FALSE /\ Absent.end = "none"
    BY DEF Absent, Fresh
  <2>5. Shaped(Absent)
    BY <2>4 DEF Shaped, InFlight
  <2>6. Blank \in Services(n)
    BY <2>1 DEF Blank, Services
  <2> QED
    BY <2>3, <2>4, <2>5, <2>6
<1>2. /\ Empty \in Ledgers(n) /\ \A j \in Requests : Empty.jobs[j] = Absent
  BY <1>1 DEF Empty, Ledgers
<1>3. Active(Empty) = {} /\ Sealed(Empty)
  BY <1>1, <1>2 DEF Active, InFlight, Sealed, Empty, Blank
<1> QED
  BY <1>1, <1>2, <1>3 DEF Sound, OneAtATime

LEMMA StopKept ==
    ASSUME LedgersKept, NEW m \in Managers, Stop(m)
    PROVE  StepKept
<1>1. manager' = [manager EXCEPT ![m] = Down] /\ UNCHANGED <<journal, ids>>
  BY DEF Stop
<1>2. Down \in ManagerRecord(ids) /\ ~Down.up /\ Sound(Down.ledger, ids)
  BY EmptySound DEF Down, ManagerRecord, Sound, LedgersKept
<1>3. manager' \in [Managers -> ManagerRecord(ids)]
  BY <1>1, <1>2 DEF LedgersKept, ManagerRecord
<1> QED
  BY <1>1, <1>2, <1>3, JournalStays DEF LedgersKept

LEMMA LapseKept ==
    ASSUME LedgersKept, NEW m \in Managers, Lapse(m)
    PROVE  StepKept
<1>1. manager' = [manager EXCEPT ![m].heard = FALSE] /\ UNCHANGED <<journal, ids>>
  BY DEF Lapse
<1>2. manager' \in [Managers -> ManagerRecord(ids)]
  BY <1>1 DEF LedgersKept, ManagerRecord
<1>3. \A n \in Managers :
          /\ manager'[n].up => manager[n].up
          /\ manager'[n].usable => manager[n].usable
          /\ manager'[n].ledger = manager[n].ledger
  BY <1>1 DEF LedgersKept
<1> QED
  BY <1>1, <1>2, <1>3, JournalStays

\* Nothing is active once a runner was dispossessed of a job, and the service stays
\* blocked under the same intervention.
LEMMA DispossessedTold ==
    ASSUME ids \in Nat, NEW L, Sound(L, New), Flying(L) # {}, NEW r \in Runners,
           NEW ready \in BOOLEAN, NEW resume, NEW K \in Greeted(Dispossessed(L), r, ready, resume)
    PROVE  Told(View(Dispossessed(L)), K)
<1> DEFINE B == Dispossessed(L)
<1>1. Sound(B, New) /\ New \in Nat /\ B \in Ledgers(New) /\ B.service \in Services(New)
  BY DispossessedGrows DEF Grown, New, Sound, Ledgers
<1>2. B.service.state = "blocked" /\ B.service.resume = 0 /\ B.service.issue # 0
  <2>1. B.service = Block(L.service) /\ L.service \in Services(New)
    BY DEF Dispossessed, Sound, Ledgers
  <2> QED
    BY <2>1 DEF Block, New, Services
<1>3. Active(B) = {}
  <2>1. \A j \in Requests : B.jobs[j] = IF j \in Flying(L) THEN Lost(L.jobs[j]) ELSE L.jobs[j]
    BY DEF Dispossessed
  <2>2. PICK i \in Flying(L) : TRUE
    OBVIOUS
  <2>3. \A j \in Active(L) : j = i
    BY <2>2 DEF Sound, OneAtATime, Active, Flying
  <2>4. \A j \in Requests : j \in Flying(L) => B.jobs[j].status = "failed"
    BY <2>1, LostJob DEF Sound, Ledgers
  <2> HIDE DEF B
  <2> QED
    BY <2>1, <2>2, <2>3, <2>4 DEF Active, InFlight, Flying
<1> HIDE DEF B
<1>4. K \in Ready(B, r, resume) \/ K = NotReady(B, r, resume)
  BY DEF Greeted, B
<1>5. ASSUME K \in Ready(B, r, resume)
      PROVE  K.jobs = B.jobs /\ K.service.issue = B.service.issue
  <2>1. K = [B EXCEPT !.service = [B.service EXCEPT !.runner = r]]
    BY <1>2, <1>5 DEF Ready
  <2> QED
    BY <1>1, <2>1 DEF Ledgers, Services
<1>6. ASSUME K = NotReady(B, r, resume)
      PROVE  K.jobs = B.jobs /\ K.service.issue = B.service.issue
  <2> DEFINE kept == IF resume = B.service.resume THEN 0 ELSE B.service.resume
  <2>1. K = [B EXCEPT !.service = [Block(B.service) EXCEPT !.runner = r, !.resume = kept]]
    BY <1>3, <1>6 DEF NotReady
  <2> HIDE DEF kept
  <2>2. Block(B.service) \in Services(New) /\ Block(B.service).issue = B.service.issue
    BY <1>1, <1>2, BlockedService, ZenonT(60) DEF Block, Services
  <2> QED
    BY <1>1, <2>1, <2>2 DEF Ledgers, Services
<1>7. Told(View(B), B)
  BY <1>1, ViewTyped
<1>8. Active(K) = Active(B) /\ Uncertain(K) = Uncertain(B)
      /\ K.jobs = B.jobs /\ K.service.issue = B.service.issue
  BY <1>4, <1>5, <1>6 DEF Active, Uncertain
<1> QED
  BY <1>7, <1>8 DEF Told, B

LEMMA HelloKept ==
    ASSUME LedgersKept, NEW m \in Managers, NEW r \in Runners, NEW ready \in BOOLEAN,
           Hello(r, m, ready)
    PROVE  StepKept
<1> DEFINE resume == IF runner[r].pc = "idle" THEN runner[r].resume ELSE 0
           replaces == Service(m).runner \notin {None, r}
           taken == IF replaces THEN Dispossessed(Ledger(m)) ELSE Ledger(m)
<1>1. Sound(Ledger(m), New) /\ ids \in Nat
  BY SoundNow
<1>2. Grown(Ledger(m), taken)
  BY <1>1, DispossessedGrows, GrownItself
<1>3. Grown(Ledger(m), Ledger(m))
  BY <1>1, GrownItself, SMTT(60)
<1>9. taken = Ledger(m) \/ (taken = Dispossessed(Ledger(m)) /\ Flying(Ledger(m)) # {})
  BY DEF Dispossessed
<1>4. \/ /\ replaces /\ CommitFails(m, Ledger(m), taken)
      \/ \E L \in Greeted(taken, r, ready, resume) :
            \/ CommitFails(m, taken, L)
            \/ /\ Works(m) /\ Current(m) /\ journal' = L /\ Draw({taken, L})
               /\ manager' = [manager EXCEPT ![m].ledger = L, ![m].heard = TRUE]
  BY DEF Hello
<1> HIDE DEF taken, replaces, resume
<1>5. \A L \in Greeted(taken, r, ready, resume) : Grown(taken, L)
  BY <1>1, <1>2, GreetedGrows DEF Grown
<1>6. CASE replaces /\ CommitFails(m, Ledger(m), taken)
  BY <1>2, <1>3, <1>6, CopyTold, FailureKept
<1>7. ASSUME NEW L \in Greeted(taken, r, ready, resume), CommitFails(m, taken, L)
      PROVE  StepKept
  <2>1. Grown(taken, L) /\ Grown(Ledger(m), taken)
    BY <1>2, <1>5
  <2>2. Told(View(taken), L)
    <3>1. CASE taken = Ledger(m)
      <4>1. Grown(Ledger(m), L)
        BY <2>1, <3>1
      <4> QED
        BY <3>1, <4>1, CopyTold
    <3>2. CASE taken = Dispossessed(Ledger(m)) /\ Flying(Ledger(m)) # {}
      <4>1. L \in Greeted(Dispossessed(Ledger(m)), r, ready, resume)
        BY <3>2
      <4> QED
        BY <1>1, <3>2, <4>1, DispossessedTold
    <3> QED
      BY <1>9, <3>1, <3>2
  <2> QED
    BY <1>7, <2>1, <2>2, FailureKept
<1>8. ASSUME NEW L \in Greeted(taken, r, ready, resume),
             Works(m), Current(m), journal' = L, Draw({taken, L}),
             manager' = [manager EXCEPT ![m].ledger = L, ![m].heard = TRUE]
      PROVE  StepKept
  <2>1. Grown(Ledger(m), L)
    BY <1>2, <1>5, GrownOn
  <2>2. /\ ids' \in Nat /\ ids' >= ids /\ Sound(L, ids')
        /\ \A K : Sound(K, ids) => Sound(K, ids')
    BY <1>1, <1>8, <2>1, Drawn DEF Grown
  <2> QED
    BY <1>8, <2>1, <2>2, CommitKept
<1> QED
  BY <1>4, <1>6, <1>7, <1>8

LEMMA CreateKept ==
    ASSUME LedgersKept, NEW m \in Managers, NEW j \in Requests, Create(m, j)
    PROVE  StepKept
<1> DEFINE L == Ledger(m)
           K == [L EXCEPT !.jobs[j] = Fresh]
<1>1. CASE UNCHANGED <<journal, manager, ids>>
  BY <1>1, UnchangedKept
<1>2. CASE /\ L.jobs[j].status = "absent" /\ Active(L) = {}
           /\ Commit(m, K) \/ CommitFails(m, L, K)
           /\ L.service.state = "ready"
  <2>1. /\ L \in Ledgers(New) /\ New \in Nat /\ \A i \in Requests : Shaped(L.jobs[i])
        /\ L.service.issue = 0
    BY <1>2, SoundNow DEF Sound, New, Sealed
  <2>2. /\ Fresh \in Jobs(New) /\ Shaped(Fresh) /\ Fresh.status = "queued"
        /\ Fresh.issue = 0 /\ Fresh.end = "none"
    BY <2>1 DEF Fresh, Jobs, Shaped, InFlight
  <2>3. K \in Ledgers(New) /\ K.service = L.service
        /\ \A i \in Requests : K.jobs[i] = IF i = j THEN Fresh ELSE L.jobs[i]
    BY <2>1, <2>2 DEF Ledgers
  <2> HIDE DEF K, L
  <2>4. Active(K) \subseteq {j}
    BY <1>2, <2>3 DEF Active
  <2>5. Sound(K, New)
    BY <2>1, <2>2, <2>3, <2>4 DEF Sound, OneAtATime, Sealed
  <2>6. Continues(L, K)
    BY <1>2, <2>1, <2>3 DEF Continues, Shaped, Ended
  <2>7. Uncertain(K) \subseteq Uncertain(L)
    BY <2>2, <2>3 DEF Uncertain
  <2>8. ASSUME NEW v \in Views, Told(v, L) PROVE Told(v, K)
    <3>1. v.job # None => v.job \in Requests /\ v.job \notin Active(K)
      BY <1>2, <2>4, <2>8 DEF Views, Told
    <3> QED
      BY <2>1, <2>2, <2>3, <2>4, <2>6, <2>8, <3>1 DEF Told, Continues
  <2>9. Grown(L, K)
    BY <2>3, <2>5, <2>6, <2>7, <2>8 DEF Grown, Tells, Cleared, IsOpen
  <2> QED
    BY <1>2, <2>9, CallKept DEF L
<1> QED
  BY <1>1, <1>2 DEF Create, Call, Service

\* The end of an active job, by a client or by time.
LEMMA EndingKept ==
    ASSUME LedgersKept, NEW m \in Managers, NEW j \in Requests, Cancel(m, j) \/ Watchdog(m, j)
    PROVE  StepKept
<1> DEFINE L == Ledger(m)
           job == L.jobs[j]
           dropped == [job EXCEPT !.status = "failed", !.held = FALSE]
           warned == [job EXCEPT !.cancel = TRUE]
<1>1. Sound(L, New) /\ L \in Ledgers(New) /\ ids \in Nat
  BY SoundNow DEF Sound
<1>2. /\ L.service \in Services(New) /\ job \in Jobs(New) /\ Shaped(job)
      /\ L.service.issue # 0 => L.service.state = "blocked"
  BY <1>1 DEF Ledgers, Sound, Sealed
<1>3. j \in Active(L) /\ job.status # "absent" /\ job.end = "none"
  BY <1>2 DEF Cancel, Watchdog, Active, InFlight, Shaped, Ended
<1>4. PICK K : /\ Commit(m, K) \/ CommitFails(m, L, K)
               /\ \/ job.status = "queued" /\ K = [L EXCEPT !.jobs[j] = dropped]
                  \/ job.status = "queued" /\ K = [L EXCEPT !.jobs[j].status = "failed",
                                                            !.jobs[j].held = FALSE]
                  \/ K = [L EXCEPT !.jobs[j] = warned]
                  \/ job.status # "queued" /\ K = [L EXCEPT !.jobs[j] = Lost(job), !.service = Block(@)]
  BY DEF Cancel, Watchdog, Call
<1>5. CASE job.status = "queued" /\ K = [L EXCEPT !.jobs[j] = dropped]
  <2>1. /\ dropped \in Jobs(New) /\ dropped.status = "failed" /\ ~dropped.held
        /\ dropped.submission = job.submission /\ dropped.end = job.end
    BY <1>2 DEF Jobs, Ended
  <2>2. K = [jobs |-> [L.jobs EXCEPT ![j] = dropped], service |-> L.service]
    BY <1>1, <1>5 DEF Ledgers
  <2> HIDE DEF dropped
  <2>3. Shaped(dropped)
    BY <2>1 DEF Shaped, InFlight, Ended
  <2>4. Grown(L, K)
    BY <1>1, <1>2, <1>3, <2>1, <2>2, <2>3, OneJobMoves DEF Ended, IsOpen
  <2> QED
    BY <1>4, <2>4, CallKept
<1>6. CASE job.status = "queued" /\ K = [L EXCEPT !.jobs[j].status = "failed",
                                                  !.jobs[j].held = FALSE]
  <2>1. K = [L EXCEPT !.jobs[j] = dropped]
    BY <1>1, <1>6 DEF Ledgers, Jobs
  <2> QED
    BY <1>5, <1>6, <2>1
<1>7. CASE K = [L EXCEPT !.jobs[j] = warned]
  <2>1. /\ warned \in Jobs(New) /\ warned.status = job.status /\ Shaped(warned)
        /\ warned.submission = job.submission /\ warned.end = job.end
        /\ warned.issue = job.issue
    BY <1>2 DEF Jobs, Shaped
  <2>2. K = [jobs |-> [L.jobs EXCEPT ![j] = warned], service |-> L.service]
    BY <1>1, <1>7 DEF Ledgers
  <2> HIDE DEF warned
  <2>3. Grown(L, K)
    BY <1>1, <1>2, <1>3, <2>1, <2>2, OneJobMoves DEF IsOpen
  <2> QED
    BY <1>4, <2>3, CallKept
<1>8. CASE job.status # "queued" /\ K = [L EXCEPT !.jobs[j] = Lost(job), !.service = Block(@)]
  <2>1. K = [jobs |-> [L.jobs EXCEPT ![j] = Lost(job)], service |-> Block(L.service)]
    BY <1>1, <1>8 DEF Ledgers
  <2>2. /\ Lost(job) \in Jobs(New) /\ Lost(job).status = "failed" /\ Shaped(Lost(job))
        /\ Lost(job).submission = job.submission
    BY <1>2, <1>8, LostJob DEF Shaped
  <2>3. /\ Block(L.service) \in Services(New) /\ Block(L.service).epoch = L.service.epoch
        /\ Block(L.service).state = "blocked" /\ Block(L.service).resume = 0
        /\ Block(L.service).issue \in {New, L.service.issue}
    BY <1>1, <1>2, BlockedService
  <2>4. Grown(L, K)
    BY <1>1, <1>3, <2>1, <2>2, <2>3, OneJobMoves DEF Ended
  <2> QED
    BY <1>4, <2>4, CallKept
<1> QED
  BY <1>4, <1>5, <1>6, <1>7, <1>8

LEMMA PostResumeKept ==
    ASSUME LedgersKept, Told(admin, journal), NEW m \in Managers, PostResume(m)
    PROVE  StepKept
<1> DEFINE L == Ledger(m)
           resume == IF L.service.resume = 0 THEN New ELSE L.service.resume
           service == [L.service EXCEPT !.resume = resume]
           K == [L EXCEPT !.service.resume = IF @ = 0 THEN New ELSE @]
<1>1. Sound(L, New) /\ L \in Ledgers(New) /\ ids \in Nat /\ New \in 0..New
  BY SoundNow DEF Sound, New
<1>2. resume \in 0..New /\ L.service \in Services(New)
  BY <1>1 DEF Ledgers, Services
<1>3. K = [jobs |-> L.jobs, service |-> service]
  BY <1>1 DEF Ledgers, Services
<1>4. Commit(m, K) \/ CommitFails(m, L, K)
  BY DEF PostResume, Call
<1> HIDE DEF K, resume
<1>5. /\ service \in Services(New) /\ service.epoch = L.service.epoch
      /\ service.issue = L.service.issue /\ service.state = "blocked"
  BY <1>2 DEF Services, PostResume, Service
<1> HIDE DEF service
<1>6. CASE ~Current(m)
  BY <1>4, <1>6, FencedKept DEF Commit
<1>7. CASE Current(m)
  <2>1. journal = L
    BY <1>4, <1>7 DEF LedgersKept, CopyIsJournal, Commit, CommitFails
  <2>2. Uncertain(L) \subseteq admin.known
    <3>1. /\ admin.issue # 0 /\ admin.issue = Issue(L) /\ admin.job = ActiveJob(L)
          /\ ActiveJob(L) # None => ActiveJob(L) \in Active(L)
      BY DEF PostResume, ActiveJob
    <3> QED
      BY <2>1, <3>1 DEF Told, Issue
  <2>3. Uncertain(L) \subseteq reviewed'
    BY <2>2 DEF PostResume
  <2>4. Grown(L, K)
    BY <1>1, <1>3, <1>5, <2>3, ServiceMoves
  <2> QED
    BY <1>4, <2>4, CallKept
<1> QED
  BY <1>6, <1>7

LEMMA OfferKept ==
    ASSUME LedgersKept, NEW m \in Managers, NEW r \in Runners, NextOffer(r, m)
    PROVE  StepKept
<1> DEFINE L == Ledger(m)
           j == ActiveJob(L)
           job == [L.jobs[j] EXCEPT !.status = "offered", !.runner = r]
           K == [L EXCEPT !.jobs[j].status = "offered", !.jobs[j].runner = r]
<1>1. CASE UNCHANGED <<journal, manager, ids>>
  BY <1>1, UnchangedKept
<1>2. CASE /\ j # None /\ L.jobs[j].status = "queued" /\ ~L.jobs[j].held
           /\ Commit(m, K) \/ CommitFails(m, L, K)
  <2>1. Sound(L, New) /\ L \in Ledgers(New) /\ ids \in Nat
    BY SoundNow, SMTT(60) DEF Sound
  <2>2. j \in Active(L) /\ j \in Requests
    BY <1>2, ZenonT(60) DEF ActiveJob, Active
  <2>3. L.jobs[j] \in Jobs(New) /\ Shaped(L.jobs[j]) /\ L.service \in Services(New)
    BY <2>1, <2>2 DEF Ledgers, Sound
  <2>4. /\ job \in Jobs(New) /\ job.status = "offered" /\ job.runner = r
        /\ job.submission = L.jobs[j].submission /\ job.end = L.jobs[j].end /\ ~job.held
        /\ job.issue = L.jobs[j].issue
    BY <1>2, <2>3 DEF Jobs, InFlight
  <2>5. K = [jobs |-> [L.jobs EXCEPT ![j] = job], service |-> L.service]
    <3>1. K = [L EXCEPT !.jobs[j] = job]
      BY <2>1, <2>2, <2>3 DEF Ledgers, Jobs
    <3> HIDE DEF job, K, j, L
    <3> QED
      BY <2>1, <2>2, <3>1 DEF Ledgers
  <2> HIDE DEF job, K
  <2>6. Shaped(job)
    BY <1>2, <2>3, <2>4, CaptureAssumption DEF Shaped, InFlight, Ended
  <2>7. job.end = "none" /\ (L.service.issue # 0 => L.service.state = "blocked")
    BY <1>2, <2>1, <2>3, <2>4 DEF Shaped, Ended, Sound, Sealed
  <2>8. Grown(L, K)
    BY <2>1, <2>2, <2>3, <2>4, <2>5, <2>6, <2>7, OneJobMoves DEF IsOpen
  <2> QED
    BY <1>2, <2>8, CallKept
<1> QED
  BY <1>1, <1>2 DEF NextOffer, Call, Refused

\* The job of a runner at work, as some manager knows it.
LEMMA JobTyped ==
    ASSUME LedgersKept, NEW m \in Managers, NEW r \in Runners, runner[r].job \in Requests
    PROVE  /\ Sound(Ledger(m), New) /\ ids \in Nat /\ New \in 0..New /\ 0 \in 0..New
           /\ Job(r, m) \in Jobs(New) /\ Shaped(Job(r, m))
           /\ Service(m) \in Services(New)
           /\ Service(m).issue # 0 => Service(m).state = "blocked"
           /\ Block(Service(m)) \in Services(New) /\ Block(Service(m)).epoch = Service(m).epoch
           /\ Block(Service(m)).state = "blocked" /\ Block(Service(m)).resume = 0
           /\ Block(Service(m)).issue \in {New, Service(m).issue}
<1>1. Sound(Ledger(m), New) /\ ids \in Nat /\ New \in 0..New /\ 0 \in 0..New
  BY SoundNow DEF New
<1>2. /\ Job(r, m) \in Jobs(New) /\ Shaped(Job(r, m)) /\ Service(m) \in Services(New)
      /\ Service(m).issue # 0 => Service(m).state = "blocked"
  BY <1>1 DEF Sound, Job, Service, Ledgers, Sealed
<1> QED
  BY <1>1, <1>2, BlockedService

LEMMA AcceptKept ==
    ASSUME LedgersKept, RunnersBusy, NEW m \in Managers, NEW r \in Runners, Accept(r, m)
    PROVE  StepKept
<1> DEFINE job == [Job(r, m) EXCEPT !.status = "running"]
           K == Changed(r, m, job)
<1>1. runner[r].job \in Requests
  BY DEF Accept, RunnersBusy, Busy, Executing
<1>2. CASE UNCHANGED <<journal, manager, ids>>
  BY <1>2, UnchangedKept
<1>3. CASE Job(r, m).status = "offered" /\ (Commit(m, K) \/ CommitFails(m, Ledger(m), K))
  <2>1. /\ job \in Jobs(New) /\ job.status = "running" /\ Shaped(job)
        /\ job.submission = Job(r, m).submission /\ job.end = "none"
        /\ job.issue = Job(r, m).issue
    BY <1>1, <1>3, JobTyped DEF Jobs, Shaped, InFlight, Ended
  <2> HIDE DEF job
  <2>2. Grown(Ledger(m), K)
    BY <1>1, <1>3, <2>1, JobTyped, ChangedGrows DEF Ended
  <2> QED
    BY <1>3, <2>2, CallKept
<1> QED
  BY <1>2, <1>3 DEF Accept, Event, Call, Refused

LEMMA PauseKept ==
    ASSUME LedgersKept, RunnersBusy, NEW m \in Managers, NEW r \in Runners, Pause(r, m)
    PROVE  StepKept
<1> DEFINE job == [Job(r, m) EXCEPT !.status = "needs_admin", !.issue = New]
           service == [Block(Service(m)) EXCEPT !.issue = New]
           K == [Changed(r, m, job) EXCEPT !.service = service]
<1>1. runner[r].job \in Requests
  BY DEF Pause, RunnersBusy, Busy, Executing
<1>2. CASE UNCHANGED <<journal, manager, ids>>
  BY <1>2, UnchangedKept
<1>3. CASE Job(r, m).status = "running" /\ (Commit(m, K) \/ CommitFails(m, Ledger(m), K))
  <2>1. /\ job \in Jobs(New) /\ job.status = "needs_admin" /\ Shaped(job)
        /\ job.submission = Job(r, m).submission /\ job.issue = New
    BY <1>1, <1>3, JobTyped, ZenonT(60) DEF Jobs, Shaped, InFlight, Ended
  <2>2. /\ service \in Services(New) /\ service.epoch = Service(m).epoch
        /\ service.state = "blocked" /\ service.resume = 0 /\ service.issue = New
    BY <1>1, JobTyped DEF Services
  <2> HIDE DEF job, service
  <2>3. Grown(Ledger(m), K)
    BY <1>1, <1>3, <2>1, <2>2, JobTyped, ChangedGrows DEF Ended
  <2> QED
    BY <1>3, <2>3, CallKept
<1>4. [Changed(r, m, job) EXCEPT !.service = [Block(@) EXCEPT !.issue = New]] = K
  BY <1>1, JobTyped DEF Changed, Service, Sound, Ledgers
<1> QED
  BY <1>2, <1>3, <1>4 DEF Pause, Event, Call, Refused

LEMMA ResumeKept ==
    ASSUME LedgersKept, RunnersBusy, NEW m \in Managers, NEW r \in Runners, Resume(r, m)
    PROVE  StepKept
<1> DEFINE job == [Job(r, m) EXCEPT !.status = "running", !.issue = 0]
           limit == [Job(r, m) EXCEPT !.status = "failed", !.end = "limit"]
           service == [Service(m) EXCEPT !.state = "ready", !.issue = 0, !.resume = 0]
           K == [Changed(r, m, job) EXCEPT !.service = service]
           again == [Changed(r, m, job) EXCEPT !.service.state = "ready", !.service.issue = 0,
                                               !.service.resume = 0]
           over == Changed(r, m, limit)
<1>1. runner[r].job \in Requests
  BY DEF Resume, RunnersBusy, Busy, Executing
<1>2. CASE UNCHANGED <<journal, manager, ids>>
  BY <1>2, UnchangedKept
<1>3. again = K
  BY <1>1, JobTyped DEF Changed, Service, Sound, Ledgers, Services
<1>4. CASE /\ Job(r, m).status = "needs_admin" /\ Service(m).resume # 0
           /\ Commit(m, K) \/ CommitFails(m, Ledger(m), K)
  <2>1. /\ job \in Jobs(New) /\ job.status = "running" /\ Shaped(job)
        /\ job.submission = Job(r, m).submission /\ job.issue = 0
    BY <1>1, <1>4, JobTyped, ZenonT(60) DEF Jobs, Shaped, InFlight, Ended
  <2>2. service \in Services(New) /\ service.epoch = Service(m).epoch /\ service.issue = 0
    BY <1>1, JobTyped DEF Services
  <2>3. IsOpen(Ledger(m)) /\ job.end = "none"
    BY <1>1, <1>4, JobTyped DEF IsOpen, Service, Shaped, Ended, Jobs
  <2> HIDE DEF job, service
  <2>4. Grown(Ledger(m), K)
    BY <1>1, <1>4, <2>1, <2>2, <2>3, JobTyped, ChangedGrows DEF Ended
  <2> QED
    BY <1>4, <2>4, CallKept
<1>5. CASE Job(r, m).status = "needs_admin"
           /\ (Commit(m, over) \/ CommitFails(m, Ledger(m), over))
  <2>1. /\ limit \in Jobs(New) /\ limit.status = "failed" /\ Shaped(limit)
        /\ limit.submission = Job(r, m).submission /\ limit.end = "limit"
    BY <1>1, <1>5, JobTyped, ZenonT(60) DEF Jobs, Shaped, InFlight, Ended
  <2> HIDE DEF limit
  <2>2. Grown(Ledger(m), over)
    BY <1>1, <1>5, <2>1, JobTyped, ChangedGrows DEF Ended
  <2> QED
    BY <1>5, <2>2, CallKept
<1>6. Service(m).resume # 0 \/ UNCHANGED <<journal, manager, ids>>
  BY DEF Resume, Event, Refused
<1> QED
  BY <1>2, <1>3, <1>4, <1>5, <1>6 DEF Resume, Event, Call, Refused

LEMMA IntendKept ==
    ASSUME LedgersKept, RunnersBusy, NEW m \in Managers, NEW r \in Runners, Intend(r, m)
    PROVE  StepKept
<1> DEFINE job == [Job(r, m) EXCEPT !.submission = "send_intent_persisted"]
           K == Changed(r, m, job)
<1>1. runner[r].job \in Requests
  BY DEF Intend, RunnersBusy, Busy, Executing
<1>2. CASE UNCHANGED <<journal, manager, ids>>
  BY <1>2, UnchangedKept
<1>3. CASE Job(r, m).status = "running" /\ (Commit(m, K) \/ CommitFails(m, Ledger(m), K))
  <2>1. /\ job \in Jobs(New) /\ job.status = "running" /\ Shaped(job)
        /\ job.submission = "send_intent_persisted"
        /\ job.issue = Job(r, m).issue /\ job.end = "none"
    BY <1>1, <1>3, JobTyped DEF Jobs, Shaped, InFlight, Ended
  <2> HIDE DEF job
  <2>2. Grown(Ledger(m), K)
    BY <1>1, <1>3, <2>1, JobTyped, ChangedGrows DEF Ended
  <2> QED
    BY <1>3, <2>2, CallKept
<1> QED
  BY <1>2, <1>3 DEF Intend, Event, Call, Refused

LEMMA ConfirmKept ==
    ASSUME LedgersKept, RunnersBusy, NEW m \in Managers, NEW r \in Runners, Confirm(r, m)
    PROVE  StepKept
<1> DEFINE job == [Job(r, m) EXCEPT !.submission = "send_confirmed"]
           K == Changed(r, m, job)
<1>1. runner[r].job \in Requests
  BY DEF Confirm, RunnersBusy, Busy, Executing
<1>2. CASE UNCHANGED <<journal, manager, ids>>
  BY <1>2, UnchangedKept
<1>3. CASE /\ Job(r, m).submission = "send_intent_persisted" /\ Job(r, m).status \notin Ended
           /\ Commit(m, K) \/ CommitFails(m, Ledger(m), K)
  <2>1. /\ job \in Jobs(New) /\ job.status = Job(r, m).status /\ Shaped(job)
        /\ job.submission = "send_confirmed" /\ job.status # "absent"
        /\ job.issue = Job(r, m).issue /\ job.end = "none"
    BY <1>1, <1>3, JobTyped DEF Jobs, Shaped, InFlight, Ended
  <2> HIDE DEF job
  <2>2. Grown(Ledger(m), K)
    BY <1>1, <1>3, <2>1, JobTyped, ChangedGrows DEF Ended
  <2> QED
    BY <1>3, <2>2, CallKept
<1> QED
  BY <1>2, <1>3 DEF Confirm, Event, Call, Refused

LEMMA DeliverKept ==
    ASSUME LedgersKept, RunnersBusy, NEW m \in Managers, NEW r \in Runners, Deliver(r, m)
    PROVE  StepKept
<1> DEFINE end == IF runner[r].stopped THEN "stopped" ELSE "unknown"
           job == [Job(r, m) EXCEPT !.status = runner[r].outcome, !.held = FALSE, !.end = end]
           service == IF runner[r].stopped THEN Service(m) ELSE Block(Service(m))
           K == [Changed(r, m, job) EXCEPT !.service = service]
<1>1. runner[r].job \in Requests /\ runner[r].outcome \in Ended
  BY DEF Deliver, RunnersBusy, Busy
<1>2. CASE UNCHANGED <<journal, manager, ids>>
  BY <1>2, UnchangedKept
<1>3. CASE /\ Job(r, m).runner = r /\ Job(r, m).status \notin Ended
           /\ Commit(m, K) \/ CommitFails(m, Ledger(m), K)
  <2>1. Job(r, m).status # "absent"
    BY <1>1, <1>3, JobTyped, CaptureAssumption DEF Shaped
  <2>2. /\ job \in Jobs(New) /\ job.status \in Ended /\ Shaped(job)
        /\ job.submission = Job(r, m).submission /\ job.status # "absent" /\ job.end = end
    BY <1>1, <1>3, <2>1, JobTyped, ZenonT(60) DEF Jobs, Shaped, InFlight, Ended
  <2>3. /\ service \in Services(New) /\ service.epoch = Service(m).epoch
        /\ service.issue \in {0, New, Service(m).issue}
        /\ service.issue # 0 => service.state = "blocked"
    BY <1>1, JobTyped
  <2>4. service.state # "blocked" \/ service.resume # 0 =>
            IsOpen(Ledger(m)) /\ job.end # "unknown"
    BY <1>1, <2>2, JobTyped DEF IsOpen, Service
  <2> HIDE DEF job, service
  <2>5. Grown(Ledger(m), K)
    BY <1>1, <1>3, <2>1, <2>2, <2>3, <2>4, JobTyped, ChangedGrows
  <2> QED
    BY <1>3, <2>5, CallKept
<1>4. [Changed(r, m, job) EXCEPT !.service = IF runner[r].stopped THEN @ ELSE Block(@)] = K
  BY <1>1, JobTyped DEF Changed, Service, Sound, Ledgers
<1> QED
  BY <1>2, <1>3, <1>4 DEF Deliver, Call, Refused

(* No step of anybody takes back what the journal holds.                        *)
LEMMA NextKept ==
    ASSUME LedgersKept, RunnersBusy, Told(admin, journal), [Next]_vars
    PROVE  StepKept
<1>1. CASE UNCHANGED <<journal, manager, ids>>
  BY <1>1, UnchangedKept
<1>2. ASSUME NEW m \in Managers, Start(m) \/ Stop(m) \/ Lapse(m) \/ PostResume(m)
      PROVE  StepKept
  BY <1>2, StartKept, StopKept, LapseKept, PostResumeKept
<1>3. ASSUME NEW m \in Managers, NEW j \in Requests, Create(m, j) \/ Cancel(m, j) \/ Watchdog(m, j)
      PROVE  StepKept
  BY <1>3, CreateKept, EndingKept
<1>4. ASSUME NEW m \in Managers, NEW r \in Runners,
             NextOffer(r, m) \/ \E ready \in BOOLEAN : Hello(r, m, ready)
      PROVE  StepKept
  BY <1>4, OfferKept, HelloKept
<1>5. ASSUME NEW m \in Managers, NEW r \in Runners, Execute(r, m)
      PROVE  StepKept
  BY <1>5, AcceptKept, PauseKept, ResumeKept, IntendKept, ConfirmKept, DeliverKept DEF Execute
<1>6. ASSUME \/ \E r \in Runners : Launch(r) \/ Crash(r) \/ Click(r) \/ Answer(r) \/ GiveUp(r)
             \/ \E m \in Managers : ReadStatus(m)
      PROVE  UNCHANGED <<journal, manager, ids>>
  BY <1>6 DEF Launch, Crash, Click, Answer, GiveUp, ReadStatus
<1> QED
  BY <1>1, <1>2, <1>3, <1>4, <1>5, <1>6 DEF Next, vars

-------------------------------------------------------------------------------
(* Each action and the runners.                                                 *)

RunnersTyped == runner \in [Runners -> RunnerStates(ids)]

\* At most one runner moves, and not to the page's send control.
QuietRunners ==
    \/ UNCHANGED runner
    \/ \E r \in Runners, next \in RunnerStates(ids') :
          Busy(next) /\ next.pc # "clicking" /\ runner' = [runner EXCEPT ![r] = next]

\* A permission is committed and the runner hears of it.
IntentGiven(r, m) ==
    /\ runner[r].pc = "working"
    /\ Works(m) /\ Current(m)
    /\ Job(r, m).submission = "not_started"
    /\ journal' = Changed(r, m, [Job(r, m) EXCEPT !.submission = "send_intent_persisted"])
    /\ runner' = [runner EXCEPT ![r] = [runner[r] EXCEPT !.pc = "clicking"]]

LEMMA RecoilsQuiet ==
    ASSUME LedgersKept, StepKept, RunnersTyped, RunnersBusy, NEW r \in Runners, Recoils(r)
    PROVE  QuietRunners
<1>1. PICK next \in Recoil(r) : runner' = [runner EXCEPT ![r] = next]
  BY DEF Recoils, Becomes
<1>2. runner[r] \in RunnerStates(ids') /\ Busy(runner[r])
  BY LedgersGrow DEF LedgersKept, StepKept, RunnersTyped, RunnersBusy
<1>3. CASE runner[r].pc \in Executing
  <2>1. next \in Failing(r)
    BY <1>1, <1>3 DEF Recoil, Executing
  <2>2. PICK claim \in BOOLEAN : next = [runner[r] EXCEPT !.pc = "delivering", !.outcome = "failed",
                                                          !.stopped = claim]
    BY <2>1 DEF Failing
  <2>3. next \in RunnerStates(ids') /\ next.pc = "delivering" /\ Busy(next)
    BY <1>2, <1>3, <2>2 DEF RunnerStates, Busy, Ended
  <2> QED
    BY <1>1, <2>3 DEF QuietRunners
<1>4. CASE runner[r].pc \in {"delivering", "dead"}
  BY <1>1, <1>2, <1>4 DEF Recoil, QuietRunners, Executing
<1>5. CASE runner[r].pc \notin Executing \cup {"delivering", "dead"}
  <2>1. next = [runner[r] EXCEPT !.pc = "idle"]
    BY <1>1, <1>5 DEF Recoil
  <2>2. next \in RunnerStates(ids') /\ next.pc = "idle" /\ Busy(next)
    BY <1>2, <2>1 DEF RunnerStates, Busy, Executing
  <2> QED
    BY <1>1, <2>2 DEF QuietRunners
<1> QED
  BY <1>3, <1>4, <1>5

LEMMA HelloQuiet ==
    ASSUME LedgersKept, StepKept, RunnersTyped, RunnersBusy, NEW m \in Managers,
           NEW r \in Runners, NEW ready \in BOOLEAN, Hello(r, m, ready)
    PROVE  QuietRunners
<1> DEFINE idle == runner[r].pc = "idle"
           Hear(service) ==
             IF ~idle THEN runner[r]
             ELSE [runner[r] EXCEPT
                     !.epoch = service.epoch, !.resume = service.resume,
                     !.pc = IF ready /\ service.state = "ready" THEN "ready" ELSE "idle"]
<1>1. Recoils(r) \/ Becomes(r, Hear(journal'.service))
  BY ZenonT(60) DEF Hello
<1>2. runner[r] \in RunnerStates(ids') /\ Busy(runner[r])
  BY LedgersGrow DEF LedgersKept, StepKept, RunnersTyped, RunnersBusy
<1>3. journal'.service \in Services(ids')
  BY DEF StepKept, LedgersKept, Sound, Ledgers
<1>4. runner[r].pc \in {"idle"} \cup Executing
  BY DEF Hello
<1>5. CASE Becomes(r, Hear(journal'.service)) /\ idle
  <2> DEFINE next == Hear(journal'.service)
  <2>1. next \in RunnerStates(ids') /\ next.pc \in {"ready", "idle"}
    BY <1>2, <1>3, <1>5 DEF RunnerStates, Services
  <2>2. runner' = [runner EXCEPT ![r] = next]
    BY <1>5 DEF Becomes
  <2> HIDE DEF next
  <2>3. Busy(next) /\ next.pc # "clicking"
    BY <2>1 DEF Busy, Executing
  <2> QED
    BY <2>1, <2>2, <2>3 DEF QuietRunners
<1>6. CASE Becomes(r, Hear(journal'.service)) /\ ~idle
  <2>1. runner' = [runner EXCEPT ![r] = runner[r]]
    BY <1>6 DEF Becomes
  <2>2. runner' = runner
    BY <2>1 DEF RunnersTyped
  <2> QED
    BY <2>2 DEF QuietRunners
<1> QED
  BY <1>1, <1>5, <1>6, RecoilsQuiet

LEMMA OfferQuiet ==
    ASSUME LedgersKept, StepKept, RunnersTyped, RunnersBusy, NEW m \in Managers,
           NEW r \in Runners, NextOffer(r, m)
    PROVE  QuietRunners
<1> DEFINE j == ActiveJob(Ledger(m))
           next == [runner[r] EXCEPT !.pc = "offered", !.job = j]
<1>1. \/ Recoils(r) \/ UNCHANGED runner
      \/ j # None /\ runner' = [runner EXCEPT ![r] = next]
  BY DEF NextOffer, Call, Refused, Becomes
<1>2. CASE j # None /\ runner' = [runner EXCEPT ![r] = next]
  <2>1. j \in Requests
    BY <1>2 DEF ActiveJob, Active
  <2>2. runner[r] \in RunnerStates(ids')
    BY LedgersGrow DEF LedgersKept, StepKept, RunnersTyped
  <2>3. next \in RunnerStates(ids') /\ next.pc = "offered" /\ next.job = j
    BY <2>1, <2>2 DEF RunnerStates, Executing
  <2> QED
    BY <1>2, <2>1, <2>3 DEF QuietRunners, Busy
<1> QED
  BY <1>1, <1>2, RecoilsQuiet DEF QuietRunners

\* A runner that goes on with its job, short of the click.
LEMMA WorkingQuiet ==
    ASSUME LedgersKept, StepKept, RunnersTyped, RunnersBusy, NEW r \in Runners,
           runner[r].pc \in Executing, NEW pc \in Executing, pc # "clicking",
           Becomes(r, [runner[r] EXCEPT !.pc = pc])
    PROVE  QuietRunners
<1> DEFINE next == [runner[r] EXCEPT !.pc = pc]
<1>1. runner[r] \in RunnerStates(ids') /\ Busy(runner[r])
  BY LedgersGrow DEF LedgersKept, StepKept, RunnersTyped, RunnersBusy
<1>2. next \in RunnerStates(ids') /\ next.pc = pc /\ next.job \in Requests
  BY <1>1 DEF RunnerStates, Busy
<1>3. Busy(next)
  BY <1>2 DEF Busy, Executing
<1> QED
  BY <1>2, <1>3 DEF QuietRunners, Becomes

LEMMA ExecuteQuiet ==
    ASSUME LedgersKept, StepKept, RunnersTyped, RunnersBusy, NEW m \in Managers,
           NEW r \in Runners, Execute(r, m)
    PROVE  QuietRunners \/ (Intend(r, m) /\ IntentGiven(r, m))
<1>1. CASE Accept(r, m)
  <2>1. Recoils(r) \/ Becomes(r, [runner[r] EXCEPT !.pc = "working"])
    BY <1>1 DEF Accept, Event, Call, Refused
  <2> QED
    BY <1>1, <2>1, RecoilsQuiet, WorkingQuiet DEF Accept, Executing
<1>2. CASE Pause(r, m)
  <2>1. Recoils(r) \/ Becomes(r, [runner[r] EXCEPT !.pc = "paused"])
    BY <1>2 DEF Pause, Event, Call, Refused
  <2> QED
    BY <1>2, <2>1, RecoilsQuiet, WorkingQuiet DEF Pause, Executing
<1>3. CASE Resume(r, m)
  <2>1. \/ Recoils(r)
        \/ \E pc \in {"working", "observing"} : Becomes(r, [runner[r] EXCEPT !.pc = pc])
    BY <1>3 DEF Resume, Event, Call, Refused
  <2> QED
    BY <1>3, <2>1, RecoilsQuiet, WorkingQuiet DEF Resume, Executing
<1>4. CASE Intend(r, m)
  <2>1. Recoils(r) \/ IntentGiven(r, m)
    BY <1>4 DEF Intend, Event, Call, Refused, IntentGiven, Becomes, Commit
  <2> QED
    BY <1>4, <2>1, RecoilsQuiet
<1>5. CASE Confirm(r, m)
  <2>1. Recoils(r) \/ Becomes(r, [runner[r] EXCEPT !.pc = "observing"])
    BY <1>5 DEF Confirm, Event, Call, Refused
  <2> QED
    BY <1>5, <2>1, RecoilsQuiet, WorkingQuiet DEF Confirm, Executing
<1>6. CASE Deliver(r, m)
  <2> DEFINE next == [Away EXCEPT !.pc = "idle", !.epoch = runner[r].epoch,
                                  !.resume = runner[r].resume]
  <2>1. UNCHANGED runner \/ runner' = [runner EXCEPT ![r] = next]
    BY <1>6 DEF Deliver, Call, Refused, Becomes
  <2>2. runner[r] \in RunnerStates(ids')
    BY LedgersGrow DEF LedgersKept, StepKept, RunnersTyped
  <2>3. next \in RunnerStates(ids') /\ next.pc = "idle"
    BY <2>2 DEF RunnerStates, Away
  <2> QED
    BY <2>1, <2>3 DEF QuietRunners, Busy, Executing
<1> QED
  BY <1>1, <1>2, <1>3, <1>4, <1>5, <1>6 DEF Execute

LEMMA OwnStepQuiet ==
    ASSUME LedgersKept, StepKept, RunnersTyped, RunnersBusy, NEW r \in Runners,
           Launch(r) \/ Crash(r) \/ Click(r) \/ Answer(r) \/ GiveUp(r)
    PROVE  QuietRunners
<1>1. runner[r] \in RunnerStates(ids') /\ Busy(runner[r])
  BY LedgersGrow DEF LedgersKept, StepKept, RunnersTyped, RunnersBusy
<1>2. CASE Launch(r)
  <2> DEFINE next == [runner[r] EXCEPT !.pc = "idle"]
  <2>1. runner' = [runner EXCEPT ![r] = next]
    BY <1>2 DEF Launch, Becomes
  <2>2. next \in RunnerStates(ids') /\ next.pc = "idle"
    BY <1>1 DEF RunnerStates
  <2> QED
    BY <2>1, <2>2 DEF QuietRunners, Busy, Executing
<1>3. CASE Crash(r)
  <2> DEFINE next == [Away EXCEPT !.pc = "dead", !.epoch = runner[r].epoch]
  <2>1. runner' = [runner EXCEPT ![r] = next]
    BY <1>3 DEF Crash, Becomes
  <2>2. 0 \in 0..ids' /\ runner[r].epoch \in Nat
    BY <1>1 DEF RunnerStates, StepKept, LedgersKept
  <2>3. next \in RunnerStates(ids') /\ next.pc = "dead"
    BY <2>2 DEF RunnerStates, Away
  <2> QED
    BY <2>1, <2>3 DEF QuietRunners, Busy, Executing
<1>4. CASE Click(r)
  BY <1>4, WorkingQuiet DEF Click, Executing
<1>5. CASE Answer(r)
  <2>1. PICK claim \in BOOLEAN :
           runner' = [runner EXCEPT ![r] = [runner[r] EXCEPT !.pc = "delivering", !.outcome = "done",
                                                             !.stopped = claim]]
    BY <1>5 DEF Answer, Becomes
  <2> DEFINE next == [runner[r] EXCEPT !.pc = "delivering", !.outcome = "done", !.stopped = claim]
  <2>2. /\ next \in RunnerStates(ids') /\ next.pc = "delivering" /\ next.outcome = "done"
        /\ next.job = runner[r].job
    BY <1>1 DEF RunnerStates
  <2>3. runner[r].job \in Requests
    BY <1>1, <1>5 DEF Answer, Busy, Executing
  <2> QED
    BY <2>1, <2>2, <2>3 DEF QuietRunners, Busy, Ended
<1>6. CASE GiveUp(r)
  BY <1>6, RecoilsQuiet DEF GiveUp
<1> QED
  BY <1>2, <1>3, <1>4, <1>5, <1>6

LEMMA NextRunners ==
    ASSUME LedgersKept, StepKept, RunnersTyped, RunnersBusy, [Next]_vars
    PROVE  QuietRunners \/ \E r \in Runners, m \in Managers : Intend(r, m) /\ IntentGiven(r, m)
<1>1. CASE UNCHANGED runner
  BY <1>1, SMTT(60) DEF QuietRunners
<1>2. ASSUME NEW m \in Managers,
             \/ Start(m) \/ Stop(m) \/ Lapse(m) \/ ReadStatus(m) \/ PostResume(m)
             \/ \E j \in Requests : Create(m, j) \/ Cancel(m, j) \/ Watchdog(m, j)
      PROVE  UNCHANGED runner
  BY <1>2, ZenonT(60) DEF Start, Stop, Lapse, ReadStatus, PostResume, Create, Cancel, Watchdog
<1>3. ASSUME NEW m \in Managers, NEW r \in Runners,
             NextOffer(r, m) \/ \E ready \in BOOLEAN : Hello(r, m, ready)
      PROVE  QuietRunners
  BY <1>3, HelloQuiet, OfferQuiet
<1>4. ASSUME NEW m \in Managers, NEW r \in Runners, Execute(r, m)
      PROVE  QuietRunners \/ (Intend(r, m) /\ IntentGiven(r, m))
  BY <1>4, ExecuteQuiet
<1>5. ASSUME NEW r \in Runners, Launch(r) \/ Crash(r) \/ Click(r) \/ Answer(r) \/ GiveUp(r)
      PROVE  QuietRunners
  BY <1>5, OwnStepQuiet
<1> QED
  BY <1>1, <1>2, <1>3, <1>4, <1>5 DEF Next, vars

-------------------------------------------------------------------------------
(* Clicks, acknowledgements and the rest.                                       *)

HistoriesTyped ==
    /\ admin \in [job : Requests \cup {None}, issue : 0..ids, known : SUBSET Requests]
    /\ clicks \in [Requests -> Nat]
    /\ promised \in [Requests -> {"nothing", "admitted", "ended"}]
    /\ reviewed \subseteq Requests
    /\ faults \in 0..MaxFaults

\* Whoever may post a resume knows what it is for, and an open service was resumed by
\* somebody who did.
Informed ==
    /\ IsOpen(journal) => Uncertain(journal) \subseteq reviewed
    /\ Told(admin, journal)
    /\ \A m \in Managers : manager[m].up => Told(View(Ledger(m)), journal)

IInv ==
    /\ LedgersKept
    /\ Informed
    /\ RunnersTyped /\ RunnersBusy
    /\ HistoriesTyped
    /\ ClicksOnce
    /\ AcknowledgedKept

\* Steps that do not click.
LEMMA QuietClicks ==
    ASSUME RunnersTyped, ClicksOnce, StepKept, QuietRunners, UNCHANGED clicks
    PROVE  ClicksOnce'
<1>1. \A r \in Runners, j \in Requests : Clicking(r, j)' => Clicking(r, j)
  BY DEF RunnersTyped, QuietRunners, Clicking
<1>2. \A j \in Requests :
          journal'.jobs[j].submission = "not_started" => journal.jobs[j].submission = "not_started"
  BY DEF StepKept, Continues
<1> QED
  BY <1>1, <1>2 DEF ClicksOnce

\* The permission is given: nobody had it before.
LEMMA IntentClicks ==
    ASSUME LedgersKept, RunnersTyped, RunnersBusy, ClicksOnce, StepKept, UNCHANGED clicks,
           NEW r \in Runners, NEW m \in Managers, IntentGiven(r, m)
    PROVE  ClicksOnce'
<1> DEFINE j == runner[r].job
           job == [Job(r, m) EXCEPT !.submission = "send_intent_persisted"]
<1>1. j \in Requests
  BY DEF IntentGiven, RunnersBusy, Busy, Executing
<1>2. journal = Ledger(m) /\ journal \in Ledgers(ids)
  BY DEF IntentGiven, LedgersKept, CopyIsJournal, Sound
<1>3. journal.jobs[j].submission = "not_started"
  BY <1>2 DEF IntentGiven, Job
<1>4. job.submission = "send_intent_persisted"
  BY <1>1, <1>2 DEF Job, Ledgers, Jobs
<1>5. journal' = [journal EXCEPT !.jobs[j] = job]
  BY <1>2 DEF IntentGiven, Changed
<1> HIDE DEF job
<1>6. journal'.jobs[j].submission = "send_intent_persisted"
  BY <1>1, <1>2, <1>4, <1>5 DEF Ledgers
<1>7. \A i \in Requests :
          journal'.jobs[i].submission = "not_started" => journal.jobs[i].submission = "not_started"
  BY DEF StepKept, Continues
<1>8. \A s \in Runners, i \in Requests :
          Clicking(s, i)' => (s = r /\ i = j) \/ (s # r /\ Clicking(s, i))
  BY DEF RunnersTyped, RunnerStates, IntentGiven, Clicking
<1>9. clicks[j] = 0 /\ \A s \in Runners : ~Clicking(s, j)
  BY <1>1, <1>3 DEF ClicksOnce
<1> HIDE DEF j
<1> QED
  BY <1>1, <1>6, <1>7, <1>8, <1>9 DEF ClicksOnce

\* The permission is used: it cannot be used again.
LEMMA ClickClicks ==
    ASSUME RunnersTyped, RunnersBusy, HistoriesTyped, ClicksOnce, NEW r \in Runners, Click(r)
    PROVE  ClicksOnce'
<1> DEFINE j == runner[r].job
<1>1. j \in Requests /\ Clicking(r, j)
  BY DEF Click, RunnersBusy, Busy, Executing, Clicking
<1>2. /\ clicks' = [clicks EXCEPT ![j] = @ + 1] /\ UNCHANGED journal
      /\ runner' = [runner EXCEPT ![r] = [runner[r] EXCEPT !.pc = "clicked"]]
  BY DEF Click, Becomes
<1>3. clicks[j] = 0 /\ journal.jobs[j].submission # "not_started"
      /\ \A s \in Runners : Clicking(s, j) => s = r
  BY <1>1 DEF ClicksOnce
<1>4. \A s \in Runners, i \in Requests : Clicking(s, i)' => Clicking(s, i) /\ s # r
  BY <1>2 DEF RunnersTyped, RunnerStates, Clicking
<1>5. \A i \in Requests : clicks'[i] = IF i = j THEN 1 ELSE clicks[i]
  BY <1>1, <1>2, <1>3 DEF HistoriesTyped
<1> HIDE DEF j
<1> QED
  BY <1>1, <1>2, <1>3, <1>4, <1>5 DEF ClicksOnce

LEMMA NextClicks ==
    ASSUME IInv, StepKept, [Next]_vars
    PROVE  ClicksOnce'
<1>1. CASE \E r \in Runners : Click(r)
  BY <1>1, ClickClicks DEF IInv
<1>2. CASE UNCHANGED clicks
  <2>1. QuietRunners \/ \E r \in Runners, m \in Managers : IntentGiven(r, m)
    BY NextRunners, SMTT(60) DEF IInv
  <2> QED
    BY <1>2, <2>1, QuietClicks, IntentClicks DEF IInv
<1>3. ASSUME NEW m \in Managers,
             \/ Start(m) \/ Stop(m) \/ Lapse(m) \/ ReadStatus(m) \/ PostResume(m)
             \/ \E j \in Requests : Create(m, j) \/ Cancel(m, j) \/ Watchdog(m, j)
      PROVE  UNCHANGED clicks
  BY <1>3, ZenonT(60) DEF Start, Stop, Lapse, ReadStatus, PostResume, Create, Cancel, Watchdog, histories
<1>4. ASSUME NEW m \in Managers, NEW r \in Runners,
             NextOffer(r, m) \/ \E ready \in BOOLEAN : Hello(r, m, ready)
      PROVE  UNCHANGED clicks
  BY <1>4 DEF NextOffer, Hello, histories
<1>5. ASSUME NEW m \in Managers, NEW r \in Runners, Execute(r, m)
      PROVE  UNCHANGED clicks
  BY <1>5 DEF Execute, Accept, Pause, Resume, Intend, Confirm, Deliver, Event, histories
<1>6. ASSUME NEW r \in Runners, Launch(r) \/ Crash(r) \/ Answer(r) \/ GiveUp(r)
      PROVE  UNCHANGED clicks
  BY <1>6 DEF Launch, Crash, Answer, GiveUp, histories
<1> QED
  BY <1>1, <1>2, <1>3, <1>4, <1>5, <1>6 DEF Next, vars

\* A job is acknowledged when the manager knows it, or has just committed it.
LEMMA CreateAcknowledges ==
    ASSUME IInv, StepKept, NEW m \in Managers, NEW j \in Requests, Create(m, j)
    PROVE  AcknowledgedKept' /\ promised' \in [Requests -> {"nothing", "admitted", "ended"}]
<1>1. \/ UNCHANGED promised
      \/ /\ promised' = [promised EXCEPT ![j] = IF @ = "nothing" THEN "admitted" ELSE @]
         /\ journal'.jobs[j].status # "absent"
  <2>1. CASE Ledger(m).jobs[j].status # "absent" /\ UNCHANGED journal
    <3>1. Continues(Ledger(m), journal)
      BY DEF Create, IInv, LedgersKept, ManagersFenced
    <3> QED
      BY <2>1, <3>1 DEF Create, Continues, Call
  <2>2. CASE journal' = [Ledger(m) EXCEPT !.jobs[j] = Fresh]
    <3>1. journal'.jobs[j].status = "queued"
      BY <2>2 DEF IInv, LedgersKept, Sound, Ledgers, Fresh
    <3> QED
      BY <3>1 DEF Create, Call
  <2>3. \/ UNCHANGED promised
        \/ Ledger(m).jobs[j].status # "absent" /\ UNCHANGED journal
        \/ journal' = [Ledger(m) EXCEPT !.jobs[j] = Fresh]
    BY DEF Create, Call, Commit
  <2> QED
    BY <2>1, <2>2, <2>3
<1>2. promised' \in [Requests -> {"nothing", "admitted", "ended"}]
  BY <1>1 DEF IInv, HistoriesTyped
<1>3. \A i \in Requests :
          /\ promised'[i] # "nothing" => promised[i] # "nothing" \/ journal'.jobs[i].status # "absent"
          /\ promised'[i] = "ended" => promised[i] = "ended"
  BY <1>1 DEF IInv, HistoriesTyped
<1> QED
  BY <1>2, <1>3 DEF IInv, AcknowledgedKept, StepKept, Continues

\* An end is acknowledged when the manager knows one, or has just committed it.
LEMMA DeliverAcknowledges ==
    ASSUME IInv, StepKept, NEW m \in Managers, NEW r \in Runners, Deliver(r, m)
    PROVE  AcknowledgedKept' /\ promised' \in [Requests -> {"nothing", "admitted", "ended"}]
<1> DEFINE j == runner[r].job
           end == IF runner[r].stopped THEN "stopped" ELSE "unknown"
           job == [Job(r, m) EXCEPT !.status = runner[r].outcome, !.held = FALSE, !.end = end]
<1>1. j \in Requests /\ runner[r].outcome \in Ended
  BY DEF Deliver, IInv, RunnersBusy, Busy
<1>2. \/ UNCHANGED promised
      \/ promised' = [promised EXCEPT ![j] = "ended"] /\ journal'.jobs[j].status \in Ended
  <2>1. CASE manager[m].up /\ Job(r, m).status \in Ended /\ UNCHANGED journal
    <3>1. Continues(Ledger(m), journal)
      BY <2>1 DEF IInv, LedgersKept, ManagersFenced
    <3>2. journal'.jobs[j].status \in Ended
      BY <1>1, <2>1, <3>1 DEF Continues, Job
    <3> QED
      BY <3>2 DEF Deliver, Call, Refused
  <2>2. CASE journal'.jobs = [Ledger(m).jobs EXCEPT ![j] = job]
    <3>1. Job(r, m) \in Jobs(New)
      BY <1>1, JobTyped DEF IInv
    <3>2. job.status = runner[r].outcome
      BY <3>1 DEF Jobs
    <3>3. Ledger(m).jobs \in [Requests -> Jobs(ids)]
      BY DEF IInv, LedgersKept, Sound, Ledgers
    <3> HIDE DEF job
    <3>4. journal'.jobs[j].status \in Ended
      BY <1>1, <2>2, <3>2, <3>3
    <3> QED
      BY <3>4 DEF Deliver, Call, Refused
  <2>3. \/ UNCHANGED promised
        \/ manager[m].up /\ Job(r, m).status \in Ended /\ UNCHANGED journal
        \/ journal' = [Changed(r, m, job) EXCEPT
                          !.service = IF runner[r].stopped THEN @ ELSE Block(@)]
    BY DEF Deliver, Call, Commit, Refused
  <2>4. ASSUME journal' = [Changed(r, m, job) EXCEPT
                              !.service = IF runner[r].stopped THEN @ ELSE Block(@)]
        PROVE  journal'.jobs = [Ledger(m).jobs EXCEPT ![j] = job]
    <3>1. Ledger(m) \in Ledgers(ids)
      BY DEF IInv, LedgersKept, Sound
    <3> HIDE DEF job
    <3> QED
      BY <2>4, <3>1 DEF Changed, Ledgers
  <2> QED
    BY <2>1, <2>2, <2>3, <2>4
<1>3. promised' \in [Requests -> {"nothing", "admitted", "ended"}]
  BY <1>2 DEF IInv, HistoriesTyped
<1>4. \A i \in Requests :
          promised'[i] # promised[i] => promised'[i] = "ended" /\ journal'.jobs[i].status \in Ended
  BY <1>2 DEF IInv, HistoriesTyped
<1>5. \A i \in Requests :
          /\ journal.jobs[i].status # "absent" => journal'.jobs[i].status # "absent"
          /\ journal.jobs[i].status \in Ended => journal'.jobs[i].status \in Ended
  BY DEF StepKept, Continues
<1> QED
  BY <1>3, <1>4, <1>5 DEF IInv, AcknowledgedKept, Ended

LEMMA NextAcknowledges ==
    ASSUME IInv, StepKept, [Next]_vars
    PROVE  AcknowledgedKept' /\ promised' \in [Requests -> {"nothing", "admitted", "ended"}]
<1>1. CASE UNCHANGED promised
  BY <1>1, SMTT(60) DEF IInv, HistoriesTyped, AcknowledgedKept, StepKept, Continues
<1>2. ASSUME NEW m \in Managers,
             \/ Start(m) \/ Stop(m) \/ Lapse(m) \/ ReadStatus(m) \/ PostResume(m)
             \/ \E j \in Requests : Cancel(m, j) \/ Watchdog(m, j)
      PROVE  UNCHANGED promised
  BY <1>2, ZenonT(60) DEF Start, Stop, Lapse, ReadStatus, PostResume, Cancel, Watchdog, histories
<1>3. ASSUME NEW m \in Managers, NEW r \in Runners,
             NextOffer(r, m) \/ \E ready \in BOOLEAN : Hello(r, m, ready)
      PROVE  UNCHANGED promised
  BY <1>3 DEF NextOffer, Hello, histories
<1>4. ASSUME NEW m \in Managers, NEW r \in Runners, Execute(r, m), ~Deliver(r, m)
      PROVE  UNCHANGED promised
  BY <1>4 DEF Execute, Accept, Pause, Resume, Intend, Confirm, Event, histories
<1>5. ASSUME NEW r \in Runners, Launch(r) \/ Crash(r) \/ Click(r) \/ Answer(r) \/ GiveUp(r)
      PROVE  UNCHANGED promised
  BY <1>5 DEF Launch, Crash, Click, Answer, GiveUp, histories
<1> QED
  BY <1>1, <1>2, <1>3, <1>4, <1>5, CreateAcknowledges, DeliverAcknowledges DEF Next, vars

LEMMA FaultsCounted ==
    ASSUME HistoriesTyped, [Next]_vars
    PROVE  faults' \in 0..MaxFaults
<1>1. UNCHANGED faults \/ Fault
  <2>1. ASSUME NEW m \in Managers,
               \/ Start(m) \/ Stop(m) \/ Lapse(m) \/ ReadStatus(m) \/ PostResume(m)
               \/ \E j \in Requests : Create(m, j) \/ Cancel(m, j) \/ Watchdog(m, j)
        PROVE  UNCHANGED faults \/ Fault
    BY <2>1, ZenonT(60) DEF Start, Stop, Lapse, ReadStatus, PostResume, Create, Cancel, Watchdog, Call,
                CommitFails, Pay
  <2>2. ASSUME NEW m \in Managers, NEW r \in Runners,
               NextOffer(r, m) \/ \E ready \in BOOLEAN : Hello(r, m, ready)
        PROVE  UNCHANGED faults \/ Fault
    BY <2>2, ZenonT(60) DEF NextOffer, Hello, Call, CommitFails, Pay, Refused
  <2>3. ASSUME NEW m \in Managers, NEW r \in Runners, Execute(r, m)
        PROVE  UNCHANGED faults \/ Fault
    BY <2>3 DEF Execute, Accept, Pause, Resume, Intend, Confirm, Deliver, Event, Call,
                CommitFails, Pay, Refused
  <2>4. ASSUME NEW r \in Runners, Launch(r) \/ Crash(r) \/ Click(r) \/ Answer(r) \/ GiveUp(r)
        PROVE  UNCHANGED faults \/ Fault
    BY <2>4 DEF Launch, Crash, Click, Answer, GiveUp, Pay
  <2> QED
    BY <2>1, <2>2, <2>3, <2>4, SMTT(60) DEF Next, vars
<1> QED
  BY <1>1, CaptureAssumption DEF Fault, HistoriesTyped

\* The actions that change the rest of the histories.
LEMMA Recorders ==
    ASSUME [Next]_vars
    PROVE  \/ UNCHANGED <<admin, clicks, reviewed>>
           \/ \E m \in Managers : ReadStatus(m) \/ PostResume(m)
           \/ \E r \in Runners : Click(r)
<1>1. ASSUME NEW m \in Managers,
             \/ Start(m) \/ Stop(m) \/ Lapse(m)
             \/ \E j \in Requests : Create(m, j) \/ Cancel(m, j) \/ Watchdog(m, j)
      PROVE  UNCHANGED <<admin, clicks, reviewed>>
  BY <1>1, ZenonT(60) DEF Start, Stop, Lapse, Create, Cancel, Watchdog, histories
<1>2. ASSUME NEW m \in Managers, NEW r \in Runners,
             NextOffer(r, m) \/ \E ready \in BOOLEAN : Hello(r, m, ready)
      PROVE  UNCHANGED <<admin, clicks, reviewed>>
  BY <1>2 DEF NextOffer, Hello, histories
<1>3. ASSUME NEW m \in Managers, NEW r \in Runners, Execute(r, m)
      PROVE  UNCHANGED <<admin, clicks, reviewed>>
  BY <1>3 DEF Execute, Accept, Pause, Resume, Intend, Confirm, Deliver, Event, histories
<1>4. ASSUME NEW r \in Runners, Launch(r) \/ Crash(r) \/ Answer(r) \/ GiveUp(r)
      PROVE  UNCHANGED <<admin, clicks, reviewed>>
  BY <1>4 DEF Launch, Crash, Answer, GiveUp, histories
<1> QED
  BY <1>1, <1>2, <1>3, <1>4, SMTT(60) DEF Next, vars

LEMMA NextHistories ==
    ASSUME IInv, StepKept, [Next]_vars
    PROVE  HistoriesTyped'
<1>1. ids' >= ids /\ ids \in Nat /\ ids' \in Nat
  BY DEF StepKept, IInv, LedgersKept
<1>2. admin' \in [job : Requests \cup {None}, issue : 0..ids', known : SUBSET Requests]
  <2>1. UNCHANGED admin \/ \E m \in Managers : ReadStatus(m)
    BY Recorders DEF PostResume, Click
  <2>2. CASE UNCHANGED admin
    BY <1>1, <2>2 DEF IInv, HistoriesTyped
  <2>3. ASSUME NEW m \in Managers, ReadStatus(m)
        PROVE  admin' \in [job : Requests \cup {None}, issue : 0..ids', known : SUBSET Requests]
    <3>1. Ledger(m) \in Ledgers(ids')
      BY <1>1, LedgersGrow DEF IInv, LedgersKept, Sound
    <3>2. ActiveJob(Ledger(m)) \in Requests \cup {None}
      BY DEF ActiveJob, Active
    <3>3. Issue(Ledger(m)) \in 0..ids'
      BY <3>1, <3>2 DEF Issue, Ledgers, Jobs, Services
    <3>4. Uncertain(Ledger(m)) \subseteq Requests
      BY DEF Uncertain
    <3> QED
      BY <2>3, <3>2, <3>3, <3>4 DEF ReadStatus
  <2> QED
    BY <2>1, <2>2, <2>3
<1>3. clicks' \in [Requests -> Nat]
  <2>1. UNCHANGED clicks \/ \E r \in Runners : clicks' = [clicks EXCEPT ![runner[r].job] = @ + 1]
    BY Recorders DEF ReadStatus, PostResume, Click, histories
  <2> QED
    BY <2>1 DEF IInv, HistoriesTyped
<1>4. reviewed' \subseteq Requests
  <2>1. UNCHANGED reviewed \/ reviewed' = reviewed \cup admin.known
    BY Recorders, ZenonT(60) DEF ReadStatus, PostResume, Click, histories
  <2> QED
    BY <2>1 DEF IInv, HistoriesTyped
<1> QED
  BY <1>2, <1>3, <1>4, NextAcknowledges, FaultsCounted DEF HistoriesTyped, IInv

(* What is read stays true until the identity it names is drawn again, and      *)
(* nothing becomes uncertain while the service is open or about to open.        *)
LEMMA NextInforms ==
    ASSUME IInv, StepKept, [Next]_vars
    PROVE  Informed'
<1>1. /\ ids \in Nat /\ New = ids + 1
      /\ \A v \in Views : v.issue # New /\ Told(v, journal) => Told(v, journal')
      /\ Cleared(journal) => Cleared(journal')
      /\ \A m \in Managers : manager'[m].up =>
            \/ manager[m].up /\ manager'[m].ledger = manager[m].ledger
            \/ Told(View(manager'[m].ledger), journal')
  BY DEF StepKept, Tells, IInv, LedgersKept, New
<1>2. \A m \in Managers : /\ View(Ledger(m)) \in Views /\ View(Ledger(m)).issue # New
                          /\ manager[m].up => Told(View(Ledger(m)), journal)
  <2> SUFFICES ASSUME NEW m \in Managers
               PROVE  View(Ledger(m)) \in Views /\ View(Ledger(m)).issue # New
    BY DEF IInv, Informed
  <2>1. View(Ledger(m)) \in Views /\ View(Ledger(m)).issue <= ids
    BY <1>1, ViewTyped DEF IInv, LedgersKept
  <2> QED
    BY <1>1, <2>1 DEF Views
<1>3. \A m \in Managers : manager'[m].up => Told(View(manager'[m].ledger), journal')
  BY <1>1, <1>2 DEF Ledger
<1>4. Told(admin', journal')
  <2>1. UNCHANGED admin \/ \E m \in Managers : ReadStatus(m)
    BY Recorders DEF PostResume, Click
  <2>2. CASE UNCHANGED admin
    <3>1. admin \in Views /\ admin.issue # New /\ Told(admin, journal)
      BY <1>1 DEF IInv, HistoriesTyped, Informed, Views
    <3> QED
      BY <1>1, <2>2, <3>1
  <2>3. ASSUME NEW m \in Managers, ReadStatus(m) PROVE Told(admin', journal')
    <3>1. admin' = View(Ledger(m)) /\ UNCHANGED journal /\ manager[m].up
      BY <2>3 DEF ReadStatus, View
    <3>2. Told(View(Ledger(m)), journal)
      BY <1>2, <3>1
    <3> QED
      BY <3>1, <3>2
  <2> QED
    BY <2>1, <2>2, <2>3
<1>5. IsOpen(journal') => Uncertain(journal') \subseteq reviewed'
  <2>1. reviewed \subseteq reviewed'
    BY Recorders DEF ReadStatus, PostResume, Click, histories
  <2>2. Cleared(journal)
    BY <2>1 DEF Cleared, IInv, Informed
  <2> QED
    BY <1>1, <2>2 DEF Cleared
<1> QED
  BY <1>3, <1>4, <1>5, ZenonT(60) DEF Informed, Ledger, Told, IsOpen, View, Uncertain, ActiveJob, Active, Issue

-------------------------------------------------------------------------------
(* The theorems.                                                                *)

LEMMA InitIInv == Init => IInv
<1> SUFFICES ASSUME Init PROVE IInv
  OBVIOUS
<1>1. ids = 0 /\ Sound(Empty, ids)
  BY EmptySound DEF Init
<1>2. Down \in ManagerRecord(ids) /\ ~Down.up /\ Down.ledger = Empty
  BY <1>1 DEF Down, ManagerRecord, Sound
<1>3. LedgersKept
  BY <1>1, <1>2 DEF Init, LedgersKept, ManagersFenced, CopyIsJournal, Works, Ledger, ManagerRecord
<1>4. Away \in RunnerStates(0) /\ Away.pc = "off"
  BY DEF Away, RunnerStates
<1>5. RunnersTyped /\ RunnersBusy
  BY <1>1, <1>4 DEF Init, RunnersTyped, RunnersBusy, Busy, Executing
<1>6. HistoriesTyped
  BY <1>1, CaptureAssumption DEF Init, HistoriesTyped, Nothing
<1>7. ClicksOnce
  BY <1>4 DEF Init, ClicksOnce, Clicking
<1>8. AcknowledgedKept
  BY DEF Init, AcknowledgedKept
<1>9. Informed
  <2>1. \A j \in Requests : journal.jobs[j] = Absent /\ Absent.end = "none"
    BY DEF Init, Empty, Absent, Fresh
  <2>2. Uncertain(journal) = {}
    BY <2>1 DEF Uncertain
  <2>3. admin.job = None /\ admin.issue = 0
    BY DEF Init, Nothing
  <2> QED
    BY <1>2, <2>2, <2>3 DEF Init, Informed, Told
<1> QED
  BY <1>3, <1>5, <1>6, <1>7, <1>8, <1>9 DEF IInv

LEMMA NextIInv == IInv /\ [Next]_vars => IInv' /\ StepKept
<1> SUFFICES ASSUME IInv, [Next]_vars PROVE IInv' /\ StepKept
  OBVIOUS
<1>1. StepKept
  BY NextKept DEF IInv, Informed
<1>2. QuietRunners \/ \E r \in Runners, m \in Managers : IntentGiven(r, m)
  BY <1>1, NextRunners DEF IInv
<1>3. runner \in [Runners -> RunnerStates(ids')] /\ RunnersBusy
  BY <1>1, LedgersGrow DEF IInv, StepKept, LedgersKept, RunnersTyped
<1>4. ASSUME QuietRunners PROVE RunnersTyped' /\ RunnersBusy'
  BY <1>3, <1>4 DEF QuietRunners, RunnersTyped, RunnersBusy
<1>5. ASSUME NEW r \in Runners, NEW m \in Managers, IntentGiven(r, m)
      PROVE  RunnersTyped' /\ RunnersBusy'
  <2> DEFINE next == [runner[r] EXCEPT !.pc = "clicking"]
  <2>1. next \in RunnerStates(ids') /\ next.pc = "clicking" /\ next.job = runner[r].job
    BY <1>3 DEF RunnerStates, Executing
  <2>2. Busy(next)
    BY <1>3, <1>5, <2>1 DEF RunnersBusy, Busy, IntentGiven, Executing
  <2>3. runner' = [runner EXCEPT ![r] = next]
    BY <1>5 DEF IntentGiven
  <2> HIDE DEF next
  <2> QED
    BY <1>3, <2>1, <2>2, <2>3 DEF RunnersTyped, RunnersBusy
<1> QED
  BY <1>1, <1>2, <1>4, <1>5, NextHistories, NextInforms, NextClicks, NextAcknowledges
     DEF IInv, StepKept

(* The invariant holds in every reachable state.                                *)
THEOREM CaptureInvariant == Spec => []IInv
BY InitIInv, NextIInv, PTL DEF Spec

(* The journal, the managers' copies, the runners and the histories keep their  *)
(* types (JobManager, journal.py, runner.mjs).                                  *)
THEOREM CaptureTypeCorrect == Spec => []TypeOK
<1>1. IInv => TypeOK
  BY DEF IInv, LedgersKept, Sound, RunnersTyped, HistoriesTyped, TypeOK
<1> QED
  BY <1>1, CaptureInvariant, PTL

(* A manager that can still commit decides on what the journal holds: the epoch *)
(* compared in the transaction fences every other one.                          *)
THEOREM CaptureCopyIsJournal == Spec => []CopyIsJournal
<1>1. IInv => CopyIsJournal
  BY DEF IInv, LedgersKept
<1> QED
  BY <1>1, CaptureInvariant, PTL

(* A prompt is clicked at most once, and only under a durable permission,       *)
(* whatever is lost, repeated or restarted.                                     *)
THEOREM CaptureSentOnce == Spec => []SentOnce
<1>1. IInv => SentOnce
  BY DEF IInv, ClicksOnce, SentOnce
<1> QED
  BY <1>1, CaptureInvariant, PTL

(* The service is open only when an administrator has seen every uncertain end  *)
(* and has asked to resume since (_block, resume and hello of JobManager): no   *)
(* resume read before an end became uncertain opens it, of whatever manager.    *)
THEOREM CaptureOpenIsReviewed == Spec => []OpenIsReviewed
<1>1. IInv => OpenIsReviewed
  BY DEF IInv, Informed, IsOpen, OpenIsReviewed
<1> QED
  BY <1>1, CaptureInvariant, PTL

(* The journal never holds two active jobs.                                     *)
THEOREM CaptureOneFlight == Spec => []OneFlight
<1>1. IInv => OneFlight
  <2> SUFFICES ASSUME IInv PROVE Cardinality(Active(journal)) <= 1
    BY DEF OneFlight
  <2>1. OneAtATime(journal)
    BY DEF IInv, LedgersKept, Sound
  <2>2. CASE Active(journal) = {}
    BY <2>2, FS_EmptySet
  <2>3. ASSUME NEW j \in Active(journal) PROVE Cardinality(Active(journal)) <= 1
    <3>1. Active(journal) = {j}
      BY <2>1 DEF OneAtATime
    <3>2. Cardinality({j}) = 1
      BY FS_Singleton
    <3> QED
      BY <3>1, <3>2
  <2> QED
    BY <2>2, <2>3
<1> QED
  BY <1>1, CaptureInvariant, PTL

(* What was acknowledged to a client or a runner is in the journal.             *)
THEOREM CaptureAcknowledgedKept == Spec => []AcknowledgedKept
<1>1. IInv => AcknowledgedKept
  BY DEF IInv
<1> QED
  BY <1>1, CaptureInvariant, PTL

(* A job that ended is never rewritten, by no manager.                          *)
THEOREM CaptureEndsAreFinal == Spec => EndsAreFinal
<1>1. StepKept => \A j \in Requests :
                     journal.jobs[j].status \in Ended => journal'.jobs[j] = journal.jobs[j]
  BY DEF StepKept, Continues
<1>2. IInv /\ [Next]_vars =>
         [\A j \in Requests :
            journal.jobs[j].status \in Ended => journal'.jobs[j] = journal.jobs[j]]_vars
  BY <1>1, NextIInv
<1> QED
  BY <1>2, CaptureInvariant, PTL DEF Spec, EndsAreFinal

===============================================================================
