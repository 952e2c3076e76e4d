----------------------------- MODULE Research_proofs -----------------------------
(******************************************************************************)
(* Proofs about research: its requests, for any number of requests, handler   *)
(* threads, faults and stops, and the settings it runs under, for any number  *)
(* of pages, shells, providers and writes.                                    *)
(******************************************************************************)
EXTENDS Research, AiConfiguration, FiniteSetTheorems, TLAPS

-----------------------------------------------------------------------------
(* The inductive invariant.                                                  *)

ThreadStates ==
    [task : {"none", "create", "read", "cancel", "recover"},
     pc : {"idle", "admitting", "claiming", "submitting", "loading",
           "polling", "completing", "reloading", "saving", "reconciling",
           "cancelling", "listing", "deleting", "recovering"},
     on : Requests \cup {None}, copy : Rows,
     then : {"idle", "listing", "completing", "reconciling", "cancelling", "deleting"},
     page : SUBSET [on : Requests, copy : Rows]]

Exists(q) == row[q].state # "none"

(* The request has been claimed, or cancelled: no claim can take it again.   *)
Beyond(q) == row[q].state \notin {"none", "admitted"}

(* Its hold is accounted, or will be, unless something went wrong.           *)
Settling(q) ==
    \/ hold[q] # "reserved"
    \/ faults > 0
    \/ \E t \in Threads : At(t, "reconciling") /\ thread[t].on = q

(* The steps at which a thread has a copy that it may write back.            *)
Copying == {"submitting", "polling", "completing", "reloading", "saving", "reconciling",
            "cancelling"}

(* What a thread counts on, however stale its copy is: the copy was read     *)
(* after a claim or a cancellation, so writing it back never makes the       *)
(* request claimable again; and if it is terminal, writing it back does not  *)
(* hide that the request has still to be accounted.                          *)
Fits(l) ==
    /\ l.pc = "admitting" => l.on # None
    /\ l.pc = "loading" => l.on # None /\ Exists(l.on)
    /\ l.pc \in Copying =>
          /\ l.on # None /\ Exists(l.on)
          /\ l.copy.state \notin {"none", "admitted"}
    /\ l.pc = "submitting" => Beyond(l.on) /\ creations[l.on] = 0
    /\ l.pc = "reconciling" \/ (l.pc = "saving" /\ l.then = "reconciling") =>
          l.copy.state \in Terminal
    /\ \/ l.pc \in {"polling", "completing", "cancelling"}
       \/ l.pc = "saving" /\ l.then # "reconciling"
       => (l.copy.state \in Terminal => Settling(l.on))
    /\ l.pc = "deleting" \/ (l.pc = "saving" /\ l.then = "deleting") =>
          \A e \in l.page :
              Exists(e.on) /\ e.copy.state \in Terminal /\ Settling(e.on)

RowFits(q) ==
    /\ ~Beyond(q) => creations[q] = 0 /\ ~row[q].cancel
    /\ creations[q] \in {0, 1}
    /\ row[q].state \in Terminal => Settling(q)

OneSubmitter ==
    \A t, u \in Threads :
        At(t, "submitting") /\ At(u, "submitting") /\ thread[t].on = thread[u].on => t = u

IInv ==
    /\ TypeOK
    /\ slot # None => Exists(slot)
    /\ OneSubmitter
    /\ \A q \in Requests : RowFits(q)
    /\ \A t \in Threads : Fits(thread[t])

-----------------------------------------------------------------------------
(* How a thread moves.                                                       *)

(* TypeOK but for the threads.                                               *)
RecordsTyped ==
    /\ row \in [Requests -> Rows]
    /\ slot \in Requests \cup {None}
    /\ hold \in [Requests -> {"none", "reserved", "reconciled", "unknown"}]
    /\ answers \subseteq Requests
    /\ remote \in [Requests -> {"none", "running", "complete", "ended", "cancelled", "gone"}]
    /\ creations \in [Requests -> Nat]
    /\ overdue \subseteq Requests /\ cancels \subseteq Requests
    /\ faults \in 0..MaxFaults
    /\ \A q \in Requests : (row[q].state = "none") = (hold[q] = "none")

LEMMA Typed ==
    /\ TypeOK => RecordsTyped /\ thread \in [Threads -> ThreadStates]
    /\ RecordsTyped /\ thread \in [Threads -> ThreadStates] => TypeOK
BY DEF TypeOK, RecordsTyped, ThreadStates

LEMMA IdleTyped == Idle \in ThreadStates /\ NoRow \in Rows
BY DEF Idle, ThreadStates, NoRow, Rows

LEMMA BecomeMoves ==
    ASSUME TypeOK, NEW t \in Threads, NEW l \in ThreadStates, Become(t, l)
    PROVE  /\ thread' \in [Threads -> ThreadStates]
           /\ \A u \in Threads \ {t} : thread'[u] = thread[u]
           /\ thread'[t].pc = l.pc
           /\ l.pc \notin {"idle", "listing"} => thread'[t] = l
<1>0. thread \in [Threads -> ThreadStates]
  BY Typed
<1> DEFINE listing == [Idle EXCEPT !.task = "read", !.pc = "listing"]
<1>1. listing \in ThreadStates /\ listing.pc = "listing" /\ Idle.pc = "idle"
  BY IdleTyped DEF ThreadStates, Idle
<1>2. CASE l.pc = "idle"
  BY <1>0, <1>1, <1>2, IdleTyped DEF Become
<1>3. CASE l.pc = "listing"
  <2>1. thread' = [thread EXCEPT ![t] = listing]
    BY <1>3 DEF Become
  <2> QED
    BY <1>0, <1>1, <1>3, <2>1
<1>4. CASE l.pc \notin {"idle", "listing"}
  <2>1. thread' = [thread EXCEPT ![t] = l]
    BY <1>4 DEF Become
  <2> QED
    BY <1>0, <1>4, <2>1
<1> QED
  BY <1>2, <1>3, <1>4

(* An idle or listing thread counts on nothing.                              *)
LEMMA NothingToFit ==
    ASSUME NEW l, l.pc \in {"idle", "listing", "claiming", "recovering"}
    PROVE  Fits(l)
BY DEF Fits, Copying

LEMMA GotoIs ==
    ASSUME TypeOK, NEW t \in Threads,
           NEW pc \in {"idle", "listing", "claiming", "cancelling", "reloading"},
           Goto(t, pc)
    PROVE  \E l \in ThreadStates :
              /\ Become(t, l)
              /\ l.pc = pc /\ l.on = thread[t].on /\ l.copy = thread[t].copy
              /\ l.then = thread[t].then /\ l.page = thread[t].page
<1> DEFINE l == [thread[t] EXCEPT !.pc = pc]
<1>1. thread[t] \in ThreadStates
  BY Typed
<1>2. /\ l \in ThreadStates
      /\ l.pc = pc /\ l.on = thread[t].on /\ l.copy = thread[t].copy
      /\ l.then = thread[t].then /\ l.page = thread[t].page
  BY <1>1 DEF ThreadStates
<1>3. Become(t, l)
  BY DEF Goto
<1> HIDE DEF l
<1> QED
  BY <1>2, <1>3, Zenon

Thens == {"idle", "listing", "completing", "reconciling", "cancelling", "deleting"}

LEMMA WillSaveIs ==
    ASSUME TypeOK, NEW t \in Threads, NEW c \in Rows, NEW then \in Thens,
           WillSave(t, c, then)
    PROVE  \E l \in ThreadStates :
              /\ Become(t, l)
              /\ l.pc = "saving" /\ l.on = thread[t].on /\ l.copy = c
              /\ l.then = then /\ l.page = thread[t].page
<1> DEFINE l == [thread[t] EXCEPT !.pc = "saving", !.copy = c, !.then = then]
<1>1. thread[t] \in ThreadStates
  BY Typed
<1>2. /\ l \in ThreadStates
      /\ l.pc = "saving" /\ l.on = thread[t].on /\ l.copy = c
      /\ l.then = then /\ l.page = thread[t].page
  BY <1>1 DEF ThreadStates, Thens
<1>3. Become(t, l)
  BY DEF WillSave
<1> HIDE DEF l
<1> QED
  BY <1>2, <1>3, Zenon

-----------------------------------------------------------------------------
(* What a step does to what other threads count on.                          *)

(* Requests that exist go on to exist, what is beyond a claim stays there,   *)
(* and what is settling goes on settling.                                    *)
Onward ==
    \A q \in Requests :
        /\ Exists(q) => Exists(q)'
        /\ Beyond(q) => Beyond(q)'
        /\ Exists(q) /\ Settling(q) => Settling(q)'

LEMMA FitsOnward ==
    ASSUME NEW l \in ThreadStates, Fits(l), Onward,
           l.pc = "submitting" => creations'[l.on] = creations[l.on]
    PROVE  Fits(l)'
<1>1. l.on \in Requests \cup {None} /\ \A e \in l.page : e.on \in Requests
  BY DEF ThreadStates
<1>2. l.pc = "loading" => l.on # None /\ Exists(l.on)'
  BY <1>1 DEF Fits, Onward
<1>3. l.pc \in Copying =>
          /\ l.on # None /\ Exists(l.on) /\ Exists(l.on)'
          /\ l.copy.state \notin {"none", "admitted"}
  BY <1>1 DEF Fits, Onward
<1>4. l.pc = "submitting" => Beyond(l.on)' /\ creations'[l.on] = 0
  BY <1>1, <1>3 DEF Fits, Onward, Copying
<1>5. \/ l.pc \in {"polling", "completing", "cancelling"}
      \/ l.pc = "saving" /\ l.then # "reconciling"
      => (l.copy.state \in Terminal => Settling(l.on)')
  BY <1>1, <1>3 DEF Fits, Onward, Copying
<1>6. l.pc = "deleting" \/ (l.pc = "saving" /\ l.then = "deleting") =>
          \A e \in l.page :
              Exists(e.on)' /\ e.copy.state \in Terminal /\ Settling(e.on)'
  BY <1>1 DEF Fits, Onward
<1> QED
  BY <1>2, <1>3, <1>4, <1>5, <1>6 DEF Fits

LEMMA StaysSettling ==
    ASSUME NEW q \in Requests, Settling(q), NEW t \in Threads, ~At(t, "reconciling"),
           \A u \in Threads \ {t} : thread'[u] = thread[u],
           hold'[q] = hold[q], faults' = faults
    PROVE  Settling(q)'
BY DEF Settling, At

(* One thread takes a step, and the invariant is preserved if everything     *)
(* moves onward and the thread itself may count on what it takes along.      *)
LEMMA ThreadSteps ==
    ASSUME IInv, NEW t \in Threads, NEW l \in ThreadStates, Become(t, l),
           RecordsTyped', Onward,
           slot' # None => Exists(slot)',
           \A q \in Requests : RowFits(q)',
           \A u \in Threads \ {t} : At(u, "submitting") =>
               /\ creations'[thread[u].on] = creations[thread[u].on]
               /\ ~(l.pc = "submitting" /\ thread[u].on = l.on),
           Fits(l)'
    PROVE  IInv'
<1>1. /\ TypeOK /\ OneSubmitter
      /\ \A u \in Threads : Fits(thread[u]) /\ thread[u] \in ThreadStates
  BY Typed DEF IInv
<1>2. /\ thread' \in [Threads -> ThreadStates]
      /\ \A u \in Threads \ {t} : thread'[u] = thread[u]
      /\ thread'[t].pc = l.pc
      /\ l.pc \notin {"idle", "listing"} => thread'[t] = l
  BY <1>1, BecomeMoves
<1>3. TypeOK'
  BY <1>2, Typed DEF TypeOK, RecordsTyped, ThreadStates
<1>4. ASSUME NEW u \in Threads \ {t} PROVE Fits(thread[u])'
  <2>1. PICK k \in ThreadStates : k = thread[u]
    BY <1>1
  <2>2. Fits(k) /\ (k.pc = "submitting" => creations'[k.on] = creations[k.on])
    BY <1>1, <2>1 DEF At
  <2>3. Fits(k)' /\ thread'[u] = k
    BY <1>2, <2>1, <2>2, FitsOnward
  <2> QED
    BY <2>3 DEF Fits
<1>5. Fits(thread[t])'
  <2>1. CASE l.pc \in {"idle", "listing"}
    BY <1>2, <2>1 DEF Fits, Copying
  <2>2. CASE l.pc \notin {"idle", "listing"}
    BY <1>2, <2>2 DEF Fits
  <2> QED
    BY <2>1, <2>2
<1>6. OneSubmitter'
  <2> SUFFICES ASSUME NEW u \in Threads, NEW v \in Threads,
                      At(u, "submitting")', At(v, "submitting")', thread'[u].on = thread'[v].on
               PROVE  u = v
    BY DEF OneSubmitter
  <2>1. CASE u # t /\ v # t
    BY <1>1, <1>2, <2>1 DEF OneSubmitter, At
  <2>2. CASE u = t /\ v # t
    BY <1>2, <2>2 DEF At
  <2>3. CASE u # t /\ v = t
    BY <1>2, <2>3 DEF At
  <2> QED
    BY <2>1, <2>2, <2>3
<1> QED
  BY <1>3, <1>4, <1>5, <1>6 DEF IInv

(* A thread steps and leaves the database as it is.                          *)
LEMMA QuietStep ==
    ASSUME IInv, NEW t \in Threads, NEW l \in ThreadStates, Become(t, l),
           UNCHANGED <<stores, rest>>,
           remote' \in [Requests -> {"none", "running", "complete", "ended", "cancelled", "gone"}],
           ~At(t, "reconciling"), l.pc # "submitting", Fits(l)
    PROVE  IInv'
<1>0. TypeOK /\ RecordsTyped
  BY Typed DEF IInv
<1>1. /\ row' = row /\ slot' = slot /\ hold' = hold /\ answers' = answers
      /\ creations' = creations /\ overdue' = overdue /\ cancels' = cancels /\ faults' = faults
  BY DEF stores, rest
<1>2. \A u \in Threads \ {t} : thread'[u] = thread[u]
  BY <1>0, BecomeMoves
<1>3. \A q \in Requests : Settling(q) => Settling(q)'
  BY <1>1, <1>2, StaysSettling
<1>4. Onward
  BY <1>1, <1>3 DEF Onward, Exists, Beyond
<1>5. RecordsTyped'
  BY <1>0, <1>1 DEF RecordsTyped
<1>6. \A q \in Requests : RowFits(q)'
  BY <1>1, <1>3 DEF IInv, RowFits, Beyond
<1>7. Fits(l)'
  BY <1>1, <1>4, FitsOnward
<1>8. slot' # None => Exists(slot)'
  BY <1>1 DEF IInv, Exists
<1> QED
  BY <1>1, <1>4, <1>5, <1>6, <1>7, <1>8, ThreadSteps

(* It does so to save a copy, which is not claimable, and settling if it is  *)
(* terminal and not about to be accounted.                                   *)
LEMMA QuietSave ==
    ASSUME IInv, NEW t \in Threads, NEW c \in Rows,
           NEW then \in {"listing", "completing", "reconciling"},
           WillSave(t, c, then),
           UNCHANGED <<stores, rest>>,
           remote' \in [Requests -> {"none", "running", "complete", "ended", "cancelled", "gone"}],
           thread[t].pc \in Copying \ {"reconciling"},
           c.state \notin {"none", "admitted"},
           then = "reconciling" => c.state \in Terminal,
           then # "reconciling" /\ c.state \in Terminal => Settling(thread[t].on)
    PROVE  IInv'
<1>0. TypeOK /\ Fits(thread[t])
  BY DEF IInv
<1>1. PICK l \in ThreadStates :
         /\ Become(t, l)
         /\ l.pc = "saving" /\ l.on = thread[t].on /\ l.copy = c
         /\ l.then = then /\ l.page = thread[t].page
  BY <1>0, WillSaveIs DEF Thens
<1>2. l.on # None /\ Exists(l.on)
  BY <1>0, <1>1 DEF Fits
<1>3. Fits(l)
  BY <1>1, <1>2 DEF Fits
<1> QED
  BY <1>1, <1>3, QuietStep DEF At

LEMMA QuietFinish ==
    ASSUME IInv, NEW t \in Threads, NEW c \in Rows, NEW state \in Terminal,
           WillFinish(t, c, state),
           UNCHANGED <<stores, rest>>,
           remote' \in [Requests -> {"none", "running", "complete", "ended", "cancelled", "gone"}],
           thread[t].pc \in Copying \ {"reconciling"}
    PROVE  IInv'
<1> DEFINE f == Finished(c, state)
<1>1. f \in Rows /\ f.state = state
  BY DEF Finished, Rows
<1>2. WillSave(t, f, "reconciling") /\ state \notin {"none", "admitted"}
  BY DEF WillFinish, Terminal
<1> HIDE DEF f
<1> QED
  BY <1>1, <1>2, QuietSave

-----------------------------------------------------------------------------

LEMMA InitIInv == Init => IInv
<1> SUFFICES ASSUME Init PROVE IInv
  OBVIOUS
<1>1. TypeOK
  <2>1. RecordsTyped
    BY ResearchAssumption, IdleTyped DEF Init, RecordsTyped, NoRow
  <2>2. thread \in [Threads -> ThreadStates]
    BY IdleTyped DEF Init
  <2> QED
    BY <2>1, <2>2, Typed
<1>2. OneSubmitter /\ \A t \in Threads : Fits(thread[t])
  BY DEF Init, Idle, OneSubmitter, At, Fits, Copying
<1>3. \A q \in Requests : RowFits(q)
  BY DEF Init, RowFits, NoRow, Beyond, Terminal
<1> QED
  BY <1>1, <1>2, <1>3 DEF IInv, Init

(* A thread that was idle takes up a task, or one that had nothing to do     *)
(* goes looking.                                                             *)
LEMMA StartCreatePreserves ==
    ASSUME IInv, NEW t \in Threads, NEW q \in Requests, StartCreate(t, q)
    PROVE  IInv'
<1> DEFINE l == [Idle EXCEPT !.task = "create", !.pc = "admitting", !.on = q]
<1>1. l \in ThreadStates /\ l.pc = "admitting" /\ l.on = q /\ q # None
  BY IdleTyped, ResearchAssumption DEF ThreadStates
<1>2. Become(t, l) /\ At(t, "idle") /\ UNCHANGED <<stores, remote, rest>>
  BY DEF StartCreate
<1> HIDE DEF l
<1>3. Fits(l)
  BY <1>1 DEF Fits, Copying
<1> QED
  BY <1>1, <1>2, <1>3, QuietStep DEF IInv, TypeOK, At

LEMMA StartCancelPreserves ==
    ASSUME IInv, NEW t \in Threads, NEW q \in Requests, StartCancel(t, q)
    PROVE  IInv'
<1>0. row[q] \in Rows /\ q # None
  BY ResearchAssumption DEF IInv, TypeOK
<1>1. /\ row[q].state \in Active /\ At(t, "idle") /\ UNCHANGED <<stores, remote, rest>>
      /\ remote' \in [Requests -> {"none", "running", "complete", "ended", "cancelled", "gone"}]
  BY DEF StartCancel, IInv, TypeOK
<1>2. Exists(q) /\ row[q].state \notin Terminal
  BY <1>1 DEF Exists, Active, Terminal
<1>3. CASE row[q].cancel
  <2> DEFINE l == [[Idle EXCEPT !.task = "cancel", !.on = q, !.copy = row[q]]
                       EXCEPT !.pc = "cancelling"]
  <2>1. l \in ThreadStates /\ l.pc = "cancelling" /\ l.on = q /\ l.copy = row[q]
    BY <1>0, IdleTyped DEF ThreadStates
  <2>2. Become(t, l)
    BY <1>3 DEF StartCancel
  <2>3. row[q].state \notin {"none", "admitted"}
    BY <1>3 DEF IInv, RowFits, Beyond
  <2> HIDE DEF l
  <2>4. Fits(l)
    BY <1>0, <1>2, <2>1, <2>3 DEF Fits, Copying
  <2> QED
    BY <1>1, <2>1, <2>2, <2>4, QuietStep DEF At
<1>4. CASE ~row[q].cancel
  <2> DEFINE l == [[Idle EXCEPT !.task = "cancel", !.on = q, !.copy = row[q]]
                       EXCEPT !.pc = "saving", !.then = "cancelling",
                              !.copy.state = "cancel_requested", !.copy.cancel = TRUE]
             c == [row[q] EXCEPT !.state = "cancel_requested", !.cancel = TRUE]
  <2>1. c \in Rows /\ c.state = "cancel_requested"
    BY <1>0 DEF Rows, Active
  <2>2. l = [Idle EXCEPT !.task = "cancel", !.on = q, !.pc = "saving", !.then = "cancelling",
                         !.copy = c]
    BY IdleTyped DEF ThreadStates, Idle
  <2>3. Become(t, l)
    BY <1>4 DEF StartCancel
  <2> HIDE DEF l, c
  <2>4. /\ l \in ThreadStates /\ l.pc = "saving" /\ l.then = "cancelling" /\ l.on = q
        /\ l.copy = c
    BY <2>1, <2>2, IdleTyped DEF ThreadStates
  <2>5. Fits(l)
    BY <1>0, <1>2, <2>1, <2>4 DEF Fits, Terminal
  <2> QED
    BY <1>1, <2>3, <2>4, <2>5, QuietStep DEF At
<1> QED
  BY <1>3, <1>4

(* Admission writes row, hold and slot of a request that did not exist.      *)
LEMMA AdmitPreserves ==
    ASSUME IInv, NEW t \in Threads, Admit(t)
    PROVE  IInv'
<1> DEFINE q == thread[t].on
<1>0. /\ TypeOK /\ RecordsTyped /\ thread \in [Threads -> ThreadStates]
      /\ q \in Requests /\ At(t, "admitting")
  <2>1. Fits(thread[t]) /\ At(t, "admitting")
    BY DEF IInv, Admit
  <2> QED
    BY <2>1, Typed DEF IInv, Fits, At, ThreadStates
<1>1. CASE row[q].state # "none" \/ slot # None \/ OverBudget
  <2>1. Goto(t, "idle") /\ UNCHANGED <<stores, rest, remote>>
    BY <1>1 DEF Admit, stores, rest
  <2>2. PICK l \in ThreadStates : Become(t, l) /\ l.pc = "idle"
    BY <1>0, <2>1, GotoIs
  <2>3. Fits(l)
    BY <2>2, NothingToFit
  <2>4. remote' \in [Requests -> {"none", "running", "complete", "ended", "cancelled", "gone"}]
    BY <1>0, <2>1 DEF RecordsTyped
  <2> QED
    BY <1>0, <2>1, <2>2, <2>3, <2>4, QuietStep DEF At
<1>2. CASE ~(row[q].state # "none" \/ slot # None \/ OverBudget)
  <2>0. PICK p \in Requests : p = q
    BY <1>0
  <2>1. /\ row' = [row EXCEPT ![p] = [NoRow EXCEPT !.state = "admitted"]]
        /\ slot' = p
        /\ hold' = [hold EXCEPT ![p] = "reserved"]
        /\ Goto(t, "claiming")
        /\ answers' = answers /\ remote' = remote /\ creations' = creations
        /\ overdue' = overdue /\ cancels' = cancels /\ faults' = faults
        /\ row[p].state = "none"
    BY <1>2, <2>0 DEF Admit, rest
  <2>2. PICK l \in ThreadStates : Become(t, l) /\ l.pc = "claiming"
    BY <1>0, <2>1, GotoIs
  <2>3. /\ row' \in [Requests -> Rows] /\ row'[p].state = "admitted" /\ ~row'[p].cancel
        /\ \A r \in Requests \ {p} : row'[r] = row[r] /\ hold'[r] = hold[r]
        /\ hold' \in [Requests -> {"none", "reserved", "reconciled", "unknown"}]
        /\ hold'[p] = "reserved"
    <3>1. [NoRow EXCEPT !.state = "admitted"] \in Rows
      BY IdleTyped DEF Rows, Active
    <3> QED
      BY <1>0, <2>1, <3>1 DEF RecordsTyped, NoRow
  <2>4. RecordsTyped'
    BY <1>0, <2>1, <2>3 DEF RecordsTyped
  <2>5. \A u \in Threads \ {t} : thread'[u] = thread[u]
    BY <1>0, <2>2, BecomeMoves
  <2>6. ASSUME NEW r \in Requests, Exists(r), Settling(r) PROVE Settling(r)'
    <3>1. hold'[r] = hold[r]
      BY <2>1, <2>3, <2>6 DEF Exists
    <3> QED
      BY <1>0, <2>1, <2>5, <2>6, <3>1, StaysSettling DEF At
  <2>7. Onward
    BY <2>1, <2>3, <2>6 DEF Onward, Exists, Beyond
  <2>8. ASSUME NEW r \in Requests PROVE RowFits(r)'
    <3>1. RowFits(r) /\ RowFits(p)
      BY DEF IInv
    <3>2. CASE r = p
      BY <2>1, <2>3, <3>1, <3>2 DEF RowFits, Beyond, Terminal
    <3>3. CASE r # p
      BY <2>1, <2>3, <2>6, <3>1, <3>3 DEF RowFits, Beyond, Exists, Terminal
    <3> QED
      BY <3>2, <3>3
  <2>9. Fits(l)'
    BY <2>2 DEF Fits, Copying
  <2>10. slot' # None => Exists(slot)'
    BY <2>1, <2>3 DEF Exists
  <2> QED
    BY <2>1, <2>2, <2>4, <2>7, <2>8, <2>9, <2>10, ThreadSteps
<1> QED
  BY <1>1, <1>2

(* The claim: the request in the slot leaves "admitted", and one thread      *)
(* submits it.                                                               *)
LEMMA ClaimNowPreserves ==
    ASSUME IInv, NEW t \in Threads, ClaimNow(t), ~At(t, "reconciling"),
           UNCHANGED <<slot, hold, answers, remote, rest>>
    PROVE  IInv'
<1>0. /\ TypeOK /\ RecordsTyped /\ thread \in [Threads -> ThreadStates]
      /\ slot \in Requests /\ row[slot].state = "admitted" /\ row[slot] \in Rows
  BY Typed DEF IInv, ClaimNow, Claimable, TypeOK
<1>1. PICK p \in Requests : p = slot
  BY <1>0
<1>2. /\ row' = [row EXCEPT ![p] = [row[p] EXCEPT !.state = "submitting"]]
      /\ slot' = p /\ hold' = hold /\ answers' = answers /\ remote' = remote
      /\ creations' = creations /\ overdue' = overdue /\ cancels' = cancels /\ faults' = faults
  BY <1>1 DEF ClaimNow, rest
<1>3. /\ row' \in [Requests -> Rows] /\ row'[p].state = "submitting" /\ row'[p] \in Rows
      /\ \A r \in Requests \ {p} : row'[r] = row[r]
  <2>1. [row[p] EXCEPT !.state = "submitting"] \in Rows
    BY <1>0, <1>1 DEF Rows, Active
  <2> QED
    BY <1>0, <1>1, <1>2, <2>1 DEF RecordsTyped, Rows
<1>4. PICK l \in ThreadStates : Become(t, l) /\ l.pc = "submitting" /\ l.on = p
                                /\ l.copy = row'[p]
  <2> DEFINE l == [Idle EXCEPT !.task = "read", !.pc = "submitting", !.on = p, !.copy = row'[p]]
  <2>1. Become(t, l)
    BY <1>1 DEF ClaimNow
  <2>2. l \in ThreadStates /\ l.pc = "submitting" /\ l.on = p /\ l.copy = row'[p]
    BY <1>3, IdleTyped DEF ThreadStates
  <2> HIDE DEF l
  <2> QED
    BY <2>1, <2>2, Zenon
<1>5. RecordsTyped'
  BY <1>0, <1>1, <1>2, <1>3 DEF RecordsTyped
<1>6. \A u \in Threads \ {t} : thread'[u] = thread[u]
  BY <1>0, <1>4, BecomeMoves
<1>7. \A r \in Requests : Settling(r) => Settling(r)'
  BY <1>2, <1>6, StaysSettling
<1>8. Onward
  BY <1>2, <1>3, <1>7 DEF Onward, Exists, Beyond
<1>9. ASSUME NEW r \in Requests PROVE RowFits(r)'
  <2>1. RowFits(r)
    BY DEF IInv
  <2>2. CASE r = p
    BY <1>2, <1>3, <2>1, <2>2 DEF RowFits, Beyond, Terminal
  <2>3. CASE r # p
    BY <1>2, <1>3, <1>7, <2>1, <2>3 DEF RowFits, Beyond
  <2> QED
    BY <2>2, <2>3
<1>10. creations[p] = 0 /\ ~Beyond(p) /\ p # None
  BY <1>0, <1>1, ResearchAssumption DEF IInv, RowFits, Beyond
<1>11. Fits(l)'
  BY <1>2, <1>3, <1>4, <1>10 DEF Fits, Beyond, Exists
<1>12. \A u \in Threads \ {t} : At(u, "submitting") => thread[u].on # p
  BY <1>10 DEF IInv, Fits, At
<1>13. slot' # None => Exists(slot)'
  BY <1>2, <1>3 DEF Exists
<1> QED
  BY <1>2, <1>4, <1>5, <1>8, <1>9, <1>11, <1>12, <1>13, ThreadSteps

(* What a thread that works on a request has.                                *)
LEMMA Worked ==
    ASSUME IInv, NEW t \in Threads
    PROVE  /\ TypeOK /\ RecordsTyped /\ thread \in [Threads -> ThreadStates]
           /\ thread[t] \in ThreadStates /\ thread[t].copy \in Rows /\ Fits(thread[t])
           /\ thread[t].pc \in Copying \cup {"loading"} =>
                 /\ thread[t].on \in Requests /\ Exists(thread[t].on)
                 /\ row[thread[t].on] \in Rows
           /\ remote \in [Requests -> {"none", "running", "complete", "ended", "cancelled",
                                       "gone"}]
<1>1. TypeOK /\ RecordsTyped /\ thread \in [Threads -> ThreadStates] /\ Fits(thread[t])
  BY Typed DEF IInv
<1>2. /\ thread[t] \in ThreadStates /\ thread[t].copy \in Rows
      /\ thread[t].on \in Requests \cup {None}
  BY <1>1 DEF ThreadStates
<1> QED
  BY <1>1, <1>2 DEF Fits, RecordsTyped

LEMMA RemoteCancelTyped ==
    ASSUME RecordsTyped, NEW q \in Requests, RemoteCancel(q)
    PROVE  remote' \in [Requests -> {"none", "running", "complete", "ended", "cancelled",
                                     "gone"}]
BY DEF RecordsTyped, RemoteCancel

LEMMA ClaimPreserves ==
    ASSUME IInv, NEW t \in Threads, Claim(t)
    PROVE  IInv'
<1>0. /\ TypeOK /\ At(t, "claiming") /\ UNCHANGED <<slot, hold, answers, remote, rest>>
      /\ remote \in [Requests -> {"none", "running", "complete", "ended", "cancelled", "gone"}]
  BY Worked DEF Claim
<1>1. CASE ClaimNow(t)
  BY <1>0, <1>1, ClaimNowPreserves DEF At
<1>2. CASE NothingToClaim /\ Goto(t, "listing")
  <2>1. PICK l \in ThreadStates : Become(t, l) /\ l.pc = "listing"
    BY <1>0, <1>2, GotoIs
  <2>2. UNCHANGED <<stores, rest>>
    BY <1>0, <1>2 DEF NothingToClaim, stores
  <2>3. Fits(l)
    BY <2>1, NothingToFit
  <2> QED
    BY <1>0, <2>1, <2>2, <2>3, QuietStep DEF At
<1> QED
  BY <1>1, <1>2 DEF Claim

LEMMA ReadPreserves ==
    ASSUME IInv, NEW t \in Threads, Read(t)
    PROVE  IInv'
<1>0. /\ TypeOK /\ At(t, "idle") /\ UNCHANGED <<slot, hold, answers, remote, rest>>
      /\ remote \in [Requests -> {"none", "running", "complete", "ended", "cancelled", "gone"}]
  BY Worked DEF Read
<1>1. CASE ClaimNow(t)
  BY <1>0, <1>1, ClaimNowPreserves DEF At
<1>2. CASE NothingToClaim /\ ~ClaimNow(t)
  <2>1. PICK p \in Requests \cup {None} : p = slot
    BY <1>0 DEF TypeOK
  <2>2. PICK pc \in {"listing", "loading"} : pc = IF slot = None THEN "listing" ELSE "loading"
    OBVIOUS
  <2>3. PICK l \in ThreadStates : Become(t, l) /\ l.pc = pc /\ l.on = p
    <3> DEFINE l == [Idle EXCEPT !.task = "read", !.on = p, !.pc = pc]
    <3>1. Become(t, l)
      BY <1>2, <2>1, <2>2 DEF Read
    <3>2. l \in ThreadStates /\ l.pc = pc /\ l.on = p
      BY IdleTyped DEF ThreadStates
    <3> HIDE DEF l
    <3> QED
      BY <3>1, <3>2, Zenon
  <2>4. UNCHANGED <<stores, rest>>
    BY <1>0, <1>2 DEF NothingToClaim, stores
  <2>5. Fits(l)
    BY <2>1, <2>2, <2>3 DEF IInv, Fits, Copying
  <2> QED
    BY <1>0, <2>2, <2>3, <2>4, <2>5, QuietStep DEF At
<1> QED
  BY <1>1, <1>2 DEF Read

(* The one step that asks the provider to create a response: nobody else is  *)
(* at it for this request, and nobody will be again.                         *)
LEMMA SubmitPreserves ==
    ASSUME IInv, NEW t \in Threads, Submit(t)
    PROVE  IInv'
<1>0. /\ TypeOK /\ RecordsTyped /\ thread[t].on \in Requests /\ At(t, "submitting")
      /\ Beyond(thread[t].on) /\ creations[thread[t].on] = 0 /\ Exists(thread[t].on)
      /\ UNCHANGED <<stores, overdue, cancels, faults>>
  BY Worked DEF Submit, Fits, At, Copying
<1>1. PICK q \in Requests : q = thread[t].on
  BY <1>0
<1>2. PICK c \in Rows : c = thread[t].copy
  BY Worked
<1>3. PICK n \in Rows, then \in {"listing", "reconciling"} :
         /\ WillSave(t, n, then)
         /\ n.state \notin {"none", "admitted"}
         /\ then = "reconciling" => n.state \in Terminal
         /\ then = "listing" => n.state \notin Terminal
  <2>1. CASE WillSave(t, [c EXCEPT !.state = "running", !.handle = TRUE], "listing")
    <3> DEFINE n == [c EXCEPT !.state = "running", !.handle = TRUE]
    <3>1. n \in Rows /\ n.state = "running"
      BY DEF Rows, Active
    <3>2. n.state \notin {"none", "admitted"} /\ n.state \notin Terminal
      BY <3>1 DEF Terminal
    <3>3. WillSave(t, n, "listing")
      BY <2>1
    <3> HIDE DEF n
    <3> QED
      BY <3>1, <3>2, <3>3
  <2>2. ASSUME NEW state \in {"failed", "submission_unknown"}, WillFinish(t, c, state)
        PROVE  \E m \in Rows : /\ WillSave(t, m, "reconciling")
                               /\ m.state \notin {"none", "admitted"} /\ m.state \in Terminal
    <3> DEFINE m == Finished(c, state)
    <3>1. m \in Rows /\ m.state = state
      BY DEF Finished, Rows, Terminal
    <3>2. WillSave(t, m, "reconciling")
      BY <2>2 DEF WillFinish
    <3> HIDE DEF m
    <3> QED
      BY <3>1, <3>2 DEF Terminal
  <2>3. WillSave(t, [c EXCEPT !.state = "running", !.handle = TRUE], "listing")
            \/ \E state \in {"failed", "submission_unknown"} : WillFinish(t, c, state)
    BY <1>2 DEF Submit
  <2>4. CASE \E state \in {"failed", "submission_unknown"} : WillFinish(t, c, state)
    <3>1. PICK m \in Rows : /\ WillSave(t, m, "reconciling")
                            /\ m.state \notin {"none", "admitted"} /\ m.state \in Terminal
      BY <2>2, <2>4
    <3> QED
      BY <3>1
  <2> QED
    BY <2>1, <2>3, <2>4
<1>4. PICK l \in ThreadStates :
         /\ Become(t, l)
         /\ l.pc = "saving" /\ l.on = q /\ l.copy = n /\ l.then = then
  BY <1>0, <1>1, <1>3, WillSaveIs DEF Thens
<1>5. /\ row' = row /\ slot' = slot /\ hold' = hold /\ answers' = answers
      /\ overdue' = overdue /\ cancels' = cancels /\ faults' = faults
  BY <1>0 DEF stores
<1>6. /\ creations' \in [Requests -> Nat] /\ creations'[q] \in {0, 1}
      /\ \A r \in Requests \ {q} : creations'[r] = creations[r]
      /\ remote' \in [Requests -> {"none", "running", "complete", "ended", "cancelled", "gone"}]
  BY <1>0, <1>1 DEF Submit, RecordsTyped
<1>7. RecordsTyped'
  BY <1>0, <1>5, <1>6 DEF RecordsTyped
<1>8. \A u \in Threads \ {t} : thread'[u] = thread[u]
  BY <1>0, <1>4, BecomeMoves
<1>9. \A r \in Requests : Settling(r) => Settling(r)'
  BY <1>0, <1>5, <1>8, StaysSettling DEF At
<1>10. Onward
  BY <1>5, <1>9 DEF Onward, Exists, Beyond
<1>11. ASSUME NEW r \in Requests PROVE RowFits(r)'
  <2>1. RowFits(r)
    BY DEF IInv
  <2> QED
    BY <1>0, <1>1, <1>5, <1>6, <1>9, <2>1 DEF RowFits, Beyond
<1>12. Fits(l)'
  BY <1>0, <1>1, <1>3, <1>4, <1>5, <1>10, ResearchAssumption DEF Fits, Exists
<1>13. ASSUME NEW u \in Threads \ {t}, At(u, "submitting")
       PROVE  creations'[thread[u].on] = creations[thread[u].on]
  <2>1. thread[u].on \in Requests /\ thread[u].on # q
    BY <1>0, <1>1, <1>13, Worked DEF IInv, OneSubmitter, At, Copying
  <2> QED
    BY <1>6, <2>1
<1>14. slot' # None => Exists(slot)'
  BY <1>5 DEF IInv, Exists
<1> QED
  BY <1>4, <1>7, <1>10, <1>11, <1>12, <1>13, <1>14, ThreadSteps

LEMMA LoadPreserves ==
    ASSUME IInv, NEW t \in Threads, Load(t)
    PROVE  IInv'
<1>0. /\ TypeOK /\ At(t, "loading") /\ UNCHANGED <<stores, remote, rest>>
      /\ thread[t] \in ThreadStates /\ thread[t].on \in Requests /\ Exists(thread[t].on)
      /\ remote \in [Requests -> {"none", "running", "complete", "ended", "cancelled", "gone"}]
  BY Worked DEF Load, At
<1>1. PICK q \in Requests : q = thread[t].on
  BY <1>0
<1>2. PICK c \in Rows : c = row[q]
  BY <1>0 DEF TypeOK
<1>3. PICK pc \in {"listing", "completing", "polling"} :
         /\ Become(t, [thread[t] EXCEPT !.copy = c, !.pc = pc])
         /\ pc # "listing" => c.state \notin {"admitted", "submitting"}
  <2>1. CASE c.state \in {"admitted", "submitting"}
    BY <1>1, <1>2, <2>1 DEF Load
  <2>2. CASE c.state = "validating"
    BY <1>1, <1>2, <2>2 DEF Load
  <2>3. CASE c.state \notin {"admitted", "submitting", "validating"} /\ c.handle
    BY <1>1, <1>2, <2>3 DEF Load
  <2>4. CASE c.state \notin {"admitted", "submitting", "validating"} /\ ~c.handle
    BY <1>1, <1>2, <2>4 DEF Load
  <2> QED
    BY <2>1, <2>2, <2>3, <2>4
<1>4. PICK l \in ThreadStates : Become(t, l) /\ l.pc = pc /\ l.copy = c /\ l.on = q
  <2> DEFINE l == [thread[t] EXCEPT !.copy = c, !.pc = pc]
  <2>1. l \in ThreadStates /\ l.pc = pc /\ l.copy = c /\ l.on = q
    BY <1>0, <1>1 DEF ThreadStates
  <2>2. Become(t, l)
    BY <1>3
  <2> HIDE DEF l
  <2> QED
    BY <2>1, <2>2, Zenon
<1>5. c.state # "none" /\ (c.state \in Terminal => Settling(q)) /\ q # None
  BY <1>0, <1>1, <1>2, ResearchAssumption DEF Exists, IInv, RowFits
<1>6. Fits(l)
  <2>1. /\ l.pc \in {"listing", "completing", "polling"}
        /\ l.on # None /\ Exists(l.on)
        /\ l.pc # "listing" => l.copy.state \notin {"none", "admitted"}
        /\ l.copy.state \in Terminal => Settling(l.on)
    BY <1>0, <1>1, <1>3, <1>4, <1>5
  <2> QED
    BY <2>1 DEF Fits, Copying
<1> QED
  BY <1>0, <1>3, <1>4, <1>6, QuietStep DEF At

LEMMA PollPreserves ==
    ASSUME IInv, NEW t \in Threads, Poll(t)
    PROVE  IInv'
<1>0. /\ TypeOK /\ RecordsTyped /\ At(t, "polling") /\ UNCHANGED <<stores, rest>>
      /\ thread[t].on \in Requests
      /\ thread[t].pc \in Copying \ {"reconciling"}
      /\ remote \in [Requests -> {"none", "running", "complete", "ended", "cancelled", "gone"}]
  BY Worked DEF Poll, At, Copying
<1>1. PICK c \in Rows : c = thread[t].copy
  BY Worked
<1>2. c.state \notin {"none", "admitted"} /\ (c.state \in Terminal => Settling(thread[t].on))
  BY <1>0, <1>1, Worked DEF Fits, At
<1>3. remote' \in [Requests -> {"none", "running", "complete", "ended", "cancelled", "gone"}]
  BY <1>0, RemoteCancelTyped DEF Poll
<1>4. \/ \E state \in Terminal : WillFinish(t, c, state)
      \/ WillSave(t, c, "listing")
      \/ WillSave(t, [c EXCEPT !.state = "validating"], "completing")
      \/ Goto(t, "listing")
  BY <1>1 DEF Poll, Accept, Terminal
<1>5. CASE \E state \in Terminal : WillFinish(t, c, state)
  BY <1>0, <1>3, <1>5, QuietFinish
<1>6. CASE WillSave(t, c, "listing")
  <2>1. PICK then \in {"listing", "completing", "reconciling"} : then = "listing"
    OBVIOUS
  <2>2. then # "reconciling" /\ WillSave(t, c, then)
    BY <1>6, <2>1
  <2> QED
    BY <1>0, <1>2, <1>3, <2>2, QuietSave
<1>7. CASE WillSave(t, [c EXCEPT !.state = "validating"], "completing")
  <2> DEFINE n == [c EXCEPT !.state = "validating"]
  <2>1. n \in Rows /\ n.state = "validating"
    BY DEF Rows, Active
  <2>2. n.state \notin Terminal \cup {"none", "admitted"}
    BY <2>1 DEF Terminal
  <2>3. PICK then \in {"listing", "completing", "reconciling"} : then = "completing"
    OBVIOUS
  <2>4. then # "reconciling" /\ WillSave(t, n, then)
    BY <1>7, <2>3
  <2> HIDE DEF n
  <2> QED
    BY <1>0, <1>3, <2>1, <2>2, <2>4, QuietSave
<1>8. CASE Goto(t, "listing")
  <2>1. PICK l \in ThreadStates : Become(t, l) /\ l.pc = "listing"
    BY <1>0, <1>8, GotoIs
  <2>2. Fits(l)
    BY <2>1, NothingToFit
  <2> QED
    BY <1>0, <1>3, <2>1, <2>2, QuietStep DEF At
<1> QED
  BY <1>4, <1>5, <1>6, <1>7, <1>8

(* Document, record and binding are written, or the copy is kept for later.  *)
LEMMA CompleteAnswerPreserves ==
    ASSUME IInv, NEW t \in Threads, CompleteAnswer(t)
    PROVE  IInv'
<1>0. /\ TypeOK /\ RecordsTyped /\ At(t, "completing")
      /\ UNCHANGED <<slot, hold, remote, rest>>
      /\ thread[t].on \in Requests /\ Exists(thread[t].on) /\ row[thread[t].on] \in Rows
      /\ thread[t].pc \in Copying \ {"reconciling"}
      /\ remote \in [Requests -> {"none", "running", "complete", "ended", "cancelled", "gone"}]
  BY Worked DEF CompleteAnswer, At, Copying
<1>1. PICK c \in Rows : c = thread[t].copy
  BY Worked
<1>2. c.state \notin {"none", "admitted"} /\ (c.state \in Terminal => Settling(thread[t].on))
  BY <1>0, <1>1, Worked DEF Fits, At
<1>3. PICK q \in Requests : q = thread[t].on
  BY <1>0
<1>4. ASSUME Goto(t, "reloading")
      PROVE  \E l \in ThreadStates :
                /\ Become(t, l) /\ l.pc = "reloading" /\ l.on = q /\ l.copy = c
  BY <1>0, <1>1, <1>3, <1>4, GotoIs
<1>5. CASE row[q].bound /\ Goto(t, "reloading") /\ UNCHANGED <<row, answers>>
  <2>1. PICK l \in ThreadStates :
           Become(t, l) /\ l.pc = "reloading" /\ l.on = q /\ l.copy = c
    BY <1>4, <1>5
  <2>2. Fits(l)
    BY <1>0, <1>2, <1>3, <2>1, ResearchAssumption DEF Fits, Copying
  <2> QED
    BY <1>0, <1>5, <2>1, <2>2, QuietStep DEF At, stores
<1>6. CASE ~row[q].bound /\ Goto(t, "reloading") /\ answers' = answers \cup {q}
           /\ row' = [row EXCEPT ![q].bound = TRUE]
  <2>1. PICK l \in ThreadStates :
           Become(t, l) /\ l.pc = "reloading" /\ l.on = q /\ l.copy = c
    BY <1>4, <1>6
  <2>2. /\ row' \in [Requests -> Rows]
        /\ row'[q].state = row[q].state /\ row'[q].cancel = row[q].cancel
        /\ \A r \in Requests \ {q} : row'[r] = row[r]
    <3>1. /\ [row[q] EXCEPT !.bound = TRUE] \in Rows
          /\ [row[q] EXCEPT !.bound = TRUE].state = row[q].state
          /\ [row[q] EXCEPT !.bound = TRUE].cancel = row[q].cancel
      BY <1>0, <1>3 DEF Rows
    <3>2. row' = [row EXCEPT ![q] = [row[q] EXCEPT !.bound = TRUE]]
      BY <1>6
    <3> QED
      BY <1>0, <3>1, <3>2 DEF RecordsTyped
  <2>3. \A r \in Requests : row'[r].state = row[r].state /\ row'[r].cancel = row[r].cancel
    BY <2>2
  <2>4. /\ slot' = slot /\ hold' = hold /\ remote' = remote /\ creations' = creations
        /\ overdue' = overdue /\ cancels' = cancels /\ faults' = faults
    BY <1>0 DEF rest
  <2>5. RecordsTyped'
    BY <1>0, <1>3, <1>6, <2>2, <2>3, <2>4 DEF RecordsTyped
  <2>6. \A u \in Threads \ {t} : thread'[u] = thread[u]
    BY <1>0, <2>1, BecomeMoves
  <2>7. \A r \in Requests : Settling(r) => Settling(r)'
    BY <1>0, <2>4, <2>6, StaysSettling DEF At
  <2>8. Onward
    BY <2>3, <2>7 DEF Onward, Exists, Beyond
  <2>9. \A r \in Requests : RowFits(r)'
    BY <2>3, <2>4, <2>7 DEF IInv, RowFits, Beyond
  <2>10. Fits(l)
    BY <1>0, <1>2, <1>3, <2>1, ResearchAssumption DEF Fits, Copying
  <2>11. Fits(l)'
    BY <2>1, <2>8, <2>10, FitsOnward
  <2>12. slot' # None => Exists(slot)'
    BY <1>0, <2>3, <2>4 DEF IInv, Exists, RecordsTyped
  <2> QED
    BY <2>1, <2>4, <2>5, <2>8, <2>9, <2>11, <2>12, ThreadSteps
<1>7. CASE WillSave(t, c, "listing") /\ UNCHANGED <<row, answers>>
  <2>1. PICK then \in {"listing", "completing", "reconciling"} : then = "listing"
    OBVIOUS
  <2>2. then # "reconciling" /\ WillSave(t, c, then) /\ UNCHANGED <<stores, rest>>
    BY <1>0, <1>7, <2>1 DEF stores
  <2> QED
    BY <1>0, <1>2, <2>2, QuietSave
<1> QED
  BY <1>1, <1>3, <1>5, <1>6, <1>7 DEF CompleteAnswer

LEMMA ReloadPreserves ==
    ASSUME IInv, NEW t \in Threads, Reload(t)
    PROVE  IInv'
<1>0. /\ At(t, "reloading") /\ UNCHANGED <<stores, remote, rest>>
      /\ thread[t].pc \in Copying \ {"reconciling"}
      /\ row[thread[t].on] \in Rows
      /\ remote \in [Requests -> {"none", "running", "complete", "ended", "cancelled", "gone"}]
  BY Worked DEF Reload, At, Copying
<1>1. PICK c \in Rows, state \in Terminal : WillFinish(t, c, state)
  BY <1>0 DEF Reload, Terminal
<1> QED
  BY <1>0, <1>1, QuietFinish

LEMMA CancelRemotePreserves ==
    ASSUME IInv, NEW t \in Threads, CancelRemote(t)
    PROVE  IInv'
<1>0. /\ TypeOK /\ RecordsTyped /\ At(t, "cancelling") /\ UNCHANGED <<stores, rest>>
      /\ thread[t].pc \in Copying \ {"reconciling"} /\ thread[t].on \in Requests
      /\ remote \in [Requests -> {"none", "running", "complete", "ended", "cancelled", "gone"}]
  BY Worked DEF CancelRemote, At, Copying
<1>1. PICK c \in Rows : c = thread[t].copy
  BY Worked
<1>2. remote' \in [Requests -> {"none", "running", "complete", "ended", "cancelled", "gone"}]
  BY <1>0, RemoteCancelTyped DEF CancelRemote
<1>3. Goto(t, "idle") \/ \E state \in Terminal : WillFinish(t, c, state)
  BY <1>1 DEF CancelRemote, Terminal
<1>4. CASE Goto(t, "idle")
  <2>1. PICK l \in ThreadStates : Become(t, l) /\ l.pc = "idle"
    BY <1>0, <1>4, GotoIs
  <2>2. Fits(l)
    BY <2>1, NothingToFit
  <2> QED
    BY <1>0, <1>2, <2>1, <2>2, QuietStep DEF At
<1>5. CASE \E state \in Terminal : WillFinish(t, c, state)
  BY <1>0, <1>2, <1>5, QuietFinish
<1> QED
  BY <1>3, <1>4, <1>5

(* A stale copy is written back: never one that can be claimed, and never a  *)
(* terminal one that nobody accounts for.                                    *)
LEMMA SavePreserves ==
    ASSUME IInv, NEW t \in Threads, Save(t)
    PROVE  IInv'
<1>0. /\ TypeOK /\ RecordsTyped /\ At(t, "saving") /\ Fits(thread[t])
      /\ thread[t] \in ThreadStates
      /\ thread[t].on \in Requests /\ Exists(thread[t].on)
  BY Worked DEF Save, At, Copying
<1>1. PICK k \in ThreadStates : k = thread[t]
  BY <1>0
<1>2. PICK q \in Requests : q = k.on
  BY <1>0, <1>1
<1>3. /\ k.pc = "saving" /\ k.copy \in Rows /\ k.then \in Thens
      /\ k.copy.state \notin {"none", "admitted"} /\ Exists(q) /\ q # None
      /\ k.then = "reconciling" => k.copy.state \in Terminal
      /\ k.then # "reconciling" /\ k.copy.state \in Terminal => Settling(q)
      /\ k.then = "deleting" => \A e \in k.page :
            Exists(e.on) /\ e.copy.state \in Terminal /\ Settling(e.on)
  BY <1>0, <1>1, <1>2 DEF Fits, Copying, At, ThreadStates, Thens
<1>4. /\ row' = [row EXCEPT ![q] = k.copy]
      /\ slot' = (IF Frees(k.copy) /\ slot = q THEN None ELSE slot)
      /\ cancels' = cancels \/ cancels' = cancels \cup {q}
      /\ Become(t, [k EXCEPT !.pc = k.then, !.then = "idle"])
      /\ hold' = hold /\ answers' = answers /\ remote' = remote /\ creations' = creations
      /\ overdue' = overdue /\ faults' = faults
  BY <1>1, <1>2 DEF Save
<1>5. PICK l \in ThreadStates :
         /\ Become(t, l) /\ l.pc = k.then /\ l.on = q /\ l.copy = k.copy /\ l.page = k.page
  <2> DEFINE l == [k EXCEPT !.pc = k.then, !.then = "idle"]
  <2>1. /\ l \in ThreadStates /\ l.pc = k.then /\ l.on = q /\ l.copy = k.copy
        /\ l.page = k.page
    BY <1>2 DEF ThreadStates
  <2>2. Become(t, l)
    BY <1>4
  <2> HIDE DEF l
  <2> QED
    BY <2>1, <2>2, Zenon
<1>6. /\ row' \in [Requests -> Rows] /\ row'[q] = k.copy
      /\ \A r \in Requests \ {q} : row'[r] = row[r]
  BY <1>0, <1>3, <1>4 DEF RecordsTyped
<1>7. hold[q] # "none"
  BY <1>0, <1>3 DEF RecordsTyped, Exists
<1>8. RecordsTyped'
  BY <1>0, <1>3, <1>4, <1>6, <1>7 DEF RecordsTyped
<1>9. /\ thread' \in [Threads -> ThreadStates]
      /\ \A u \in Threads \ {t} : thread'[u] = thread[u]
      /\ l.pc = "reconciling" => thread'[t] = l
  BY <1>0, <1>5, BecomeMoves
<1>10. \A r \in Requests : Settling(r) => Settling(r)'
  BY <1>0, <1>4, <1>9, StaysSettling DEF At
<1>11. Onward
  BY <1>3, <1>6, <1>10 DEF Onward, Exists, Beyond
<1>12. k.copy.state \in Terminal => Settling(q)'
  <2>1. CASE k.then = "reconciling"
    BY <1>5, <1>9, <2>1 DEF Settling, At
  <2>2. CASE k.then # "reconciling"
    BY <1>3, <1>10, <2>2
  <2> QED
    BY <2>1, <2>2
<1>13. ASSUME NEW r \in Requests PROVE RowFits(r)'
  <2>1. RowFits(r)
    BY DEF IInv
  <2>2. CASE r = q
    BY <1>3, <1>4, <1>6, <1>12, <2>1, <2>2 DEF RowFits, Beyond
  <2>3. CASE r # q
    BY <1>4, <1>6, <1>10, <2>1, <2>3 DEF RowFits, Beyond
  <2> QED
    BY <2>2, <2>3
<1>14. Fits(l)'
  <2>1. /\ l.pc \in Thens /\ l.on # None /\ Exists(l.on)'
        /\ l.copy.state \notin {"none", "admitted"}
        /\ l.pc = "reconciling" => l.copy.state \in Terminal
        /\ l.copy.state \in Terminal => Settling(l.on)'
    BY <1>3, <1>5, <1>11, <1>12 DEF Onward
  <2>2. l.pc = "deleting" => \A e \in l.page :
            Exists(e.on)' /\ e.copy.state \in Terminal /\ Settling(e.on)'
    <3>1. \A e \in l.page : e.on \in Requests
      BY DEF ThreadStates
    <3> QED
      BY <1>3, <1>5, <1>11, <3>1 DEF Onward
  <2> QED
    BY <2>1, <2>2 DEF Fits, Thens
<1>15. slot' # None => Exists(slot)'
  <2>1. slot # None => slot \in Requests /\ Exists(slot)
    BY <1>0 DEF RecordsTyped, IInv
  <2>2. slot' # None => slot' = slot
    BY <1>4
  <2> QED
    BY <1>11, <2>1, <2>2 DEF Onward, Exists
<1>16. l.pc # "submitting"
  BY <1>3, <1>5 DEF Thens
<1> QED
  BY <1>4, <1>5, <1>8, <1>11, <1>13, <1>14, <1>15, <1>16, ThreadSteps

(* Whatever its copy says, a request whose hold was reserved is accounted.   *)
LEMMA ReconcilePreserves ==
    ASSUME IInv, NEW t \in Threads, Reconcile(t)
    PROVE  IInv'
<1>0. /\ TypeOK /\ RecordsTyped /\ At(t, "reconciling") /\ Fits(thread[t])
      /\ thread[t].on \in Requests /\ Exists(thread[t].on)
  BY Worked DEF Reconcile, At, Copying
<1>1. PICK q \in Requests : q = thread[t].on
  BY <1>0
<1>2. PICK c \in Rows : c = thread[t].copy
  BY Worked
<1>3. c.state \in Terminal /\ Exists(q) /\ q # None /\ hold[q] # "none"
  BY <1>0, <1>1, <1>2, ResearchAssumption DEF Fits, At, RecordsTyped, Exists
<1>4. /\ hold' = [hold EXCEPT ![q] =
             IF hold[q] # "reserved" THEN hold[q]
             ELSE IF c.state = "saved" /\ q \in Priced THEN "reconciled" ELSE "unknown"]
      /\ row' = row /\ slot' = slot /\ answers' = answers /\ remote' = remote
      /\ creations' = creations /\ overdue' = overdue /\ cancels' = cancels /\ faults' = faults
  BY <1>1, <1>2 DEF Reconcile, rest
<1>5. /\ hold' \in [Requests -> {"none", "reserved", "reconciled", "unknown"}]
      /\ hold'[q] \notin {"none", "reserved"}
      /\ \A r \in Requests \ {q} : hold'[r] = hold[r]
  BY <1>0, <1>3, <1>4 DEF RecordsTyped
<1>6. RecordsTyped'
  BY <1>0, <1>3, <1>4, <1>5 DEF RecordsTyped, Exists
<1>7. PICK l \in ThreadStates :
         /\ Become(t, l)
         /\ \/ l.pc \in {"idle", "listing"}
            \/ l.pc = "saving" /\ l.on = q /\ l.copy = c /\ l.then = "idle"
  <2>1. \/ Goto(t, "idle") \/ Goto(t, "listing") \/ WillSave(t, c, "idle")
    BY <1>2 DEF Reconcile
  <2>2. CASE Goto(t, "idle")
    BY <1>0, <2>2, GotoIs
  <2>3. CASE Goto(t, "listing")
    BY <1>0, <2>3, GotoIs
  <2>4. CASE WillSave(t, c, "idle")
    <3>1. PICK then \in Thens : then = "idle"
      BY DEF Thens
    <3>2. WillSave(t, c, then)
      BY <2>4, <3>1
    <3> QED
      BY <1>0, <1>1, <3>1, <3>2, WillSaveIs
  <2> QED
    BY <2>1, <2>2, <2>3, <2>4
<1>8. \A u \in Threads \ {t} : thread'[u] = thread[u]
  BY <1>0, <1>7, BecomeMoves
<1>9. ASSUME NEW r \in Requests, Settling(r) PROVE Settling(r)'
  <2>1. CASE r = q
    BY <1>5, <2>1 DEF Settling
  <2>2. CASE r # q
    BY <1>1, <1>4, <1>5, <1>8, <1>9, <2>2 DEF Settling, At
  <2> QED
    BY <2>1, <2>2
<1>10. Settling(q)'
  BY <1>5 DEF Settling
<1>11. Onward
  BY <1>4, <1>9 DEF Onward, Exists, Beyond
<1>12. \A r \in Requests : RowFits(r)'
  BY <1>4, <1>9 DEF IInv, RowFits, Beyond
<1>13. Fits(l)'
  <2>1. CASE l.pc \in {"idle", "listing"}
    BY <2>1 DEF Fits, Copying
  <2>2. CASE l.pc = "saving" /\ l.on = q /\ l.copy = c /\ l.then = "idle"
    <3>1. Exists(q)'
      BY <1>3, <1>11 DEF Onward
    <3> QED
      BY <1>3, <1>10, <2>2, <3>1 DEF Fits, Terminal
  <2> QED
    BY <1>7, <2>1, <2>2
<1>14. slot' # None => Exists(slot)'
  BY <1>4 DEF IInv, Exists
<1>15. l.pc # "submitting"
  BY <1>7
<1> QED
  BY <1>4, <1>6, <1>7, <1>11, <1>12, <1>13, <1>14, <1>15, ThreadSteps

(* The page holds terminal rows, whose requests are settling.                *)
LEMMA ListPreserves ==
    ASSUME IInv, NEW t \in Threads, List(t)
    PROVE  IInv'
<1>0. /\ TypeOK /\ RecordsTyped /\ At(t, "listing") /\ UNCHANGED <<stores, remote, rest>>
      /\ thread[t] \in ThreadStates
      /\ remote \in [Requests -> {"none", "running", "complete", "ended", "cancelled", "gone"}]
  BY Worked DEF List
<1>1. PICK pc \in {"idle", "deleting"} :
         pc = IF CleanupPending = {} THEN "idle" ELSE "deleting"
  OBVIOUS
<1> DEFINE listed == {[on |-> q, copy |-> row[q]] : q \in CleanupPending}
           l == [thread[t] EXCEPT !.pc = pc, !.page = listed]
<1>2. \A e \in listed : e \in [on : Requests, copy : Rows] /\ e.on \in CleanupPending
                         /\ e.copy = row[e.on]
  BY <1>0 DEF RecordsTyped, CleanupPending
<1>3. Become(t, l)
  BY <1>1 DEF List
<1> HIDE DEF listed
<1>4. l \in ThreadStates /\ l.pc = pc /\ l.page = listed
  BY <1>0, <1>2, ZenonT(60) DEF ThreadStates
<1> HIDE DEF l
<1>5. \A e \in listed : Exists(e.on) /\ e.copy.state \in Terminal /\ Settling(e.on)
  BY <1>2 DEF IInv, RowFits, CleanupPending, Exists, Terminal
<1>6. Fits(l)
  BY <1>4, <1>5 DEF Fits, Copying
<1> QED
  BY <1>0, <1>3, <1>4, <1>6, QuietStep DEF At

LEMMA DeletePreserves ==
    ASSUME IInv, NEW t \in Threads, Delete(t)
    PROVE  IInv'
<1>0. /\ TypeOK /\ RecordsTyped /\ At(t, "deleting") /\ UNCHANGED <<stores, rest>>
      /\ thread[t] \in ThreadStates /\ Fits(thread[t])
      /\ remote \in [Requests -> {"none", "running", "complete", "ended", "cancelled", "gone"}]
  BY Worked DEF Delete
<1>1. PICK k \in ThreadStates : k = thread[t]
  BY <1>0
<1>2. PICK e \in k.page, outcome \in {"deleted", "failed"} :
         /\ Become(t, [k EXCEPT
                !.pc = "saving", !.then = IF k.page \ {e} = {} THEN "idle" ELSE "deleting",
                !.on = e.on, !.copy = [e.copy EXCEPT !.cleanup = outcome],
                !.page = k.page \ {e}])
         /\ remote' = [remote EXCEPT ![e.on] = "gone"] \/ remote' = remote
  BY <1>1, ZenonT(60) DEF Delete
<1>3. /\ e \in [on : Requests, copy : Rows]
      /\ k.page \ {e} \subseteq [on : Requests, copy : Rows]
  BY DEF ThreadStates
<1>4. /\ \A d \in k.page : Exists(d.on) /\ d.copy.state \in Terminal /\ Settling(d.on)
      /\ e.on # None
  BY <1>0, <1>1, <1>3, ResearchAssumption DEF Fits, At
<1>5. PICK c \in Rows : c = [e.copy EXCEPT !.cleanup = outcome] /\ c.state = e.copy.state
  <2>1. /\ [e.copy EXCEPT !.cleanup = outcome] \in Rows
        /\ [e.copy EXCEPT !.cleanup = outcome].state = e.copy.state
    BY <1>3 DEF Rows
  <2> QED
    BY <2>1
<1>6. PICK then \in {"idle", "deleting"} :
         then = IF k.page \ {e} = {} THEN "idle" ELSE "deleting"
  OBVIOUS
<1> DEFINE l == [k EXCEPT !.pc = "saving", !.then = then, !.on = e.on, !.copy = c,
                          !.page = k.page \ {e}]
<1>7. Become(t, l)
  BY <1>2, <1>5, <1>6
<1>8. /\ l \in ThreadStates /\ l.pc = "saving" /\ l.then = then /\ l.on = e.on
      /\ l.copy = c /\ l.page = k.page \ {e}
  BY <1>3 DEF ThreadStates
<1> HIDE DEF l
<1>9. Fits(l)
  BY <1>4, <1>5, <1>8 DEF Fits, Terminal
<1>10. remote' \in [Requests -> {"none", "running", "complete", "ended", "cancelled", "gone"}]
  BY <1>0, <1>2, <1>3
<1> QED
  BY <1>0, <1>7, <1>8, <1>9, <1>10, QuietStep DEF At

LEMMA RecoverPreserves ==
    ASSUME IInv, NEW t \in Threads, Recover(t)
    PROVE  IInv'
<1>0. /\ TypeOK /\ RecordsTyped /\ At(t, "recovering") /\ UNCHANGED <<stores, remote, rest>>
      /\ thread[t] \in ThreadStates
      /\ remote \in [Requests -> {"none", "running", "complete", "ended", "cancelled", "gone"}]
  BY Worked DEF Recover
<1>1. CASE slot # None /\ row[slot].state = "submitting"
  <2>1. PICK k \in ThreadStates : k = thread[t]
    BY <1>0
  <2>2. PICK q \in Requests : q = slot
    BY <1>0, <1>1 DEF RecordsTyped
  <2>3. row[q] \in Rows /\ Exists(q) /\ q # None
    BY <1>0, <1>1, <2>2 DEF RecordsTyped, Exists
  <2>4. PICK c \in Rows :
           c = Finished(row[q], "submission_unknown") /\ c.state = "submission_unknown"
    <3>1. /\ Finished(row[q], "submission_unknown") \in Rows
          /\ Finished(row[q], "submission_unknown").state = "submission_unknown"
      BY <2>3 DEF Finished, Rows, Terminal
    <3> QED
      BY <3>1, Zenon
  <2> DEFINE l == [k EXCEPT !.pc = "saving", !.then = "reconciling", !.on = q, !.copy = c]
  <2>5. Become(t, l)
    BY <1>1, <2>1, <2>2, <2>4 DEF Recover
  <2>6. /\ l \in ThreadStates /\ l.pc = "saving" /\ l.then = "reconciling" /\ l.on = q
        /\ l.copy = c
    BY DEF ThreadStates
  <2> HIDE DEF l
  <2>7. Fits(l)
    BY <2>3, <2>4, <2>6 DEF Fits, Terminal
  <2> QED
    BY <1>0, <2>5, <2>6, <2>7, QuietStep DEF At
<1>2. CASE ~(slot # None /\ row[slot].state = "submitting")
  <2>1. PICK l \in ThreadStates : l = Idle
    BY IdleTyped
  <2>2. Become(t, l) /\ l.pc = "idle"
    BY <1>2, <2>1 DEF Recover, Idle
  <2>3. Fits(l)
    BY <2>2, NothingToFit
  <2> QED
    BY <1>0, <2>2, <2>3, QuietStep DEF At
<1> QED
  BY <1>1, <1>2

-----------------------------------------------------------------------------
(* Faults, the clock and the provider.                                       *)

LEMMA CallRaisesPreserves ==
    ASSUME IInv, NEW t \in Threads, CallRaises(t)
    PROVE  IInv'
<1>0. /\ TypeOK /\ RecordsTyped
      /\ row' = row /\ slot' = slot /\ hold' = hold /\ answers' = answers /\ remote' = remote
      /\ creations' = creations /\ overdue' = overdue /\ cancels' = cancels
      /\ faults' = faults + 1 /\ faults < MaxFaults
  BY Worked DEF CallRaises, stores
<1>1. PICK l \in ThreadStates : Become(t, l) /\ l.pc = "idle"
  <2>1. PICK l \in ThreadStates : l = Idle
    BY IdleTyped
  <2> QED
    BY <2>1 DEF CallRaises, Idle
<1>2. faults' \in 0..MaxFaults /\ faults' > 0
  BY <1>0, ResearchAssumption DEF RecordsTyped
<1>3. RecordsTyped'
  BY <1>0, <1>2 DEF RecordsTyped
<1>4. \A q \in Requests : Settling(q)'
  BY <1>2 DEF Settling
<1>5. Onward
  BY <1>0, <1>4 DEF Onward, Exists, Beyond
<1>6. \A q \in Requests : RowFits(q)'
  BY <1>0, <1>4 DEF IInv, RowFits, Beyond
<1>7. Fits(l)'
  BY <1>1 DEF Fits, Copying
<1>8. slot' # None => Exists(slot)'
  BY <1>0 DEF IInv, Exists
<1> QED
  BY <1>0, <1>1, <1>3, <1>5, <1>6, <1>7, <1>8, ThreadSteps

LEMMA ProcessStopsPreserves ==
    ASSUME IInv, ProcessStops
    PROVE  IInv'
<1>0. /\ RecordsTyped /\ thread \in [Threads -> ThreadStates]
      /\ row' = row /\ slot' = slot /\ hold' = hold /\ answers' = answers /\ remote' = remote
      /\ creations' = creations /\ overdue' = overdue /\ cancels' = cancels
      /\ faults' = faults + 1 /\ faults < MaxFaults
  BY Typed DEF IInv, ProcessStops, stores
<1>1. PICK t \in Threads :
         thread' = [[u \in Threads |-> Idle] EXCEPT ![t].task = "recover", ![t].pc = "recovering"]
  BY DEF ProcessStops
<1>2. PICK l \in ThreadStates : l = [Idle EXCEPT !.task = "recover", !.pc = "recovering"]
  <2>1. [Idle EXCEPT !.task = "recover", !.pc = "recovering"] \in ThreadStates
    BY IdleTyped DEF ThreadStates
  <2> QED
    BY <2>1, Zenon
<1>3. thread' = [[u \in Threads |-> Idle] EXCEPT ![t] = l]
  BY <1>1, <1>2
<1>4. l.pc = "recovering"
  BY <1>2 DEF Idle
<1>5. /\ thread' \in [Threads -> ThreadStates]
      /\ \A u \in Threads : thread'[u].pc \in {"idle", "recovering"}
  BY <1>3, <1>4, IdleTyped DEF Idle
<1>6. faults' \in 0..MaxFaults /\ faults' > 0
  BY <1>0, ResearchAssumption DEF RecordsTyped
<1>7. RecordsTyped'
  BY <1>0, <1>6 DEF RecordsTyped
<1>8. TypeOK'
  BY <1>5, <1>7 DEF TypeOK, RecordsTyped, ThreadStates
<1>9. \A q \in Requests : RowFits(q)'
  BY <1>0, <1>6 DEF IInv, RowFits, Beyond, Settling
<1>10. \A u \in Threads : Fits(thread[u])'
  BY <1>5 DEF Fits, Copying
<1>11. OneSubmitter'
  BY <1>5 DEF OneSubmitter, At
<1>12. slot' # None => Exists(slot)'
  BY <1>0 DEF IInv, Exists
<1> QED
  BY <1>8, <1>9, <1>10, <1>11, <1>12 DEF IInv

(* What neither rows, holds nor threads notice.                              *)
LEMMA UnnoticedPreserves ==
    ASSUME IInv, UNCHANGED <<stores, creations, faults, thread>>,
           overdue' \subseteq Requests, cancels' = cancels,
           remote' \in [Requests -> {"none", "running", "complete", "ended", "cancelled", "gone"}]
    PROVE  IInv'
<1>0. /\ row' = row /\ slot' = slot /\ hold' = hold /\ answers' = answers
      /\ creations' = creations /\ cancels' = cancels /\ faults' = faults /\ thread' = thread
  BY DEF stores
<1>1. TypeOK'
  BY <1>0 DEF IInv, TypeOK
<1>2. \A q \in Requests : Settling(q)' = Settling(q)
  BY <1>0 DEF Settling, At
<1>3. \A q \in Requests : RowFits(q)'
  BY <1>0, <1>2 DEF IInv, RowFits, Beyond
<1>4. OneSubmitter'
  BY <1>0 DEF IInv, OneSubmitter, At
<1>5. slot' # None => Exists(slot)'
  BY <1>0 DEF IInv, Exists
<1>6. Onward
  BY <1>0, <1>2 DEF Onward, Exists, Beyond
<1>7. ASSUME NEW t \in Threads PROVE Fits(thread[t])'
  <2>1. PICK k \in ThreadStates : k = thread[t]
    BY Worked
  <2>2. Fits(k)
    BY <2>1 DEF IInv
  <2>3. Fits(k)' /\ thread'[t] = k
    BY <1>0, <1>6, <2>1, <2>2, FitsOnward
  <2> QED
    BY <2>3 DEF Fits
<1> QED
  BY <1>1, <1>3, <1>4, <1>5, <1>7 DEF IInv

LEMMA NextIInv ==
    IInv /\ [Next]_vars => IInv'
<1> SUFFICES ASSUME IInv, [Next]_vars PROVE IInv'
  OBVIOUS
<1>0. RecordsTyped
  BY Typed DEF IInv
<1>1. ASSUME NEW t \in Threads, Step(t) PROVE IInv'
  BY <1>1, AdmitPreserves, ClaimPreserves, SubmitPreserves, LoadPreserves, PollPreserves,
     CompleteAnswerPreserves, ReloadPreserves, SavePreserves, ReconcilePreserves,
     CancelRemotePreserves, ListPreserves, DeletePreserves, RecoverPreserves DEF Step
<1>2. ASSUME NEW t \in Threads, Read(t) \/ CallRaises(t) PROVE IInv'
  BY <1>2, ReadPreserves, CallRaisesPreserves
<1>3. ASSUME NEW t \in Threads, NEW q \in Requests, StartCreate(t, q) \/ StartCancel(t, q)
      PROVE  IInv'
  BY <1>3, StartCreatePreserves, StartCancelPreserves
<1>4. ASSUME NEW q \in Requests, DeadlinePasses(q) PROVE IInv'
  <2>1. /\ UNCHANGED <<stores, creations, faults, thread>> /\ cancels' = cancels
        /\ remote' = remote /\ overdue' \subseteq Requests
    BY <1>0, <1>4 DEF DeadlinePasses, RecordsTyped
  <2> QED
    BY <1>0, <2>1, UnnoticedPreserves DEF RecordsTyped
<1>5. ASSUME NEW q \in Requests, RemoteEnds(q) PROVE IInv'
  <2>1. /\ UNCHANGED <<stores, creations, faults, thread>> /\ cancels' = cancels
        /\ overdue' \subseteq Requests
        /\ remote' \in [Requests -> {"none", "running", "complete", "ended", "cancelled",
                                     "gone"}]
    BY <1>0, <1>5 DEF RemoteEnds, RecordsTyped, rest
  <2> QED
    BY <2>1, UnnoticedPreserves
<1>6. CASE ProcessStops
  BY <1>6, ProcessStopsPreserves
<1>7. CASE UNCHANGED vars
  <2>1. /\ UNCHANGED <<stores, creations, faults, thread>> /\ cancels' = cancels
        /\ remote' = remote /\ overdue' = overdue
    BY <1>7 DEF vars, stores
  <2> QED
    BY <1>0, <2>1, UnnoticedPreserves DEF RecordsTyped
<1> QED
  BY <1>1, <1>2, <1>3, <1>4, <1>5, <1>6, <1>7 DEF Next

-----------------------------------------------------------------------------
(* What follows of every behaviour.                                          *)

(* The inductive invariant holds throughout.                                 *)
THEOREM ResearchInvariant == Spec => []IInv
<1> QED
  BY InitIInv, NextIInv, PTL DEF Spec

(* Every column, hold and thread is of its type; a request has a hold        *)
(* exactly when it was admitted (repository: admit).                         *)
THEOREM ResearchTypesAreKept == Spec => []TypeOK
<1>1. IInv => TypeOK
  BY DEF IInv
<1> QED
  BY <1>1, ResearchInvariant, PTL

(* However many threads nudge, read and cancel, write stale copies back and  *)
(* are stopped, the provider is asked at most once to create a response      *)
(* (research.py: submit_pending, recover).                                   *)
THEOREM ResearchSubmittedOnce == Spec => []SubmittedOnce
<1>1. IInv => SubmittedOnce
  BY DEF IInv, RowFits, SubmittedOnce
<1> QED
  BY <1>1, ResearchInvariant, PTL

(* The units of the budget are finitely many, and no more are taken where the *)
(* holds stay or one that is reserved is settled.                             *)
LEMMA TakenIsFinite ==
    /\ IsFiniteSet(Taken) /\ Total \in Nat
    /\ IsFiniteSet(Taken') /\ Total' \in Nat
<1>1. IsFiniteSet(Requests) /\ IsFiniteSet(1..Reservation)
  BY FS_Interval, ResearchAssumption
<1>2. IsFiniteSet(Requests \X (1..Reservation))
  BY <1>1, FS_Product
<1>3. /\ Taken \in SUBSET (Requests \X (1..Reservation))
      /\ Taken' \in SUBSET (Requests \X (1..Reservation))
  BY DEF Taken
<1>4. IsFiniteSet(Taken) /\ IsFiniteSet(Taken')
  BY <1>2, <1>3, FS_Subset
<1> QED
  BY <1>4, FS_CardinalityType DEF Total

LEMMA NoMoreIsTaken ==
    ASSUME Taken' \subseteq Taken
    PROVE  Total' <= Total
<1>1. Taken' \in SUBSET Taken
  OBVIOUS
<1>2. Cardinality(Taken') <= Cardinality(Taken)
  BY <1>1, TakenIsFinite, FS_Subset
<1> QED
  BY ONLY <1>2 DEF Total

(* An admission takes the units of the reservation, which nobody had.         *)
LEMMA AdmissionTakes ==
    ASSUME IInv, NEW q \in Requests, hold[q] = "none",
           hold' = [hold EXCEPT ![q] = "reserved"]
    PROVE  Total' <= Total + Reservation
<1> DEFINE Units == {q} \X (1..Reservation)
<1>1. IsFiniteSet({q}) /\ Cardinality({q}) = 1
  BY FS_Singleton
<1>2. IsFiniteSet(1..Reservation) /\ Cardinality(1..Reservation) = Reservation
  BY FS_Interval, ResearchAssumption
<1>3. IsFiniteSet(Units) /\ Cardinality(Units) = Reservation
  <2>1. IsFiniteSet(Units) /\ Cardinality(Units) = Cardinality({q}) * Cardinality(1..Reservation)
    BY <1>1, <1>2, FS_Product, Zenon
  <2>2. Reservation \in Nat
    BY ResearchAssumption
  <2> QED
    BY <1>1, <1>2, <2>1, <2>2, SMT
<1>4. Taken' \subseteq Taken \cup Units
  <2>1. hold \in [Requests -> {"none", "reserved", "reconciled", "unknown"}]
    BY DEF IInv, TypeOK
  <2>2. ASSUME NEW u \in Taken' PROVE u \in Taken \cup Units
    <3>1. /\ u \in Requests \X (1..Reservation) /\ u[1] \in Requests
          /\ u[2] \in 1..Reservation /\ u = <<u[1], u[2]>>
          /\ u[2] <= Consumed(u[1])'
      BY <2>2 DEF Taken
    <3>2. CASE u[1] = q
      BY <3>1, <3>2
    <3>3. CASE u[1] # q
      <4>1. hold'[u[1]] = hold[u[1]]
        BY <2>1, <3>1, <3>3
      <4>2. Consumed(u[1])' = Consumed(u[1])
        BY <4>1 DEF Consumed
      <4> QED
        BY <3>1, <4>2 DEF Taken
    <3> QED
      BY <3>2, <3>3
  <2> QED
    BY <2>2
<1>5. /\ IsFiniteSet(Taken \cup Units)
      /\ Cardinality(Taken \cup Units)
            = Cardinality(Taken) + Cardinality(Units) - Cardinality(Taken \cap Units)
  BY <1>3, TakenIsFinite, FS_Union
<1>6. Cardinality(Taken \cap Units) \in Nat
  <2>1. Taken \cap Units \in SUBSET Units
    OBVIOUS
  <2> QED
    BY <1>3, <2>1, FS_Subset, FS_CardinalityType
<1>7. Cardinality(Taken') <= Cardinality(Taken \cup Units)
  <2>1. Taken' \in SUBSET (Taken \cup Units)
    BY <1>4
  <2> QED
    BY <1>5, <2>1, FS_Subset
<1>8. Cardinality(Taken') \in Nat
  <2>1. Taken' \in SUBSET (Taken \cup Units)
    BY <1>4
  <2> QED
    BY <1>5, <2>1, FS_Subset, FS_CardinalityType
<1>9. Cardinality(Taken) \in Nat /\ Reservation \in Nat
  BY TakenIsFinite, ResearchAssumption DEF Total
<1> HIDE DEF Units
<1> QED
  BY <1>3, <1>5, <1>6, <1>7, <1>8, <1>9 DEF Total

(* Settling a hold gives back what its request did not cost.                  *)
LEMMA SettlingGivesBack ==
    ASSUME IInv, NEW q \in Requests, hold[q] = "reserved", NEW state \in {"reconciled", "unknown"},
           hold' = [hold EXCEPT ![q] = state]
    PROVE  Taken' \subseteq Taken
<1>1. hold \in [Requests -> {"none", "reserved", "reconciled", "unknown"}]
  BY DEF IInv, TypeOK
<1>2. Cost \in Nat /\ Reservation \in Nat /\ Cost <= Reservation
  BY ResearchAssumption
<1>3. ASSUME NEW u \in Taken' PROVE u \in Taken
  <2>1. /\ u \in Requests \X (1..Reservation) /\ u[1] \in Requests
        /\ u[2] \in 1..Reservation /\ u[2] <= Consumed(u[1])'
    BY <1>3 DEF Taken
  <2>2. CASE u[1] = q
    <3>1. Consumed(u[1]) = Reservation
      BY <2>2 DEF Consumed
    <3> QED
      BY <1>2, <2>1, <3>1 DEF Taken
  <2>3. CASE u[1] # q
    <3>1. hold'[u[1]] = hold[u[1]]
      BY <1>1, <2>1, <2>3
    <3>2. Consumed(u[1])' = Consumed(u[1])
      BY <3>1 DEF Consumed
    <3> QED
      BY <2>1, <3>2 DEF Taken
  <2> QED
    BY <2>2, <2>3
<1> QED
  BY <1>3

(* Who is admitted had no hold before: the transaction that admits looks at   *)
(* the row again.                                                             *)
LEMMA AdmitWithinBudget ==
    ASSUME IInv, BudgetRespected, NEW t \in Threads, Admit(t)
    PROVE  BudgetRespected'
<1> DEFINE q == thread[t].on
<1>0. Total \in Nat /\ Reservation \in Nat /\ Limit \in Nat
  BY TakenIsFinite, ResearchAssumption
<1>1. CASE hold' = hold
  <2>1. Taken' = Taken
    BY <1>1 DEF Taken, Consumed
  <2> QED
    BY <2>1 DEF BudgetRespected, Total
<1>2. CASE hold' # hold
  <2>1. /\ At(t, "admitting") /\ row[q].state = "none" /\ ~OverBudget
        /\ hold' = [hold EXCEPT ![q] = "reserved"]
    BY <1>2 DEF Admit
  <2>2. q \in Requests
    BY <2>1 DEF IInv, Fits, At, TypeOK
  <2>3. hold[q] = "none"
    BY <2>1, <2>2 DEF IInv, TypeOK
  <2>4. Total' <= Total + Reservation
    BY <2>1, <2>2, <2>3, AdmissionTakes
  <2>5. Total + Reservation <= Limit
    BY <1>0, <2>1 DEF OverBudget
  <2>6. Total' \in Nat
    BY TakenIsFinite
  <2> QED
    BY <1>0, <2>4, <2>5, <2>6 DEF BudgetRespected
<1> QED
  BY <1>1, <1>2

LEMMA ReconcileWithinBudget ==
    ASSUME IInv, BudgetRespected, NEW t \in Threads, Reconcile(t)
    PROVE  BudgetRespected'
<1> DEFINE q == thread[t].on
<1>1. q \in Requests
  BY DEF Reconcile, IInv, Fits, At, TypeOK, Copying
<1>2. hold \in [Requests -> {"none", "reserved", "reconciled", "unknown"}]
  BY DEF IInv, TypeOK
<1>3. CASE hold[q] # "reserved"
  <2>1. hold' = hold
    BY <1>1, <1>2, <1>3 DEF Reconcile
  <2> QED
    BY <2>1 DEF BudgetRespected, Total, Taken, Consumed
<1>4. CASE hold[q] = "reserved"
  <2>1. PICK state \in {"reconciled", "unknown"} : hold' = [hold EXCEPT ![q] = state]
    BY <1>1, <1>2, <1>4 DEF Reconcile
  <2>2. Taken' \subseteq Taken
    BY <1>1, <1>4, <2>1, SettlingGivesBack
  <2>3. Total' <= Total
    BY <2>2, NoMoreIsTaken
  <2>4. Total \in Nat /\ Total' \in Nat /\ Limit \in Nat
    BY TakenIsFinite, ResearchAssumption
  <2> QED
    BY <2>3, <2>4 DEF BudgetRespected
<1> QED
  BY <1>3, <1>4

(* Nobody else touches the holds.                                             *)
LEMMA NextWithinBudget ==
    IInv /\ BudgetRespected /\ [Next]_vars => BudgetRespected'
<1> SUFFICES ASSUME IInv, BudgetRespected, [Next]_vars PROVE BudgetRespected'
  OBVIOUS
<1>1. CASE \E t \in Threads : Admit(t) \/ Reconcile(t)
  BY <1>1, AdmitWithinBudget, ReconcileWithinBudget
<1>2. CASE ~\E t \in Threads : Admit(t) \/ Reconcile(t)
  <2>1. ASSUME NEW t \in Threads, Step(t) PROVE hold' = hold
    <3>1. CASE Claim(t) \/ Submit(t) \/ Load(t) \/ CompleteAnswer(t) \/ Reload(t)
      BY <3>1 DEF Claim, Submit, Load, CompleteAnswer, Reload, stores
    <3>2. CASE Poll(t) \/ Save(t) \/ CancelRemote(t)
      BY <3>2, SMTT(40) DEF Poll, Save, CancelRemote, stores
    <3>3. CASE List(t) \/ Delete(t) \/ Recover(t)
      BY <3>3, Zenon DEF List, Delete, Recover, stores
    <3> QED
      BY <1>2, <2>1, <3>1, <3>2, <3>3 DEF Step
  <2>2. ASSUME NEW t \in Threads, Read(t) \/ CallRaises(t) PROVE hold' = hold
    BY <2>2 DEF Read, CallRaises, stores
  <2>3. ASSUME NEW t \in Threads, NEW q \in Requests, StartCreate(t, q) \/ StartCancel(t, q)
        PROVE  hold' = hold
    BY <2>3 DEF StartCreate, StartCancel, stores
  <2>4. ASSUME NEW q \in Requests, DeadlinePasses(q) \/ RemoteEnds(q) PROVE hold' = hold
    BY <2>4 DEF DeadlinePasses, RemoteEnds, stores
  <2>5. ASSUME ProcessStops \/ UNCHANGED vars PROVE hold' = hold
    BY <2>5 DEF ProcessStops, stores, vars
  <2>6. hold' = hold
    BY <2>1, <2>2, <2>3, <2>4, <2>5 DEF Next
  <2>7. Taken' = Taken
    BY <2>6 DEF Taken, Consumed
  <2> QED
    BY <2>7 DEF BudgetRespected, Total
<1> QED
  BY <1>1, <1>2

(* The holds of the day never exceed the limit, for any number of requests    *)
(* and threads: whatever the accounting check of a create saw before, the     *)
(* transaction that admits sums up again (budget repository: reserve_hold),   *)
(* and no request is admitted twice.                                          *)
THEOREM ResearchBudget == Spec => []BudgetRespected
<1>1. Init => BudgetRespected
  <2> SUFFICES ASSUME Init PROVE BudgetRespected
    OBVIOUS
  <2>1. Taken = {}
    BY DEF Init, Taken, Consumed
  <2>2. Total = 0
    BY <2>1, FS_EmptySet DEF Total
  <2> QED
    BY <2>2, ResearchAssumption DEF BudgetRespected
<1> QED
  BY <1>1, NextWithinBudget, ResearchInvariant, PTL DEF Spec

(* A request that ended with its hold still reserved is about to be          *)
(* accounted, unless a call raised or the process stopped (research.py:      *)
(* _finish, _reconcile).                                                     *)
THEOREM ResearchAccounted == Spec => []Accounted
<1>1. IInv => Accounted
  BY DEF IInv, RowFits, Settling, Accounted
<1> QED
  BY <1>1, ResearchInvariant, PTL

-----------------------------------------------------------------------------
(* AiConfiguration: the settings file.                                       *)

MaybeContents == {NONE} \cup Contents
Older(f) == Base(f).at < Base(file).at

(* What a call counts on: a shell has read the file as it is, or one that was  *)
(* replaced since; what it has built is an edit of what it has read, or will   *)
(* not be written.                                                             *)
CallFits(c) ==
    /\ c.step \in {"asked", "read"} => c.edit \in Edits
    /\ c.step = "read" => \E f \in MaybeContents : c.revision = <<f>> /\ (f = file \/ Older(f))
    /\ c.step = "built" =>
         /\ c.whole \in Contents
         /\ \E f \in MaybeContents :
              /\ c.revision = <<f>>
              /\ Older(f) \/ (f = file /\ \E e \in Edits : c.whole = Edited(Base(f), e))

SettingsInv ==
    /\ file \in MaybeContents /\ TheFileLoads
    /\ call = [a \in Agents |-> call[a]]
    /\ \A a \in Agents : CallFits(call[a])

\* What EachWriteIsOneEdit says of a step.
OneEdit ==
    file' # file =>
        \E e \in Edits :
            file' = [Written(Edited(Base(file), e)) EXCEPT !.at = Base(file).at + 1]

LEMMA BaseIsContent ==
  ASSUME NEW f \in MaybeContents
  PROVE  Base(f) \in Contents
<1>1. Empty \in Contents
  BY AiConfigurationAssumption DEF Empty, Contents, Providers
<1> QED
  BY <1>1 DEF Base, MaybeContents

LEMMA EditIsContent ==
  ASSUME NEW c \in Contents, NEW e \in Edits
  PROVE  Edited(c, e) \in Contents
<1>1. /\ c.active \in Providers /\ c.chosen \in [Providers -> Models \cup {NONE}]
      /\ c.records \in [Declared -> SUBSET Models]
      /\ c.research \in Settings \cup {NONE} /\ c.at \in 0 .. MaxWrites
      /\ c = [active |-> c.active, chosen |-> c.chosen, records |-> c.records,
              research |-> c.research, at |-> c.at]
  BY DEF Contents
<1>2. Declared \subseteq Providers
  BY DEF Providers
<1>3. CASE e.kind = "put"
  <2>1. e.provider \in Declared /\ e.models \in SUBSET Models
    BY <1>3 DEF Edits
  <2>2. [c.records EXCEPT ![e.provider] = e.models] \in [Declared -> SUBSET Models]
    BY <1>1, <2>1
  <2>3. Edited(c, e) = [c EXCEPT !.records = [c.records EXCEPT ![e.provider] = e.models]]
    BY <1>3 DEF Edited
  <2> QED
    BY <1>1, <2>2, <2>3 DEF Contents
<1>4. CASE e.kind = "delete"
  <2>1. e.provider \in Declared
    BY <1>4 DEF Edits
  <2>2. /\ [c.records EXCEPT ![e.provider] = {}] \in [Declared -> SUBSET Models]
        /\ [c.chosen EXCEPT ![e.provider] = NONE] \in [Providers -> Models \cup {NONE}]
    BY <1>1, <1>2, <2>1
  <2>3. Edited(c, e) = [c EXCEPT !.records = [c.records EXCEPT ![e.provider] = {}],
                                 !.chosen = [c.chosen EXCEPT ![e.provider] = NONE]]
    BY <1>1, <1>4 DEF Edited
  <2> QED
    BY <1>1, <2>2, <2>3 DEF Contents
<1>5. CASE e.kind = "activate"
  <2>1. e.provider \in Providers /\ e.model \in Models
    BY <1>5 DEF Edits
  <2>2. [c.chosen EXCEPT ![e.provider] = e.model] \in [Providers -> Models \cup {NONE}]
    BY <1>1, <2>1
  <2>3. Edited(c, e) = [c EXCEPT !.active = e.provider,
                                 !.chosen = [c.chosen EXCEPT ![e.provider] = e.model]]
    BY <1>1, <1>5 DEF Edited
  <2> QED
    BY <1>1, <2>1, <2>2, <2>3 DEF Contents
<1>6. CASE e.kind = "settings"
  <2>1. e.value \in Settings
    BY <1>6 DEF Edits
  <2>2. Edited(c, e) = [c EXCEPT !.research = e.value]
    BY <1>6 DEF Edited
  <2> QED
    BY <1>1, <2>1, <2>2 DEF Contents
<1> QED
  BY <1>3, <1>4, <1>5, <1>6 DEF Edits

(* What a write leaves: a content that loads, newer than all that were read.     *)
LEMMA WriteLeaves ==
  ASSUME file \in MaybeContents, NEW c \in Contents, Write(c)
  PROVE  /\ file' \in Contents /\ Loads(file')
         /\ \A f \in MaybeContents : f = file \/ Older(f) => Older(f)'
<1> DEFINE w == Written(c)
<1>1. /\ c.chosen \in [Providers -> Models \cup {NONE}] /\ c.at \in 0 .. MaxWrites
      /\ c.active \in Providers /\ c.records \in [Declared -> SUBSET Models]
      /\ c.research \in Settings \cup {NONE}
  BY DEF Contents
<1>2. DefaultModel \in Models /\ DefaultModel # NONE /\ Builtin \in Providers
  BY AiConfigurationAssumption DEF DefaultModel, Providers
<1>3. PICK chosen \in [Providers -> Models \cup {NONE}] :
        /\ w = [c EXCEPT !.chosen = chosen]
        /\ \A p \in Providers : p # Builtin => chosen[p] = c.chosen[p]
  <2>1. CASE w = c
    BY <1>1, <2>1 DEF Contents
  <2>2. CASE w = [c EXCEPT !.chosen[Builtin] = DefaultModel]
    <3>1. [c.chosen EXCEPT ![Builtin] = DefaultModel] \in [Providers -> Models \cup {NONE}]
      BY <1>1, <1>2
    <3> QED
      BY <1>1, <1>2, <2>2, <3>1
  <2> QED
    BY <2>1, <2>2 DEF Written
<1>4. /\ file' = [w EXCEPT !.at = Base(file).at + 1]
      /\ Base(file).at < MaxWrites /\ Base(file).at \in 0 .. MaxWrites
  BY BaseIsContent DEF Write, Contents
<1>5. /\ file' = [c EXCEPT !.chosen = chosen, !.at = Base(file).at + 1]
      /\ Base(file).at + 1 \in 0 .. MaxWrites
  BY <1>3, <1>4, AiConfigurationAssumption
<1>6. /\ file' \in Contents
      /\ file'.chosen = chosen /\ file'.records = c.records /\ file'.active = c.active
      /\ file'.at = Base(file).at + 1
  BY <1>1, <1>3, <1>5 DEF Contents
<1>7. Loads(file')
  <2>1. Loads(c)
    BY DEF Write, Writable
  <2> QED
    BY <1>1, <1>2, <1>3, <1>6, <2>1, AiConfigurationAssumption DEF Loads, Known, Providers
<1>8. Base(file').at = Base(file).at + 1
  BY <1>6, AiConfigurationAssumption DEF Base
<1>9. ASSUME NEW f \in MaybeContents, f = file \/ Older(f)
      PROVE  Base(f).at < Base(file').at
  <2>1. Base(f).at \in Nat /\ Base(file).at \in Nat
    BY BaseIsContent, AiConfigurationAssumption DEF Contents
  <2> QED
    BY <1>8, <1>9, <2>1 DEF Older
<1> QED
  BY <1>6, <1>7, <1>9 DEF Older

\* A call moves on and the file stays.
LEMMA CallGoes ==
  ASSUME SettingsInv, NEW a \in Agents, NEW c, Goes(a, c), CallFits(c), UNCHANGED file
  PROVE  SettingsInv' /\ OneEdit
<1>1. file' = file
  OBVIOUS
<1>2. /\ call' = [b \in Agents |-> call'[b]]
      /\ \A b \in Agents : call'[b] = IF b = a THEN c ELSE call[b]
  BY DEF SettingsInv, Goes
<1>3. \A b \in Agents : CallFits(call'[b])
  BY <1>2 DEF SettingsInv
<1> QED
  BY <1>1, <1>2, <1>3 DEF SettingsInv, TheFileLoads, CallFits, Older, OneEdit

\* A call that does not hold what it has read.
LEMMA PlainCallFits ==
  ASSUME NEW c, c.step \notin {"asked", "read", "built"}
  PROVE  CallFits(c) /\ CallFits(c)'
  BY DEF CallFits

\* A write, after which the writer goes on with a plain call.
LEMMA CallWrites ==
  ASSUME SettingsInv, NEW a \in Agents, NEW c, Goes(a, c),
         c.step \notin {"asked", "read", "built"},
         NEW w \in Contents, Write(w), NEW e \in Edits, w = Edited(Base(file), e)
  PROVE  SettingsInv' /\ OneEdit
<1>1. /\ file' \in Contents /\ Loads(file')
      /\ \A f \in MaybeContents : f = file \/ Older(f) => Older(f)'
  BY WriteLeaves DEF SettingsInv
<1>2. OneEdit
  BY DEF Write, OneEdit
<1>3. /\ call' = [b \in Agents |-> call'[b]]
      /\ \A b \in Agents : call'[b] = IF b = a THEN c ELSE call[b]
  BY DEF SettingsInv, Goes
<1>4. ASSUME NEW b \in Agents
      PROVE  CallFits(call[b])'
  <2>1. CASE b = a
    BY <1>3, <2>1, PlainCallFits DEF CallFits
  <2>2. CASE b # a
    <3>1. call'[b] = call[b] /\ CallFits(call[b])
      BY <1>3, <2>2 DEF SettingsInv
    <3> QED
      BY <1>1, <3>1 DEF CallFits
  <2> QED
    BY <2>1, <2>2
<1> QED
  BY <1>1, <1>2, <1>3, <1>4 DEF SettingsInv, TheFileLoads, MaybeContents

LEMMA ApplyIsOneEdit ==
  ASSUME SettingsInv, NEW o \in Pages, Apply(o)
  PROVE  SettingsInv' /\ OneEdit
<1> DEFINE e == call[o].edit
<1>1. o \in Agents /\ e \in Edits
  BY DEF Agents, Apply, SettingsInv, CallFits
<1>2. PICK applied : applied = [step |-> "applied", edit |-> e]
  OBVIOUS
<1>3. CASE Write(Edited(Base(file), e)) /\ Goes(o, applied)
  <2>1. PICK edit \in Edits : edit = e
    BY <1>1
  <2>2. Edited(Base(file), edit) \in Contents
    BY BaseIsContent, EditIsContent DEF SettingsInv
  <2>3. PICK w \in Contents : w = Edited(Base(file), edit)
    BY <2>2
  <2> QED
    BY <1>1, <1>2, <1>3, <2>1, <2>3, CallWrites
<1>4. ASSUME NEW c \in {applied, NoCall, Listing}, file' = file, Goes(o, c)
      PROVE  SettingsInv' /\ OneEdit
  <2>1. c.step \notin {"asked", "read", "built"}
    BY <1>2 DEF NoCall, Listing
  <2> QED
    BY <1>1, <1>4, <2>1, PlainCallFits, CallGoes
<1> QED
  BY <1>2, <1>3, <1>4 DEF Apply, Closes

LEMMA StoreIsOneEdit ==
  ASSUME SettingsInv, NEW s \in Shells, Store(s)
  PROVE  SettingsInv' /\ OneEdit
<1>1. s \in Agents /\ Goes(s, NoCall) /\ NoCall.step \notin {"asked", "read", "built"}
  BY DEF Store, Ends, Agents, NoCall
<1>2. CASE file' = file
  BY <1>1, <1>2, PlainCallFits, CallGoes
<1>3. CASE Unmoved(call[s].revision) /\ Write(call[s].whole)
  <2>1. PICK f \in MaybeContents :
          /\ call[s].revision = <<f>>
          /\ Older(f) \/ (f = file /\ \E e \in Edits : call[s].whole = Edited(Base(f), e))
    BY <1>1 DEF Store, SettingsInv, CallFits
  <2>2. f = file
    BY <1>3, <2>1 DEF Unmoved
  <2>3. ~ Older(f)
    <3>1. Base(file).at \in Nat
      BY BaseIsContent, AiConfigurationAssumption DEF SettingsInv, Contents
    <3> QED
      BY <2>2, <3>1 DEF Older
  <2>4. PICK e \in Edits : call[s].whole = Edited(Base(file), e)
    BY <2>1, <2>2, <2>3
  <2>5. PICK w \in Contents : w = call[s].whole
    BY <1>1 DEF Store, SettingsInv, CallFits
  <2> QED
    BY <1>1, <1>3, <2>4, <2>5, CallWrites
<1> QED
  BY <1>2, <1>3 DEF Store

(* A shell reads the revision, and later the content.                          *)
LEMMA ReadingKeeps ==
  ASSUME SettingsInv, NEW s \in Shells,
         (\E e \in Edits : Command(s, e)) \/ Build(s)
  PROVE  SettingsInv' /\ OneEdit
<1>1. s \in Agents
  BY DEF Agents
<1>2. ASSUME NEW e \in Edits, Command(s, e)
      PROVE  SettingsInv' /\ OneEdit
  <2>1. PICK c : c = [step |-> "read", edit |-> e, revision |-> <<file>>]
    OBVIOUS
  <2>2. CallFits(c)
    BY <2>1 DEF CallFits, SettingsInv
  <2> QED
    BY <1>1, <1>2, <2>1, <2>2, CallGoes DEF Command
<1>3. CASE Build(s)
  <2>1. CASE Goes(s, NoCall)
    <3>1. NoCall.step \notin {"asked", "read", "built"} /\ UNCHANGED file
      BY <1>3 DEF NoCall, Build
    <3> QED
      BY <1>1, <2>1, <3>1, PlainCallFits, CallGoes
  <2>2. CASE ~ Goes(s, NoCall)
    <3>1. PICK c : c = [step |-> "built", revision |-> call[s].revision,
                        whole |-> Edited(Base(file), call[s].edit)]
      OBVIOUS
    <3>2. Goes(s, c) /\ UNCHANGED file
      BY <1>3, <2>2, <3>1 DEF Build, Ends
    <3>3. PICK e \in Edits : e = call[s].edit
      BY <1>1, <1>3 DEF Build, SettingsInv, CallFits
    <3>4. PICK f \in MaybeContents : call[s].revision = <<f>> /\ (f = file \/ Older(f))
      BY <1>1, <1>3 DEF Build, SettingsInv, CallFits
    <3>5. c.step = "built" /\ c.revision = <<f>> /\ c.whole = Edited(Base(file), e)
      BY <3>1, <3>3, <3>4
    <3>6. c.whole \in Contents
      BY <3>5, BaseIsContent, EditIsContent DEF SettingsInv
    <3>7. CallFits(c)
      BY <3>4, <3>5, <3>6 DEF CallFits
    <3> QED
      BY <1>1, <3>2, <3>7, CallGoes
  <2> QED
    BY <2>1, <2>2
<1> QED
  BY <1>2, <1>3

(* The steps of pages that do not write.                                       *)
LEMMA PagesKeep ==
  ASSUME SettingsInv, NEW o \in Pages,
         \/ ListProviders(o) \/ Listed(o) \/ Study(o) \/ Studied(o) \/ Answer(o)
         \/ \E e \in Edits : Ask(o, e)
  PROVE  SettingsInv' /\ OneEdit
<1>1. o \in Agents /\ UNCHANGED file
  BY DEF Agents, ListProviders, Listed, Study, Studied, Answer, Ask
<1>2. \E c : Goes(o, c) /\ CallFits(c)
  <2>1. ASSUME NEW e \in Edits, Ask(o, e)
        PROVE  \E c : Goes(o, c) /\ CallFits(c)
    <3>1. PICK c : c = [step |-> "asked", edit |-> e, revision |-> Carries(o, e)]
      OBVIOUS
    <3>2. CallFits(c) /\ CallFits(NoCall) /\ CallFits(Listing)
      BY <3>1 DEF CallFits, NoCall, Listing
    <3> QED
      BY <2>1, <3>1, <3>2 DEF Ask, Closes
  <2>2. CASE ListProviders(o) \/ Listed(o) \/ Studied(o) \/ Answer(o)
    <3>1. CallFits(NoCall) /\ CallFits(Listing)
      BY DEF CallFits, NoCall, Listing
    <3> QED
      BY <2>2, <3>1 DEF ListProviders, Listed, Studied, Answer, Ends, Closes
  <2>3. CASE Study(o)
    <3>1. PICK c : c = [step |-> "studying", revision |-> <<file>>]
      OBVIOUS
    <3>2. CallFits(c)
      BY <3>1 DEF CallFits
    <3> QED
      BY <2>3, <3>1, <3>2 DEF Study
  <2> QED
    BY <2>1, <2>2, <2>3
<1> QED
  BY <1>1, <1>2, CallGoes

LEMMA TestsKeep ==
  ASSUME SettingsInv, NEW a \in Agents, Test(a) \/ Tested(a)
  PROVE  SettingsInv' /\ OneEdit
<1>1. PICK testing : testing = [step |-> "testing"]
  OBVIOUS
<1>2. CallFits(NoCall) /\ CallFits(testing)
  BY <1>1 DEF CallFits, NoCall
<1>3. UNCHANGED file /\ (Goes(a, NoCall) \/ Goes(a, testing))
  BY <1>1 DEF Test, Tested, Busy, Ends
<1> QED
  BY <1>2, <1>3, CallGoes

LEMMA StopKeeps ==
  ASSUME SettingsInv, NEW dead, Stop(dead)
  PROVE  SettingsInv' /\ OneEdit
<1>1. /\ UNCHANGED file /\ call' = [a \in Agents |-> call'[a]]
      /\ \A a \in Agents : call'[a] \in {call[a], NoCall}
  BY DEF Stop
<1>2. CallFits(NoCall)
  BY DEF CallFits, NoCall
<1>3. \A a \in Agents : CallFits(call'[a])
  BY <1>1, <1>2 DEF SettingsInv
<1> QED
  BY <1>1, <1>3 DEF SettingsInv, TheFileLoads, CallFits, Older, OneEdit

LEMMA SettingsNextKeeps ==
  ASSUME SettingsInv, [SettingsNext]_settingsVars
  PROVE  SettingsInv' /\ OneEdit
<1>1. CASE UNCHANGED settingsVars
  BY <1>1 DEF settingsVars, SettingsInv, TheFileLoads, CallFits, Older, OneEdit
<1>2. CASE SettingsNext
  BY <1>2, ApplyIsOneEdit, StoreIsOneEdit, ReadingKeeps, PagesKeep, TestsKeep, StopKeeps
     DEF SettingsNext
<1> QED
  BY <1>1, <1>2

LEMMA SettingsInitKeeps == SettingsInit => SettingsInv
  BY DEF SettingsInit, SettingsInv, TheFileLoads, MaybeContents, CallFits, NoCall

\* The inductive invariant of the settings: the file is absent or loads, and a
\* shell holds an edit of what the file is, or of a file that was replaced since
\* (infrastructure/ai/configuration.py, adapters/cli/ai.py).
THEOREM SettingsInvariant == SettingsSpec => []SettingsInv
<1>1. SettingsInv /\ [SettingsNext]_settingsVars => SettingsInv'
  BY SettingsNextKeeps
<1> QED
  BY <1>1, SettingsInitKeeps, PTL DEF SettingsSpec

\* No write leaves a file that the server refuses to load: neither an edit under
\* the guard, nor a shell's whole configuration, nor the default model that the
\* written form is given (infrastructure/ai/configuration.py).
THEOREM SettingsFileLoads == SettingsSpec => []TheFileLoads
<1>1. SettingsInv => TheFileLoads
  BY DEF SettingsInv
<1> QED
  BY <1>1, SettingsInvariant, PTL

\* Every replacement of the file is one edit of what was there: the revision a
\* shell has read guards the whole configuration it writes, for any number of
\* pages, shells, providers and models (write_ai_server_config).
THEOREM SettingsWriteIsOneEdit == SettingsSpec => EachWriteIsOneEdit
<1>1. SettingsInv /\ [SettingsNext]_settingsVars =>
        [file' # file =>
         \E e \in Edits :
           file' = [Written(Edited(Base(file), e)) EXCEPT !.at = Base(file).at + 1]]_settingsVars
  BY SettingsNextKeeps DEF OneEdit
<1> QED
  BY <1>1, SettingsInvariant, PTL DEF SettingsSpec, EachWriteIsOneEdit
================================================================================
