------------------------ MODULE MediaAnalysis_proofs ------------------------
(***************************************************************************)
(* Proofs about the analysis runs of one medium, for any number of runs,   *)
(* handler threads, attempts and faults.                                   *)
(***************************************************************************)
EXTENDS MediaAnalysis, TLAPS

(* The initial state satisfies the inductive invariant.                     *)
LEMMA InitIInv == Init => IInv
<1> SUFFICES ASSUME Init PROVE IInv
  OBVIOUS
<1> USE BoundsAssumption
<1>1. TypeOK
  BY DEF Init, TypeOK, Coordinators, Handlers, Waiting, Afresh, Resting, Kinds, Working, NoRow, Rows,
         Runs, TerminalStates, ActiveStates
<1>2. RowsShaped /\ HistoryIsOver
  BY DEF Init, RowsShaped, HistoryIsOver
<1>3. CopiesFaithful /\ CoordinatorKeepsItsRun /\ WorkIsExclusive
  BY DEF Init, CopiesFaithful, CoordinatorKeepsItsRun, WorkIsExclusive, InWork, Apart,
         HoldsCopy, Working, Waiting, Afresh, Resting
<1>4. NoBlindReplay /\ CallsCounted
  BY DEF Init, NoBlindReplay, CallsCounted, Counted, Working, Waiting, Afresh, Resting, NoRow
<1> QED
  BY <1>1, <1>2, <1>3, <1>4 DEF IInv

-----------------------------------------------------------------------------
(* What steps do to the rows and to copies of them.                         *)

(* A transaction that changes an active row and counts its version up keeps *)
(* the rows in shape, leaves terminal history alone, and outdates copies    *)
(* instead of falsifying them.                                              *)
LEMMA ActiveRowChanges ==
    ASSUME IInv, NEW i \in Runs, NEW r \in Rows, Active(i),
           RowShape(r), r.def = rows[i].def, r.version = rows[i].version + 1,
           rows' = [rows EXCEPT ![i] = r], made' = made
    PROVE  /\ rows' \in [Runs -> Rows \cup {NoRow}]
           /\ \A k \in Runs : k <= made' <=> rows'[k] # NoRow
           /\ RowsShaped' /\ HistoryIsOver'
           /\ \A c : Faithful(c) => Faithful(c)'
<1> USE BoundsAssumption
<1>0. /\ rows \in [Runs -> Rows \cup {NoRow}] /\ made \in 0..MaxRuns
      /\ \A k \in Runs : k <= made <=> rows[k] # NoRow
      /\ RowsShaped /\ HistoryIsOver
  BY DEF IInv, TypeOK
<1>1. r # NoRow /\ rows[i] # NoRow /\ i \in 1..made /\ rows[i] \in Rows
  BY <1>0 DEF Rows, NoRow, Active, ActiveStates, TerminalStates, Runs
<1>2. rows' \in [Runs -> Rows \cup {NoRow}]
  BY <1>0
<1>3. \A k \in Runs : k <= made' <=> rows'[k] # NoRow
  BY <1>0, <1>1
<1>4. RowsShaped'
  BY <1>0, <1>1 DEF RowsShaped, Runs
<1>5. HistoryIsOver'
  BY <1>0, <1>1 DEF HistoryIsOver, Terminal, Active, ActiveStates, TerminalStates, Runs
<1>6. ASSUME NEW c, Faithful(c) PROVE Faithful(c)'
  <2>1. /\ c \in Copies /\ c.id <= made /\ RowShape(c.row)
        /\ c.row.def = rows[c.id].def /\ c.row.version <= rows[c.id].version
        /\ c.row.version = rows[c.id].version => c.row = rows[c.id]
    BY <1>6 DEF Faithful
  <2>2. c.id \in Runs /\ c.row \in Rows
    BY <2>1 DEF Copies
  <2>3. c.row.version \in Nat /\ rows[i].version \in Nat
    BY <2>2, <1>1 DEF Rows
  <2>4. CASE c.id = i
    <3>1. rows'[c.id] = r
      BY <2>2, <2>4, <1>0
    <3> QED
      BY <2>1, <2>2, <2>3, <2>4, <3>1 DEF Faithful, RowShape
  <2>5. CASE c.id # i
    <3>1. rows'[c.id] = rows[c.id]
      BY <2>2, <2>5, <1>0
    <3> QED
      BY <2>1, <3>1 DEF Faithful, RowShape
  <2> QED
    BY <2>4, <2>5
<1> QED
  BY <1>2, <1>3, <1>4, <1>5, <1>6

(* A row is inserted for a definition whose runs have all ended.            *)
LEMMA RowInserted ==
    ASSUME IInv, NEW d \in Definitions, NeedsRun(d), Insert(d)
    PROVE  /\ made' \in 0..MaxRuns
           /\ rows' \in [Runs -> Rows \cup {NoRow}]
           /\ \A k \in Runs : k <= made' <=> rows'[k] # NoRow
           /\ RowsShaped' /\ HistoryIsOver'
           /\ \A c : Faithful(c) => Faithful(c)'
           /\ rows[made + 1] = NoRow /\ made + 1 \in Runs
           /\ rows'[made + 1] = Fresh(d)
           /\ \A k \in Runs : k # made + 1 => rows'[k] = rows[k]
           /\ Fresh(d) \in Rows
<1> USE BoundsAssumption
<1>0. /\ rows \in [Runs -> Rows \cup {NoRow}] /\ made \in 0..MaxRuns
      /\ \A k \in Runs : k <= made <=> rows[k] # NoRow
      /\ RowsShaped /\ HistoryIsOver
  BY DEF IInv, TypeOK
<1>1. /\ made < MaxRuns /\ made' = made + 1
      /\ rows' = [rows EXCEPT ![made + 1] = Fresh(d)]
  BY DEF Insert
<1>2. made + 1 \in Runs /\ rows[made + 1] = NoRow /\ made' \in 0..MaxRuns
  BY <1>0, <1>1 DEF Runs
<1>3. /\ rows'[made + 1] = Fresh(d)
      /\ \A k \in Runs : k # made + 1 => rows'[k] = rows[k]
  BY <1>0, <1>1, <1>2
<1>4. Fresh(d) \in Rows /\ Fresh(d) # NoRow /\ RowShape(Fresh(d))
  BY DEF Fresh, Rows, NoRow, RowShape, ActiveStates, TerminalStates, LastVersion
<1>5. rows' \in [Runs -> Rows \cup {NoRow}]
  BY <1>0, <1>1, <1>4
<1>6. \A k \in Runs : k <= made' <=> rows'[k] # NoRow
  BY <1>0, <1>1, <1>2, <1>3, <1>4 DEF Runs
<1>7. RowsShaped'
  BY <1>0, <1>1, <1>2, <1>3, <1>4 DEF RowsShaped, Runs
<1>8. HistoryIsOver'
  <2> SUFFICES ASSUME NEW j \in 1..made', NEW k \in 1..made', j < k, rows'[j].def = rows'[k].def
               PROVE  rows'[j].state \in TerminalStates
    BY DEF HistoryIsOver, Terminal
  <2>1. j \in 1..made /\ j \in Runs /\ rows'[j] = rows[j] /\ rows[j] \in Rows
    BY <1>0, <1>1, <1>2, <1>3 DEF Runs
  <2>2. CASE k = made + 1
    <3>1. rows[j].def = d
      BY <1>3, <2>1, <2>2 DEF Fresh
    <3>2. j \in OfDefinition(d)
      BY <2>1, <3>1 DEF OfDefinition, Rows, ActiveStates, TerminalStates
    <3> QED
      BY <2>1, <3>2 DEF NeedsRun, Active, Rows
  <2>3. CASE k # made + 1
    <3>1. k \in 1..made /\ rows'[k] = rows[k]
      BY <1>0, <1>1, <1>2, <1>3, <2>3 DEF Runs
    <3> QED
      BY <1>0, <2>1, <3>1 DEF HistoryIsOver, Terminal
  <2> QED
    BY <2>2, <2>3
<1>9. ASSUME NEW c, Faithful(c) PROVE Faithful(c)'
  <2>1. c.id \in Runs /\ c.id <= made
    BY <1>9 DEF Faithful, Copies
  <2>2. rows'[c.id] = rows[c.id] /\ c.id <= made'
    BY <1>0, <1>1, <1>3, <2>1 DEF Runs
  <2> QED
    BY <1>9, <2>2 DEF Faithful, RowShape
<1> QED
  BY <1>2, <1>3, <1>4, <1>5, <1>6, <1>7, <1>8, <1>9

-----------------------------------------------------------------------------
(* Steps that change no row and no count: what the coordinator and the      *)
(* handlers have in hand afterwards they had before, or it is fresh.        *)

\* Where l was, m is something the program can have in hand, and at work only
\* if l was already.
Kept(l, m) ==
    m.pc \in HoldsCopy =>
        /\ Faithful(m.copy)
        /\ m.pc \notin Working \/ (m.pc = l.pc /\ m.copy = l.copy)

InHand ==
    /\ \A c \in co'.page : Faithful(c) /\ c.row.state \in ActiveStates
    /\ Kept(co, co')
    /\ \A t \in Threads : Kept(api[t], api'[t])

LEMMA QuietStep ==
    ASSUME IInv, TypeOK', InHand, UNCHANGED <<made, rows, calls, returned>>
    PROVE  IInv'
<1>1. RowsShaped' /\ HistoryIsOver'
  BY DEF IInv, RowsShaped, HistoryIsOver, RowShape, Terminal
<1>2. CopiesFaithful'
  BY DEF IInv, InHand, Kept, CopiesFaithful, Faithful, RowShape
<1>3. CoordinatorKeepsItsRun'
  BY DEF IInv, InHand, Kept, CoordinatorKeepsItsRun, Holds, HoldsCopy, Working
<1>4. WorkIsExclusive'
  BY SMTT(40) DEF IInv, InHand, Kept, WorkIsExclusive, InWork, Apart, Holds, Terminal, HoldsCopy, Working
<1>5. NoBlindReplay' /\ CallsCounted'
  BY DEF IInv, InHand, Kept, NoBlindReplay, CallsCounted, Counted, HoldsCopy, Working
<1> QED
  BY <1>1, <1>2, <1>3, <1>4, <1>5 DEF IInv

LEMMA CopyFacts ==
    ASSUME IInv, NEW i \in Runs, Active(i)
    PROVE  Copy(i) \in Copies /\ Faithful(Copy(i)) /\ Copy(i).id = i /\ Copy(i).row = rows[i]
<1>1. rows[i] \in Rows
  BY DEF IInv, TypeOK, Active, ActiveStates, NoRow
<1>2. i \in 1..made
  BY DEF IInv, TypeOK, Active, ActiveStates, NoRow, Runs
<1>3. RowShape(rows[i])
  BY <1>2 DEF IInv, RowsShaped
<1>4. Copy(i).id = i /\ Copy(i).row = rows[i]
  BY DEF Copy
<1>5. Copy(i) \in Copies
  BY <1>1 DEF Copy, Copies
<1>6. i <= made /\ rows[i].version <= rows[i].version
  BY <1>1, <1>2 DEF Rows
<1> QED
  BY <1>3, <1>4, <1>5, <1>6 DEF Faithful

LEMMA ListIInv == IInv /\ List => IInv'
<1> SUFFICES ASSUME IInv, List PROVE IInv'
  OBVIOUS
<1>1. co \in Coordinators
  BY DEF IInv, TypeOK
<1>2. \A i \in Listed : /\ Copy(i) \in Copies /\ Faithful(Copy(i))
                        /\ Copy(i).row.state \in ActiveStates
  BY CopyFacts DEF Listed, Active
<1>3. co' \in Coordinators
  BY <1>1, <1>2 DEF List, Coordinators
<1>4. TypeOK'
  BY <1>3 DEF IInv, TypeOK, List
<1>5. co'.pc = "listed" /\ co'.page = {Copy(i) : i \in {j \in Listed : j > co.cursor}}
  BY <1>1 DEF List, Coordinators
<1>6. InHand
  BY <1>2, <1>5 DEF IInv, CopiesFaithful, List, InHand, Kept, HoldsCopy, Working
<1> QED
  BY <1>4, <1>6, QuietStep DEF List

LEMMA TakeIInv == IInv /\ Take => IInv'
<1> SUFFICES ASSUME IInv, Take PROVE IInv'
  OBVIOUS
<1>1. co \in Coordinators /\ \A c \in co.page : Faithful(c) /\ c.row.state \in ActiveStates
  BY DEF IInv, TypeOK, CopiesFaithful
<1>2. PICK c \in co.page :
        co' = [co EXCEPT !.page = @ \ {c}, !.cursor = c.id, !.copy = c,
                         !.pc = IF c.row.state = "analyzing" THEN "resetting" ELSE "claiming"]
  BY DEF Take
<1>3. c \in Copies /\ c.id \in Runs /\ c.id \in 0..MaxRuns
  BY <1>1, BoundsAssumption DEF Coordinators, Copies, Runs
<1>4. /\ co' \in Coordinators
      /\ co'.page = co.page \ {c} /\ co'.copy = c /\ co'.pc \in {"resetting", "claiming"}
  BY <1>1, <1>2, <1>3 DEF Coordinators
<1>5. TypeOK'
  BY <1>4 DEF IInv, TypeOK, Take
<1>6. InHand
  BY <1>1, <1>4 DEF IInv, CopiesFaithful, Take, InHand, Kept, HoldsCopy, Working
<1> QED
  BY <1>5, <1>6, QuietStep DEF Take

(* Turning to the next run leaves nothing in hand but the page.             *)
LEMMA OnwardFacts ==
    ASSUME co \in Coordinators, NEW retry \in BOOLEAN, Onward(retry)
    PROVE  co' \in Coordinators /\ co'.page = co.page /\ co'.pc \in {"listing", "listed"}
BY DEF Onward, Coordinators

LEMMA RereadIInv == IInv /\ Reread => IInv'
<1> SUFFICES ASSUME IInv, Reread PROVE IInv'
  OBVIOUS
<1>1. co \in Coordinators /\ \A c \in co.page : Faithful(c) /\ c.row.state \in ActiveStates
  BY DEF IInv, TypeOK, CopiesFaithful
<1>2. PICK i \in Runs : IF rows[i].state = "pending"
                       THEN co' = [co EXCEPT !.pc = "claiming", !.copy = Copy(i)]
                       ELSE Onward(FALSE)
  BY DEF Reread, Latest, OfDefinition
<1>3. /\ co' \in Coordinators /\ co'.page = co.page
      /\ co'.pc \in HoldsCopy => co'.pc = "claiming" /\ Faithful(co'.copy)
  <2>1. CASE rows[i].state = "pending"
    <3>1. Copy(i) \in Copies /\ Faithful(Copy(i))
      BY <2>1, CopyFacts DEF Active, ActiveStates
    <3>2. co' = [co EXCEPT !.pc = "claiming", !.copy = Copy(i)]
      BY <1>2, <2>1
    <3>3. co' \in Coordinators /\ co'.page = co.page /\ co'.pc = "claiming" /\ co'.copy = Copy(i)
      BY <1>1, <3>1, <3>2 DEF Coordinators
    <3> QED
      BY <3>1, <3>3
  <2>2. CASE rows[i].state # "pending"
    <3>1. Onward(FALSE)
      BY <1>2, <2>2
    <3> QED
      BY <1>1, <3>1, OnwardFacts DEF HoldsCopy, Working
  <2> QED
    BY <2>1, <2>2
<1>4. TypeOK'
  BY <1>3 DEF IInv, TypeOK, Reread
<1>5. InHand
  BY <1>1, <1>3 DEF IInv, CopiesFaithful, Reread, InHand, Kept, Working
<1> QED
  BY <1>4, <1>5, QuietStep DEF Reread

(* The steps in which the coordinator wakes up, goes to sleep or gives up a *)
(* run.                                                                     *)
Turning == NotifyOther \/ Wake \/ Finish \/ Backoff \/ CoordinatorError

LEMMA TurningIInv == IInv /\ Turning => IInv'
<1> SUFFICES ASSUME IInv, Turning PROVE IInv'
  OBVIOUS
<1>1. /\ co \in Coordinators /\ \A c \in co.page : Faithful(c) /\ c.row.state \in ActiveStates
      /\ co.pc \in HoldsCopy => Faithful(co.copy)
      /\ \A t \in Threads : api[t].pc \in HoldsCopy => Faithful(api[t].copy)
  BY DEF IInv, TypeOK, CopiesFaithful
<1>2. \A p \in {"waiting", "listing"} :
        Afresh(p) \in Coordinators /\ Afresh(p).pc = p /\ Afresh(p).page = {}
  BY BoundsAssumption DEF Afresh, Coordinators
<1>3. \/ co' = co
      \/ /\ co' \in Coordinators /\ co'.pc \notin HoldsCopy
         /\ co'.page = co.page \/ co'.page = {}
  <2>1. CASE NotifyOther
    BY <2>1 DEF NotifyOther
  <2>2. CASE Wake \/ Backoff
    BY <1>2, <2>2 DEF Wake, Backoff, Drain, HoldsCopy, Working
  <2>3. CASE Finish
    <3>1. CASE co' = [co EXCEPT !.pc = "backoff"]
      BY <1>1, <3>1 DEF Coordinators, HoldsCopy, Working
    <3>2. CASE Drain \/ co' = Waiting
      BY <1>2, <3>2 DEF Drain, Waiting, HoldsCopy, Working
    <3> QED
      BY <2>3, <3>1, <3>2 DEF Finish
  <2>4. CASE CoordinatorError
    <3>1. CASE co' = [co EXCEPT !.pc = "backoff"]
      BY <1>1, <3>1 DEF Coordinators, HoldsCopy, Working
    <3>2. CASE Onward(TRUE)
      BY <1>1, <3>2, OnwardFacts DEF HoldsCopy, Working
    <3> QED
      BY <2>4, <3>1, <3>2 DEF CoordinatorError
  <2> QED
    BY <2>1, <2>2, <2>3, <2>4 DEF Turning
<1>4. /\ UNCHANGED <<made, rows, api, up, calls, returned>>
      /\ faults' \in 0..MaxFaults /\ wake' \in BOOLEAN
  <2>1. faults \in 0..MaxFaults /\ wake \in BOOLEAN
    BY DEF IInv, TypeOK
  <2>2. UNCHANGED faults \/ (faults < MaxFaults /\ faults' = faults + 1)
    BY DEF Turning, NotifyOther, Wake, Finish, Backoff, CoordinatorError
  <2>3. faults' \in 0..MaxFaults
    BY <2>1, <2>2, BoundsAssumption
  <2>4. wake' \in BOOLEAN
    BY <2>1 DEF Turning, NotifyOther, Wake, Finish, Backoff, CoordinatorError
  <2>5. UNCHANGED <<made, rows, api, up, calls, returned>>
    BY DEF Turning, NotifyOther, Wake, Finish, Backoff, CoordinatorError
  <2> QED
    BY <2>3, <2>4, <2>5
<1>5. TypeOK'
  <2>1. co' \in Coordinators
    BY <1>1, <1>3
  <2> QED
    BY <1>4, <2>1 DEF IInv, TypeOK
<1>6. InHand
  BY <1>1, <1>3, <1>4 DEF InHand, Kept
<1> QED
  BY <1>4, <1>5, <1>6, QuietStep

(* A handler gives up, the process stops, the process starts.               *)
Ending == (\E t \in Threads : HandlerError(t)) \/ Stop \/ Start

LEMMA EndingIInv == IInv /\ Ending => IInv'
<1> SUFFICES ASSUME IInv, Ending PROVE IInv'
  OBVIOUS
<1>1. /\ co \in Coordinators /\ \A c \in co.page : Faithful(c) /\ c.row.state \in ActiveStates
      /\ co.pc \in HoldsCopy => Faithful(co.copy)
      /\ \A t \in Threads : api[t].pc \in HoldsCopy => Faithful(api[t].copy)
      /\ api \in [Threads -> Handlers]
  BY DEF IInv, TypeOK, CopiesFaithful
<1>2. /\ Resting \in Handlers /\ Resting.pc = "resting"
      /\ Waiting \in Coordinators /\ Waiting.pc = "waiting" /\ Waiting.page = {}
  BY BoundsAssumption DEF Resting, Handlers, Kinds, Waiting, Afresh, Coordinators
<1>3. co' = co \/ co' = Waiting
  BY DEF Ending, HandlerError, Stop, Start
<1>4. api' \in [Threads -> Handlers] /\ \A t \in Threads : api'[t] = api[t] \/ api'[t] = Resting
  BY <1>1, <1>2 DEF Ending, HandlerError, Stop, Start
<1>5. /\ UNCHANGED <<made, rows, calls, returned>>
      /\ faults' \in 0..MaxFaults /\ wake' \in BOOLEAN /\ up' \in BOOLEAN
  <2>1. faults \in 0..MaxFaults /\ wake \in BOOLEAN /\ up \in BOOLEAN
    BY DEF IInv, TypeOK
  <2>2. UNCHANGED faults \/ (faults < MaxFaults /\ faults' = faults + 1)
    BY DEF Ending, HandlerError, Stop, Start
  <2>3. faults' \in 0..MaxFaults
    BY <2>1, <2>2, BoundsAssumption
  <2>4. wake' \in BOOLEAN /\ up' \in BOOLEAN
    BY <2>1 DEF Ending, HandlerError, Stop, Start
  <2>5. UNCHANGED <<made, rows, calls, returned>>
    BY DEF Ending, HandlerError, Stop, Start
  <2> QED
    BY <2>3, <2>4, <2>5
<1>6. TypeOK'
  <2>1. co' \in Coordinators
    BY <1>1, <1>2, <1>3
  <2> QED
    BY <1>4, <1>5, <2>1 DEF IInv, TypeOK
<1>7. InHand
  BY <1>1, <1>2, <1>3, <1>4 DEF InHand, Kept, HoldsCopy, Working
<1> QED
  BY <1>5, <1>6, <1>7, QuietStep

-----------------------------------------------------------------------------
(* Steps that insert a row.                                                 *)

(* A new run with nobody at work on it; a handler may have it in hand.      *)
LEMMA InsertStep ==
    ASSUME IInv, TypeOK', NEW d \in Definitions, NeedsRun(d), Insert(d),
           UNCHANGED <<co, calls, returned>>,
           \A t \in Threads :
              \/ api'[t] = api[t]
              \/ /\ api'[t].pc = "claiming"
                 /\ api'[t].copy = [id |-> made + 1, row |-> Fresh(d)]
    PROVE  IInv'
<1>1. /\ RowsShaped' /\ HistoryIsOver'
      /\ \A c : Faithful(c) => Faithful(c)'
      /\ rows[made + 1] = NoRow /\ made + 1 \in Runs
      /\ rows'[made + 1] = Fresh(d)
      /\ \A k \in Runs : k # made + 1 => rows'[k] = rows[k]
      /\ Fresh(d) \in Rows
  BY RowInserted
<1>2. made' = made + 1 /\ made \in Nat /\ rows \in [Runs -> Rows \cup {NoRow}]
      /\ calls \in [Runs -> 0..MaxAttempts] /\ returned \in [Runs -> 0..MaxAttempts]
  BY BoundsAssumption DEF Insert, IInv, TypeOK
<1>3. \A c : Faithful(c) => c.id \in Runs /\ c.id <= made /\ rows'[c.id] = rows[c.id]
  BY <1>1, <1>2 DEF Faithful, Copies, Runs
<1>4. \A c : c = [id |-> made + 1, row |-> Fresh(d)] => Faithful(c)'
  <2> SUFFICES ASSUME NEW c, c = [id |-> made + 1, row |-> Fresh(d)] PROVE Faithful(c)'
    OBVIOUS
  <2>1. c.id = made + 1 /\ c.row = Fresh(d) /\ c \in Copies
    BY <1>1 DEF Copies
  <2>2. RowShape(Fresh(d)) /\ Fresh(d).version <= Fresh(d).version
    BY BoundsAssumption DEF RowShape, Fresh, TerminalStates
  <2>3. c.id <= made'
    BY <1>2, <2>1
  <2> QED
    BY <1>1, <2>1, <2>2, <2>3 DEF Faithful, RowShape
<1>5. CopiesFaithful'
  BY <1>1, <1>4, SMTT(60) DEF IInv, CopiesFaithful, Faithful
<1>6. CoordinatorKeepsItsRun'
  BY <1>3 DEF IInv, CopiesFaithful, CoordinatorKeepsItsRun, Holds, HoldsCopy, Working
<1>7. WorkIsExclusive'
  <2>1. ASSUME NEW t \in Threads PROVE InWork(api[t])' /\ Apart(co, api[t])'
    BY <1>3 DEF IInv, CopiesFaithful, WorkIsExclusive, InWork, Apart, Holds, Terminal,
                HoldsCopy, Working
  <2>2. ASSUME NEW t \in Threads, NEW u \in Threads, t # u PROVE Apart(api[t], api[u])'
    BY <2>2 DEF IInv, WorkIsExclusive, Apart, Working
  <2> QED
    BY <2>1, <2>2 DEF WorkIsExclusive
<1>8. calls[made + 1] = 0 /\ returned[made + 1] = 0
  <2>1. calls[made + 1] <= 0
    BY <1>1 DEF IInv, NoBlindReplay, NoRow
  <2>2. returned[made + 1] <= calls[made + 1]
    BY <1>1 DEF IInv, CallsCounted
  <2> QED
    BY <1>1, <1>2, <2>1, <2>2
<1>9. NoBlindReplay'
  <2> SUFFICES ASSUME NEW i \in Runs
               PROVE  calls[i] <= returned[i] + 1 /\ calls[i] <= rows'[i].attempts
    BY DEF NoBlindReplay
  <2>1. CASE i = made + 1
    BY <1>1, <1>8, <2>1 DEF Fresh
  <2>2. CASE i # made + 1
    BY <1>1, <2>2 DEF IInv, NoBlindReplay
  <2> QED
    BY <2>1, <2>2
<1>10. CallsCounted'
  <2>1. \A i \in Runs : /\ returned'[i] <= calls'[i]
                        /\ rows'[i].state = "pending" => calls'[i] = returned'[i]
    <3> SUFFICES ASSUME NEW i \in Runs
                 PROVE  /\ returned[i] <= calls[i]
                        /\ rows'[i].state = "pending" => calls[i] = returned[i]
      OBVIOUS
    <3>1. CASE i = made + 1
      BY <1>8, <3>1
    <3>2. CASE i # made + 1
      BY <1>1, <3>2 DEF IInv, CallsCounted
    <3> QED
      BY <3>1, <3>2
  <2>2. Counted(co)'
    BY <1>3 DEF IInv, CopiesFaithful, CallsCounted, Counted, HoldsCopy, Working
  <2>3. ASSUME NEW t \in Threads PROVE Counted(api[t])'
    <3>1. CASE api'[t] = api[t]
      BY <1>3, <3>1 DEF IInv, CopiesFaithful, CallsCounted, Counted, HoldsCopy, Working
    <3>2. CASE api'[t].pc = "claiming"
      BY <3>2 DEF Counted, Working
    <3> QED
      BY <3>1, <3>2
  <2> QED
    BY <2>1, <2>2, <2>3 DEF CallsCounted
<1> QED
  BY <1>1, <1>5, <1>6, <1>7, <1>9, <1>10 DEF IInv

LEMMA RequestIInv == IInv /\ (Schedule \/ RequestManual) => IInv'
<1> SUFFICES ASSUME IInv, Schedule \/ RequestManual PROVE IInv'
  OBVIOUS
<1>1. \/ NeedsRun("generic") /\ Insert("generic")
      \/ UNCHANGED <<made, rows>>
  BY DEF Schedule, RequestManual, NeedsRun
<1>2. UNCHANGED <<co, api, up, faults, calls, returned>> /\ wake' \in BOOLEAN
  BY DEF Schedule, RequestManual
<1>3. CASE NeedsRun("generic") /\ Insert("generic")
  <2>1. "generic" \in Definitions
    BY DEF Definitions
  <2>2. /\ made' \in 0..MaxRuns /\ rows' \in [Runs -> Rows \cup {NoRow}]
        /\ \A k \in Runs : k <= made' <=> rows'[k] # NoRow
    BY <1>3, <2>1, RowInserted
  <2>3. TypeOK'
    BY <1>2, <2>2 DEF IInv, TypeOK
  <2> QED
    BY <1>2, <1>3, <2>1, <2>3, InsertStep
<1>4. CASE UNCHANGED <<made, rows>>
  <2>1. TypeOK'
    BY <1>2, <1>4 DEF IInv, TypeOK
  <2>2. InHand
    BY <1>2 DEF IInv, CopiesFaithful, InHand, Kept
  <2> QED
    BY <1>2, <1>4, <2>1, <2>2, QuietStep
<1> QED
  BY <1>1, <1>3, <1>4

LEMMA BeginIInv == ASSUME NEW t \in Threads, NEW k \in Kinds, IInv, Begin(t, k) PROVE IInv'
<1>1. UNCHANGED <<wake, co, up, faults, calls, returned>> /\ DefinitionOf(k) \in Definitions
  BY DEF Begin, DefinitionOf, Definitions
<1>2. api \in [Threads -> Handlers]
  BY DEF IInv, TypeOK
<1>3. CASE NeedsRun(DefinitionOf(k)) /\ Insert(DefinitionOf(k))
           /\ api' = [api EXCEPT ![t] = [pc |-> "claiming", kind |-> k, answer |-> None,
                              copy |-> [id |-> made + 1, row |-> Fresh(DefinitionOf(k))]]]
  <2>1. /\ made' \in 0..MaxRuns /\ rows' \in [Runs -> Rows \cup {NoRow}]
        /\ \A j \in Runs : j <= made' <=> rows'[j] # NoRow
        /\ made + 1 \in Runs /\ Fresh(DefinitionOf(k)) \in Rows
    BY <1>1, <1>3, RowInserted
  <2>2. [id |-> made + 1, row |-> Fresh(DefinitionOf(k))] \in Copies
    BY <2>1 DEF Copies
  <2>3. /\ api' \in [Threads -> Handlers]
        /\ api'[t].pc = "claiming"
        /\ api'[t].copy = [id |-> made + 1, row |-> Fresh(DefinitionOf(k))]
        /\ \A u \in Threads : u # t => api'[u] = api[u]
    BY <1>2, <1>3, <2>2 DEF Handlers
  <2>4. TypeOK'
    BY <1>1, <2>1, <2>3 DEF IInv, TypeOK
  <2> QED
    BY <1>1, <1>3, <2>3, <2>4, InsertStep
<1>4. CASE \E i \in OfDefinition(DefinitionOf(k)) :
              /\ rows[i].state = "pending"
              /\ api' = [api EXCEPT ![t] = [pc |-> "claiming", kind |-> k, answer |-> None,
                                            copy |-> Copy(i)]]
              /\ UNCHANGED <<made, rows>>
  <2>1. PICK i \in Runs :
              /\ rows[i].state = "pending"
              /\ api' = [api EXCEPT ![t] = [pc |-> "claiming", kind |-> k, answer |-> None,
                                            copy |-> Copy(i)]]
              /\ UNCHANGED <<made, rows>>
    BY <1>4 DEF OfDefinition
  <2>2. Copy(i) \in Copies /\ Faithful(Copy(i))
    BY <2>1, CopyFacts DEF Active, ActiveStates
  <2>3. /\ api' \in [Threads -> Handlers]
        /\ api'[t].pc = "claiming" /\ api'[t].copy = Copy(i)
        /\ \A u \in Threads : u # t => api'[u] = api[u]
    BY <1>2, <2>1, <2>2 DEF Handlers
  <2>4. TypeOK'
    BY <1>1, <2>1, <2>3 DEF IInv, TypeOK
  <2>5. InHand
    BY <1>1, <2>2, <2>3 DEF IInv, CopiesFaithful, InHand, Kept, Working
  <2> QED
    BY <1>1, <2>1, <2>4, <2>5, QuietStep
<1> QED
  BY <1>3, <1>4 DEF Begin

-----------------------------------------------------------------------------
(* Steps of the work on a run: a preparation that fails, a request that     *)
(* goes out, an answer.                                                     *)

\* The counts of one run change, and stay within bounds.
CallsMove(i) ==
    /\ calls' \in [Runs -> 0..MaxAttempts] /\ returned' \in [Runs -> 0..MaxAttempts]
    /\ \A k \in Runs : k # i => calls'[k] = calls[k] /\ returned'[k] = returned[k]
    /\ returned'[i] <= calls'[i] /\ calls'[i] <= returned'[i] + 1
    /\ calls'[i] <= rows[i].attempts

\* The same run in another phase of the work.
Works(l, m) ==
    /\ l.pc \in Working /\ m.pc \in Working
    /\ m.copy = l.copy
    /\ CallsMove(l.copy.id)
    /\ LET i == l.copy.id IN
       IF m.pc = "asking" THEN calls'[i] = returned'[i] + 1
       ELSE calls'[i] = returned'[i] /\ m.pc # "preparing"

(* The three phases, whoever is at work.                                    *)
LEMMA Phases ==
    ASSUME IInv, NEW l, NEW m, Counted(l), l.pc \in Working, m.copy = l.copy,
           l.copy \in Copies,
           \/ /\ l.pc = "preparing" /\ m.pc = "recording"
              /\ UNCHANGED <<calls, returned>>
           \/ /\ l.pc = "preparing" /\ m.pc = "asking"
              /\ calls' = [calls EXCEPT ![l.copy.id] = @ + 1] /\ UNCHANGED returned
           \/ /\ l.pc = "asking" /\ m.pc = "recording"
              /\ returned' = [returned EXCEPT ![l.copy.id] = @ + 1] /\ UNCHANGED calls
    PROVE  Works(l, m)
<1> DEFINE i == l.copy.id
<1>1. i \in Runs
  BY DEF Copies
<1>2. /\ calls \in [Runs -> 0..MaxAttempts] /\ returned \in [Runs -> 0..MaxAttempts]
      /\ rows \in [Runs -> Rows \cup {NoRow}]
  BY DEF IInv, TypeOK
<1>3. rows[i].attempts \in 0..MaxAttempts
  BY <1>1, <1>2, BoundsAssumption DEF Rows, NoRow
<1>4. calls[i] <= rows[i].attempts /\ returned[i] <= calls[i] /\ calls[i] <= returned[i] + 1
  BY <1>1 DEF IInv, NoBlindReplay, CallsCounted
<1>5. IF l.pc = "asking" THEN calls[i] = returned[i] + 1
      ELSE /\ calls[i] = returned[i]
           /\ l.pc = "preparing" => calls[i] < rows[i].attempts
  BY DEF Counted
<1> HIDE DEF i
<1>6. CallsMove(i)
  BY <1>1, <1>2, <1>3, <1>4, <1>5, BoundsAssumption DEF CallsMove, i
<1>7. IF m.pc = "asking" THEN calls'[i] = returned'[i] + 1
      ELSE calls'[i] = returned'[i] /\ m.pc # "preparing"
  BY <1>1, <1>2, <1>5, BoundsAssumption DEF i
<1> QED
  BY <1>6, <1>7 DEF Works, Working, i

LEMMA CoordinatorWorks ==
    ASSUME IInv, TypeOK', UNCHANGED <<made, rows, api>>, Works(co, co'), co'.page = co.page
    PROVE  IInv'
<1> DEFINE i == co.copy.id
<1>1. /\ co.pc \in Working /\ co'.pc \in Working /\ co'.copy = co.copy /\ CallsMove(i)
      /\ IF co'.pc = "asking" THEN calls'[i] = returned'[i] + 1
         ELSE calls'[i] = returned'[i] /\ co'.pc # "preparing"
  BY DEF Works
<1>2. Faithful(co.copy) /\ Holds(co.copy, "analyzing") /\ i \in Runs
  BY <1>1 DEF IInv, CopiesFaithful, CoordinatorKeepsItsRun, HoldsCopy, Working, Faithful, Copies
<1>3. RowsShaped' /\ HistoryIsOver'
  BY SMTT(60) DEF IInv, RowsShaped, HistoryIsOver, RowShape, Terminal
<1>4. CopiesFaithful'
  BY <1>1, <1>2 DEF IInv, CopiesFaithful, Faithful, RowShape
<1>5. CoordinatorKeepsItsRun'
  BY <1>1, <1>2 DEF CoordinatorKeepsItsRun, Holds
<1>6. WorkIsExclusive'
  BY <1>1 DEF IInv, WorkIsExclusive, InWork, Apart, Holds, Terminal
<1>7. NoBlindReplay'
  BY <1>1, <1>2 DEF IInv, NoBlindReplay, CallsMove
<1>8. CallsCounted'
  <2>1. ASSUME NEW k \in Runs
        PROVE  /\ returned'[k] <= calls'[k]
               /\ rows'[k].state = "pending" => calls'[k] = returned'[k]
    <3>1. CASE k = i
      BY <1>1, <1>2, <3>1 DEF CallsMove, Holds
    <3>2. CASE k # i
      BY <1>1, <3>2 DEF IInv, CallsCounted, CallsMove
    <3> QED
      BY <3>1, <3>2
  <2>2. Counted(co)'
    BY <1>1 DEF Counted
  <2>3. ASSUME NEW t \in Threads PROVE Counted(api[t])'
    <3> SUFFICES ASSUME api[t].pc \in Working PROVE Counted(api[t])'
      BY DEF Counted
    <3>1. api[t].copy.id # i /\ Faithful(api[t].copy)
      BY <1>1 DEF IInv, WorkIsExclusive, Apart, CopiesFaithful, HoldsCopy
    <3>2. api[t].copy.id \in Runs
      BY <3>1 DEF Faithful, Copies
    <3> QED
      BY <1>1, <3>1, <3>2 DEF IInv, CallsCounted, Counted, CallsMove
  <2> QED
    BY <2>1, <2>2, <2>3 DEF CallsCounted
<1> QED
  BY <1>3, <1>4, <1>5, <1>6, <1>7, <1>8 DEF IInv

LEMMA ThreadWorks ==
    ASSUME IInv, TypeOK', NEW t \in Threads, UNCHANGED <<made, rows, co>>,
           Works(api[t], api'[t]), \A u \in Threads : u # t => api'[u] = api[u]
    PROVE  IInv'
<1> DEFINE i == api[t].copy.id
<1>1. /\ api[t].pc \in Working /\ api'[t].pc \in Working
      /\ api'[t].copy = api[t].copy /\ CallsMove(i)
      /\ IF api'[t].pc = "asking" THEN calls'[i] = returned'[i] + 1
         ELSE calls'[i] = returned'[i] /\ api'[t].pc # "preparing"
  BY DEF Works
<1>2. /\ Faithful(api[t].copy)
      /\ Holds(api[t].copy, "analyzing") \/ Terminal(i)
      /\ i \in Runs
  <2>1. Faithful(api[t].copy)
    BY <1>1 DEF IInv, CopiesFaithful, HoldsCopy
  <2>2. Holds(api[t].copy, "analyzing") \/ Terminal(i)
    BY <1>1 DEF IInv, WorkIsExclusive, InWork
  <2>3. i \in Runs
    BY <2>1 DEF Faithful, Copies
  <2> QED
    BY <2>1, <2>2, <2>3
<1>3. RowsShaped' /\ HistoryIsOver'
  BY DEF IInv, RowsShaped, HistoryIsOver, RowShape, Terminal
<1>4. CopiesFaithful'
  <2>1. ASSUME NEW u \in Threads, api'[u].pc \in HoldsCopy PROVE Faithful(api'[u].copy)
    BY <1>1, <2>1 DEF IInv, CopiesFaithful, HoldsCopy
  <2> QED
    BY <2>1 DEF IInv, CopiesFaithful, Faithful, RowShape
<1>5. CoordinatorKeepsItsRun'
  BY DEF IInv, CoordinatorKeepsItsRun, Holds
<1>6. WorkIsExclusive'
  <2>1. \A u \in Threads : /\ api'[u].pc \in Working <=> api[u].pc \in Working
                           /\ api'[u].copy = api[u].copy
    BY <1>1
  <2> QED
    BY <2>1 DEF IInv, WorkIsExclusive, InWork, Apart, Holds, Terminal
<1>7. NoBlindReplay'
  BY <1>1, <1>2 DEF IInv, NoBlindReplay, CallsMove
<1>8. CallsCounted'
  <2>1. ASSUME NEW k \in Runs
        PROVE  /\ returned'[k] <= calls'[k]
               /\ rows'[k].state = "pending" => calls'[k] = returned'[k]
    <3>1. CASE k = i
      BY <1>1, <1>2, <3>1 DEF CallsMove, Holds, Terminal, TerminalStates
    <3>2. CASE k # i
      BY <1>1, <3>2 DEF IInv, CallsCounted, CallsMove
    <3> QED
      BY <3>1, <3>2
  <2>2. Counted(co)'
    <3> SUFFICES ASSUME co.pc \in Working PROVE Counted(co)'
      BY DEF Counted
    <3>1. co.copy.id # i /\ Faithful(co.copy)
      BY <1>1 DEF IInv, WorkIsExclusive, Apart, CopiesFaithful, HoldsCopy
    <3>2. co.copy.id \in Runs
      BY <3>1 DEF Faithful, Copies
    <3> QED
      BY <1>1, <3>1, <3>2 DEF IInv, CallsCounted, Counted, CallsMove
  <2>3. ASSUME NEW u \in Threads PROVE Counted(api[u])'
    <3>1. CASE u = t
      BY <1>1, <3>1 DEF Counted
    <3>2. CASE u # t /\ api[u].pc \notin Working
      BY <3>2 DEF Counted
    <3>3. CASE u # t /\ api[u].pc \in Working
      <4>1. api[u].copy.id # i /\ Faithful(api[u].copy)
        BY <1>1, <3>3 DEF IInv, WorkIsExclusive, Apart, CopiesFaithful, HoldsCopy
      <4>2. api[u].copy.id \in Runs
        BY <4>1 DEF Faithful, Copies
      <4> QED
        BY <1>1, <3>3, <4>1, <4>2 DEF IInv, CallsCounted, Counted, CallsMove
    <3> QED
      BY <3>1, <3>2, <3>3
  <2> QED
    BY <2>1, <2>2, <2>3 DEF CallsCounted
<1> QED
  BY <1>3, <1>4, <1>5, <1>6, <1>7, <1>8 DEF IInv

LEMMA CoordinatorWorkIInv == IInv /\ (Prepare \/ Answered) => IInv'
<1> SUFFICES ASSUME IInv, Prepare \/ Answered PROVE IInv'
  OBVIOUS
<1>1. co \in Coordinators /\ Counted(co)
  BY DEF IInv, TypeOK, CallsCounted
<1>2. co.pc \in Working
  BY DEF Prepare, Answered, Working
<1>3. co.copy \in Copies
  BY <1>2 DEF IInv, CopiesFaithful, Faithful, HoldsCopy
<1>4. /\ co' \in Coordinators /\ co'.copy = co.copy /\ co'.page = co.page
      /\ \/ /\ co.pc = "preparing" /\ co'.pc = "recording"
            /\ UNCHANGED <<calls, returned>>
         \/ /\ co.pc = "preparing" /\ co'.pc = "asking"
            /\ calls' = [calls EXCEPT ![co.copy.id] = @ + 1] /\ UNCHANGED returned
         \/ /\ co.pc = "asking" /\ co'.pc = "recording"
            /\ returned' = [returned EXCEPT ![co.copy.id] = @ + 1] /\ UNCHANGED calls
  <2>1. CASE Prepare
    BY <1>1, <2>1, ZenonT(60) DEF Prepare, Coordinators, Working, Answers
  <2>2. CASE Answered
    BY <1>1, <2>2 DEF Answered, Coordinators, Working
  <2> QED
    BY <2>1, <2>2
<1>5. Works(co, co')
  BY <1>1, <1>2, <1>3, <1>4, Phases
<1>6. UNCHANGED <<made, rows, wake, api, up, faults>>
  BY DEF Prepare, Answered
<1>7. TypeOK'
  BY <1>4, <1>5, <1>6 DEF IInv, TypeOK, Works, CallsMove
<1> QED
  BY <1>4, <1>5, <1>6, <1>7, CoordinatorWorks

LEMMA HandlerWorkIInv ==
    ASSUME NEW t \in Threads, IInv, HandlerPrepare(t) \/ HandlerAnswered(t)
    PROVE  IInv'
<1>1. api \in [Threads -> Handlers] /\ Counted(api[t])
  BY DEF IInv, TypeOK, CallsCounted
<1>2. api[t].pc \in Working
  BY DEF HandlerPrepare, HandlerAnswered, Working
<1>3. api[t].copy \in Copies
  BY <1>2 DEF IInv, CopiesFaithful, Faithful, HoldsCopy
<1>4. /\ api' \in [Threads -> Handlers] /\ api'[t].copy = api[t].copy
      /\ \A u \in Threads : u # t => api'[u] = api[u]
      /\ \/ /\ api[t].pc = "preparing" /\ api'[t].pc = "recording"
            /\ UNCHANGED <<calls, returned>>
         \/ /\ api[t].pc = "preparing" /\ api'[t].pc = "asking"
            /\ calls' = [calls EXCEPT ![api[t].copy.id] = @ + 1] /\ UNCHANGED returned
         \/ /\ api[t].pc = "asking" /\ api'[t].pc = "recording"
            /\ returned' = [returned EXCEPT ![api[t].copy.id] = @ + 1] /\ UNCHANGED calls
  <2>1. CASE HandlerPrepare(t)
    BY <1>1, <2>1 DEF HandlerPrepare, Handlers, Working, Answers
  <2>2. CASE HandlerAnswered(t)
    BY <1>1, <2>2 DEF HandlerAnswered, Handlers, Working, Answers
  <2> QED
    BY <2>1, <2>2
<1>5. Works(api[t], api'[t])
  BY <1>1, <1>2, <1>3, <1>4, Phases
<1>6. UNCHANGED <<made, rows, wake, co, up, faults>>
  BY DEF HandlerPrepare, HandlerAnswered
<1>7. TypeOK'
  BY <1>4, <1>5, <1>6 DEF IInv, TypeOK, Works, CallsMove
<1> QED
  BY <1>4, <1>5, <1>6, <1>7, ThreadWorks

-----------------------------------------------------------------------------
(* Steps that change a row: claims, results, requeues and resets.           *)

\* The transaction: row i becomes r, and its attempts are not forgotten.
Rewrites(i, r) ==
    /\ i \in Runs /\ r \in Rows /\ Active(i)
    /\ RowShape(r) /\ r.def = rows[i].def
    /\ r.version = rows[i].version + 1 /\ r.attempts >= rows[i].attempts
    /\ rows' = [rows EXCEPT ![i] = r]
    /\ r.state = "pending" => calls[i] = returned[i]

\* Who has claimed row i with it.
Claims(m, i, r) ==
    /\ m.pc \in {"preparing", "recording"}
    /\ m.copy = [id |-> i, row |-> r]
    /\ r.state = "analyzing"
    /\ calls[i] = returned[i] /\ calls[i] < r.attempts

(* Whoever had nothing in hand, or works elsewhere, or on a run that has    *)
(* just ended, is as sound as before.                                       *)
LEMMA OthersKept ==
    ASSUME IInv, UNCHANGED <<made, calls, returned>>, NEW i, NEW r, Rewrites(i, r), NEW l,
           InWork(l), Counted(l), l.pc \in Working => Faithful(l.copy),
           l.pc \in Working /\ l.copy.id = i => r.state \in TerminalStates
    PROVE  /\ l.pc \in Working => \/ /\ rows'[l.copy.id].state = "analyzing"
                                     /\ rows'[l.copy.id].version = l.copy.row.version
                                  \/ rows'[l.copy.id].state \in TerminalStates
           /\ l.pc = "preparing" => calls[l.copy.id] < rows'[l.copy.id].attempts
<1>1. rows \in [Runs -> Rows \cup {NoRow}] /\ i \in Runs /\ rows' = [rows EXCEPT ![i] = r]
  BY DEF IInv, TypeOK, Rewrites
<1> SUFFICES ASSUME l.pc \in Working
             PROVE  /\ \/ /\ rows'[l.copy.id].state = "analyzing"
                          /\ rows'[l.copy.id].version = l.copy.row.version
                       \/ rows'[l.copy.id].state \in TerminalStates
                    /\ l.pc = "preparing" => calls[l.copy.id] < rows'[l.copy.id].attempts
  BY DEF Working
<1>2. l.copy.id \in Runs
  BY DEF Faithful, Copies
<1>3. l.pc = "preparing" => calls[l.copy.id] < rows[l.copy.id].attempts
  BY DEF Counted
<1>4. CASE l.copy.id = i
  <2>1. rows'[l.copy.id] = r
    BY <1>1, <1>4
  <2>2. rows[i] \in Rows /\ calls[i] \in Nat
    BY <1>1, BoundsAssumption
       DEF IInv, TypeOK, Rewrites, Active, NoRow, ActiveStates
  <2>3. calls[i] < rows[i].attempts /\ r.attempts >= rows[i].attempts => calls[i] < r.attempts
    BY <2>2, BoundsAssumption DEF Rewrites, Rows
  <2> QED
    BY <1>3, <1>4, <2>1, <2>3 DEF Rewrites
<1>5. CASE l.copy.id # i
  <2>1. rows'[l.copy.id] = rows[l.copy.id]
    BY <1>1, <1>2, <1>5
  <2> QED
    BY <1>3, <2>1 DEF InWork, Holds, Terminal
<1> QED
  BY <1>4, <1>5

(* What every transaction does, whoever runs it.                            *)
LEMMA RewriteFacts ==
    ASSUME IInv, UNCHANGED <<made, calls, returned>>, NEW i, NEW r, Rewrites(i, r)
    PROVE  /\ rows' \in [Runs -> Rows \cup {NoRow}]
           /\ \A k \in Runs : k <= made' <=> rows'[k] # NoRow
           /\ RowsShaped' /\ HistoryIsOver'
           /\ \A c : Faithful(c) => Faithful(c)'
           /\ NoBlindReplay'
           /\ \A k \in Runs : /\ returned'[k] <= calls'[k]
                              /\ rows'[k].state = "pending" => calls'[k] = returned'[k]
           /\ rows'[i] = r
           /\ \A c : c = [id |-> i, row |-> r] => Faithful(c)'
<1>1. /\ rows' \in [Runs -> Rows \cup {NoRow}]
      /\ \A k \in Runs : k <= made' <=> rows'[k] # NoRow
      /\ RowsShaped' /\ HistoryIsOver'
      /\ \A c : Faithful(c) => Faithful(c)'
  BY ActiveRowChanges DEF Rewrites
<1>2. /\ rows \in [Runs -> Rows \cup {NoRow}] /\ i \in Runs /\ rows' = [rows EXCEPT ![i] = r]
      /\ calls \in [Runs -> 0..MaxAttempts]
      /\ \A k \in Runs : k <= made <=> rows[k] # NoRow
  BY DEF IInv, TypeOK, Rewrites
<1>3. rows'[i] = r /\ \A k \in Runs : k # i => rows'[k] = rows[k]
  BY <1>2
<1>4. rows[i] \in Rows /\ i <= made
  BY <1>2 DEF Rewrites, Active, NoRow, ActiveStates
<1>5. NoBlindReplay'
  <2> SUFFICES ASSUME NEW k \in Runs
               PROVE  calls[k] <= returned[k] + 1 /\ calls[k] <= rows'[k].attempts
    BY DEF NoBlindReplay
  <2>1. calls[k] <= returned[k] + 1 /\ calls[k] <= rows[k].attempts
    BY DEF IInv, NoBlindReplay
  <2>2. CASE k = i
    <3>1. calls[i] \in Nat /\ rows[i].attempts \in Nat /\ r.attempts \in Nat
      BY <1>2, <1>4, BoundsAssumption DEF Rewrites, Rows
    <3> QED
      BY <1>3, <2>1, <2>2, <3>1 DEF Rewrites
  <2>3. CASE k # i
    BY <1>3, <2>1, <2>3
  <2> QED
    BY <2>2, <2>3
<1>6. \A k \in Runs : /\ returned'[k] <= calls'[k]
                      /\ rows'[k].state = "pending" => calls'[k] = returned'[k]
  BY <1>3 DEF IInv, CallsCounted, Rewrites
<1>7. ASSUME NEW c, c = [id |-> i, row |-> r] PROVE Faithful(c)'
  <2>1. c.id = i /\ c.row = r /\ c \in Copies
    BY <1>2, <1>7 DEF Rewrites, Copies
  <2>2. r.version <= r.version
    BY DEF Rewrites, Rows
  <2> QED
    BY <1>3, <1>4, <2>1, <2>2 DEF Faithful, Rewrites, RowShape
<1> QED
  BY <1>1, <1>3, <1>5, <1>6, <1>7

LEMMA CoordinatorRewrites ==
    ASSUME IInv, TypeOK', NEW i, NEW r, Rewrites(i, r),
           UNCHANGED <<made, api, calls, returned>>, co'.page = co.page,
           co'.pc \in HoldsCopy => Claims(co', i, r),
           \A t \in Threads :
              api[t].pc \in Working /\ api[t].copy.id = i => r.state \in TerminalStates
    PROVE  IInv'
<1>1. /\ RowsShaped' /\ HistoryIsOver'
      /\ \A c : Faithful(c) => Faithful(c)'
      /\ NoBlindReplay'
      /\ \A k \in Runs : /\ returned'[k] <= calls'[k]
                         /\ rows'[k].state = "pending" => calls'[k] = returned'[k]
      /\ rows'[i] = r
      /\ \A c : c = [id |-> i, row |-> r] => Faithful(c)'
  BY RewriteFacts
<1>2. CopiesFaithful'
  BY <1>1 DEF IInv, CopiesFaithful, Faithful, Claims
<1>3. CoordinatorKeepsItsRun'
  BY <1>1 DEF CoordinatorKeepsItsRun, Holds, HoldsCopy, Working, Claims
<1>4. ASSUME NEW t \in Threads
      PROVE  /\ api[t].pc \in Working =>
                    \/ /\ rows'[api[t].copy.id].state = "analyzing"
                       /\ rows'[api[t].copy.id].version = api[t].copy.row.version
                    \/ rows'[api[t].copy.id].state \in TerminalStates
             /\ api[t].pc = "preparing" =>
                    calls[api[t].copy.id] < rows'[api[t].copy.id].attempts
  BY OthersKept DEF IInv, WorkIsExclusive, CallsCounted, CopiesFaithful, HoldsCopy
<1>5. WorkIsExclusive'
  <2>1. ASSUME NEW t \in Threads PROVE InWork(api[t])'
    BY <1>4 DEF InWork, Holds, Terminal
  <2>2. ASSUME NEW t \in Threads PROVE Apart(co, api[t])'
    <3> SUFFICES ASSUME co'.pc \in Working, api[t].pc \in Working
                 PROVE  co'.copy.id # api[t].copy.id
      BY DEF Apart
    <3>1. co'.copy.id = i /\ r.state = "analyzing"
      BY DEF Claims, HoldsCopy
    <3> QED
      BY <3>1 DEF TerminalStates
  <2> QED
    BY <2>1, <2>2 DEF IInv, WorkIsExclusive, Apart
<1>6. CallsCounted'
  <2>1. Counted(co)'
    BY <1>1 DEF Counted, Claims, HoldsCopy
  <2>2. ASSUME NEW t \in Threads PROVE Counted(api[t])'
    BY <1>4 DEF IInv, CallsCounted, Counted
  <2> QED
    BY <1>1, <2>1, <2>2 DEF CallsCounted
<1> QED
  BY <1>1, <1>2, <1>3, <1>5, <1>6 DEF IInv

LEMMA ThreadRewrites ==
    ASSUME IInv, TypeOK', NEW t \in Threads, NEW i, NEW r, Rewrites(i, r),
           UNCHANGED <<made, co, calls, returned>>,
           \A u \in Threads : u # t => api'[u] = api[u],
           api'[t].pc \in HoldsCopy => Claims(api'[t], i, r),
           co.pc \in Working => co.copy.id # i,
           \A u \in Threads : u # t /\ api[u].pc \in Working => api[u].copy.id # i
    PROVE  IInv'
<1>1. /\ RowsShaped' /\ HistoryIsOver'
      /\ \A c : Faithful(c) => Faithful(c)'
      /\ NoBlindReplay'
      /\ \A k \in Runs : /\ returned'[k] <= calls'[k]
                         /\ rows'[k].state = "pending" => calls'[k] = returned'[k]
      /\ rows'[i] = r
      /\ \A c : c = [id |-> i, row |-> r] => Faithful(c)'
  BY RewriteFacts
<1>2. CopiesFaithful'
  <2>1. ASSUME NEW u \in Threads, api'[u].pc \in HoldsCopy PROVE Faithful(api[u].copy)'
    <3>1. CASE u = t
      BY <1>1, <2>1, <3>1 DEF Faithful, Claims
    <3>2. CASE u # t
      BY <1>1, <2>1, <3>2, SMTT(40) DEF IInv, CopiesFaithful, Faithful
    <3> QED
      BY <3>1, <3>2
  <2> QED
    BY <1>1, <2>1 DEF IInv, CopiesFaithful, Faithful
<1>3. CoordinatorKeepsItsRun'
  <2> SUFFICES ASSUME co.pc \in Working
               PROVE  /\ rows'[co.copy.id].state = "analyzing"
                      /\ rows'[co.copy.id].version = co.copy.row.version
    BY DEF CoordinatorKeepsItsRun, Holds, Working
  <2>1. Holds(co.copy, "analyzing") /\ co.copy.id # i /\ Faithful(co.copy)
    BY DEF IInv, CoordinatorKeepsItsRun, CopiesFaithful, HoldsCopy, Working
  <2>2. rows'[co.copy.id] = rows[co.copy.id]
    BY <2>1 DEF IInv, TypeOK, Rewrites, Faithful, Copies
  <2> QED
    BY <2>1, <2>2 DEF Holds
<1>4. ASSUME NEW u \in Threads, u # t
      PROVE  /\ api[u].pc \in Working =>
                    \/ /\ rows'[api[u].copy.id].state = "analyzing"
                       /\ rows'[api[u].copy.id].version = api[u].copy.row.version
                    \/ rows'[api[u].copy.id].state \in TerminalStates
             /\ api[u].pc = "preparing" =>
                    calls[api[u].copy.id] < rows'[api[u].copy.id].attempts
  BY <1>4, OthersKept DEF IInv, WorkIsExclusive, CallsCounted, CopiesFaithful, HoldsCopy
<1>5. api'[t].pc \in Working =>
        /\ api'[t].copy.id = i /\ rows'[i] = api'[t].copy.row
        /\ rows'[i].state = "analyzing"
  BY <1>1 DEF Claims, HoldsCopy
<1>6. WorkIsExclusive'
  <2>1. ASSUME NEW u \in Threads PROVE InWork(api[u])'
    <3>1. CASE u = t
      BY <1>5, <3>1 DEF InWork, Holds
    <3>2. CASE u # t
      BY <1>4, <3>2 DEF InWork, Holds, Terminal
    <3> QED
      BY <3>1, <3>2
  <2>2. ASSUME NEW u \in Threads PROVE Apart(co, api[u])'
    <3>1. CASE u = t
      BY <1>5, <3>1 DEF Apart
    <3>2. CASE u # t
      BY <3>2 DEF IInv, WorkIsExclusive, Apart
    <3> QED
      BY <3>1, <3>2
  <2>3. ASSUME NEW u \in Threads, NEW v \in Threads, u # v PROVE Apart(api[u], api[v])'
    <3>1. CASE u = t \/ v = t
      BY <1>5, <2>3, <3>1 DEF Apart
    <3>2. CASE u # t /\ v # t
      BY <2>3, <3>2 DEF IInv, WorkIsExclusive, Apart
    <3> QED
      BY <3>1, <3>2
  <2> QED
    BY <2>1, <2>2, <2>3 DEF WorkIsExclusive
<1>7. CallsCounted'
  <2>1. Counted(co)'
    <3> SUFFICES ASSUME co.pc \in Working PROVE Counted(co)'
      BY DEF Counted
    <3>1. rows'[co.copy.id] = rows[co.copy.id]
      BY DEF IInv, TypeOK, CopiesFaithful, HoldsCopy, Rewrites, Faithful, Copies
    <3> QED
      BY <3>1 DEF IInv, CallsCounted, Counted
  <2>2. ASSUME NEW u \in Threads PROVE Counted(api[u])'
    <3>1. CASE u = t
      BY <1>1, <3>1 DEF Counted, Claims, HoldsCopy
    <3>2. CASE u # t
      BY <1>4, <3>2 DEF IInv, CallsCounted, Counted
    <3> QED
      BY <3>1, <3>2
  <2> QED
    BY <1>1, <2>1, <2>2 DEF CallsCounted
<1> QED
  BY <1>1, <1>2, <1>3, <1>6, <1>7 DEF IInv

(* An active run moves to another state: ended, or back in the queue with   *)
(* an attempt left and every answer in.                                     *)
LEMMA MovedRewrites ==
    ASSUME IInv, NEW i \in Runs, rows[i].state = "analyzing",
           NEW s \in TerminalStates \cup {"pending"}, rows' = Moved(i, s),
           s = "pending" => rows[i].attempts < MaxAttempts /\ calls[i] = returned[i]
    PROVE  Rewrites(i, [rows[i] EXCEPT !.state = s, !.version = @ + 1])
<1> DEFINE r == [rows[i] EXCEPT !.state = s, !.version = @ + 1]
<1>1. rows[i] \in Rows /\ i \in 1..made
  BY DEF IInv, TypeOK, NoRow, Runs
<1>2. RowShape(rows[i])
  BY <1>1 DEF IInv, RowsShaped
<1>3. rows[i].version = 2 * rows[i].attempts /\ rows[i].attempts \in 0..MaxAttempts
  BY <1>1, <1>2 DEF RowShape, Rows
<1>4. /\ r.def = rows[i].def /\ r.state = s /\ r.attempts = rows[i].attempts
      /\ r.version = rows[i].version + 1
  BY <1>1 DEF Rows
<1>5. rows[i].version + 1 \in 1..LastVersion
  BY <1>1, <1>3, BoundsAssumption DEF LastVersion, Rows
<1>6. s \in ActiveStates \cup TerminalStates
  BY DEF ActiveStates
<1>7. r \in Rows
  BY <1>1, <1>5, <1>6 DEF Rows
<1>8. RowShape(r)
  BY <1>3, <1>4, BoundsAssumption DEF RowShape, TerminalStates
<1>9. rows' = [rows EXCEPT ![i] = r]
  BY <1>1 DEF IInv, TypeOK, Moved, Rows
<1>10. r.attempts >= rows[i].attempts
  BY <1>3, <1>4, BoundsAssumption
<1> HIDE DEF r
<1>11. Rewrites(i, r)
  BY <1>4, <1>7, <1>8, <1>9, <1>10 DEF Rewrites, Active, ActiveStates
<1> QED
  BY <1>11 DEF r

(* A claim counts the attempt before the work begins.                       *)
LEMMA ClaimRewrites ==
    ASSUME IInv, NEW c, Faithful(c), Holds(c, "pending"), rows' = Claimed(c.id)
    PROVE  /\ Rewrites(c.id, rows'[c.id])
           /\ rows'[c.id] \in Rows /\ rows'[c.id].state = "analyzing"
           /\ calls[c.id] = returned[c.id] /\ calls[c.id] < rows'[c.id].attempts
<1> DEFINE i == c.id
           r == [rows[i] EXCEPT !.state = "analyzing", !.version = @ + 1, !.attempts = @ + 1]
<1>1. i \in Runs /\ rows[i].state = "pending"
  BY DEF Faithful, Copies, Holds
<1>2. /\ rows[i] \in Rows /\ i \in 1..made
      /\ rows \in [Runs -> Rows \cup {NoRow}]
      /\ calls[i] \in Nat
  BY <1>1, BoundsAssumption DEF IInv, TypeOK, NoRow, Runs
<1>3. rows[i].attempts < MaxAttempts /\ rows[i].version = 2 * rows[i].attempts + 1
  BY <1>1, <1>2 DEF IInv, RowsShaped, RowShape
<1>4. rows[i].attempts \in 0..MaxAttempts /\ rows[i].version \in 1..LastVersion
  BY <1>2 DEF Rows
<1>5. /\ r.def = rows[i].def /\ r.state = "analyzing" /\ r.attempts = rows[i].attempts + 1
      /\ r.version = rows[i].version + 1
  BY <1>2 DEF Rows
<1>6. /\ rows[i].attempts + 1 \in 0..MaxAttempts
      /\ rows[i].version + 1 \in 1..LastVersion
      /\ rows[i].version + 1 = 2 * (rows[i].attempts + 1)
  BY <1>3, <1>4, BoundsAssumption DEF LastVersion
<1>7. r \in Rows
  BY <1>2, <1>6 DEF Rows, ActiveStates
<1>8. rows' = [rows EXCEPT ![i] = r] /\ rows'[i] = r
  BY <1>1, <1>2 DEF Claimed, Rows
<1> HIDE DEF r
<1>9. RowShape(r)
  BY <1>5, <1>6 DEF RowShape, TerminalStates
<1>10. calls[i] = returned[i] /\ calls[i] < r.attempts
  <2>1. calls[i] = returned[i]
    BY <1>1 DEF IInv, CallsCounted
  <2>2. calls[i] <= rows[i].attempts
    BY <1>1 DEF IInv, NoBlindReplay
  <2> QED
    BY <1>2, <1>4, <1>5, <2>1, <2>2, BoundsAssumption
<1>11. r.attempts >= rows[i].attempts
  BY <1>4, <1>5, BoundsAssumption
<1>12. Rewrites(i, r)
  BY <1>1, <1>5, <1>7, <1>8, <1>9, <1>10, <1>11 DEF Rewrites, Active, ActiveStates
<1> QED
  BY <1>5, <1>7, <1>8, <1>10, <1>12

(* Nobody works on a pending run, and nobody else on the one somebody holds.*)
LEMMA PendingIsFree ==
    ASSUME IInv, NEW i \in Runs, rows[i].state = "pending"
    PROVE  /\ co.pc \in Working => co.copy.id # i
           /\ \A t \in Threads : api[t].pc \in Working => api[t].copy.id # i
BY DEF IInv, CoordinatorKeepsItsRun, WorkIsExclusive, InWork, Holds, Terminal, TerminalStates,
       Working

(* A rewrite keeps the types of the rows; the rest of a transaction step    *)
(* has to keep those of the locals.                                         *)
LEMMA RewriteTypes ==
    ASSUME IInv, NEW i, NEW r, Rewrites(i, r),
           UNCHANGED <<made, wake, up, faults, calls, returned>>,
           co' \in Coordinators, api' \in [Threads -> Handlers]
    PROVE  TypeOK'
<1>1. /\ rows' \in [Runs -> Rows \cup {NoRow}]
      /\ \A k \in Runs : k <= made' <=> rows'[k] # NoRow
  BY RewriteFacts
<1> QED
  BY <1>1 DEF IInv, TypeOK

(* The coordinator leaves a run alone whose row has moved on.               *)
LEMMA LosesRun ==
    ASSUME IInv, UNCHANGED <<made, rows, wake, api, up, faults, calls, returned>>,
           co' \in Coordinators, co'.page = co.page, co'.pc \notin Working,
           co'.pc \in HoldsCopy => co.pc \in HoldsCopy /\ co'.copy = co.copy
    PROVE  IInv'
<1>1. TypeOK'
  BY DEF IInv, TypeOK
<1>2. InHand
  BY DEF IInv, CopiesFaithful, InHand, Kept
<1> QED
  BY <1>1, <1>2, QuietStep

LEMMA ResetIInv == IInv /\ Reset => IInv'
<1> SUFFICES ASSUME IInv, Reset PROVE IInv'
  OBVIOUS
<1>1. co \in Coordinators /\ co.pc = "resetting" /\ Faithful(co.copy)
  BY DEF IInv, TypeOK, CopiesFaithful, HoldsCopy, Reset
<1>2. UNCHANGED <<made, wake, api, up, faults, calls, returned>>
  BY DEF Reset
<1>3. CASE Holds(co.copy, "analyzing") /\ rows' = Moved(co.copy.id, "failed") /\ Onward(FALSE)
  <2> DEFINE i == co.copy.id
             r == [rows[i] EXCEPT !.state = "failed", !.version = @ + 1]
  <2>1. i \in Runs /\ rows[i].state = "analyzing" /\ rows' = Moved(i, "failed")
    BY <1>1, <1>3 DEF Faithful, Copies, Holds
  <2>2. Rewrites(i, r)
    BY <2>1, MovedRewrites, ZenonT(60) DEF TerminalStates
  <2>3. co' \in Coordinators /\ co'.page = co.page /\ co'.pc \notin HoldsCopy
    BY <1>1, <1>3, OnwardFacts DEF HoldsCopy, Working
  <2>4. r.state \in TerminalStates
    BY <2>1 DEF IInv, TypeOK, Rows, NoRow, TerminalStates
  <2>5. TypeOK'
    BY <1>2, <2>2, <2>3, RewriteTypes DEF IInv, TypeOK
  <2> QED
    BY <1>2, <2>2, <2>3, <2>4, <2>5, CoordinatorRewrites, ZenonT(60)
<1>4. CASE co' = [co EXCEPT !.pc = "rereading"] /\ UNCHANGED rows
  <2>1. /\ co' \in Coordinators /\ co'.page = co.page /\ co'.pc = "rereading"
        /\ co'.copy = co.copy
    BY <1>1, <1>4 DEF Coordinators
  <2> QED
    BY <1>1, <1>2, <1>4, <2>1, LosesRun DEF Working, HoldsCopy
<1> QED
  BY <1>3, <1>4 DEF Reset

LEMMA ClaimIInv == IInv /\ Claim => IInv'
<1> SUFFICES ASSUME IInv, Claim PROVE IInv'
  OBVIOUS
<1>1. co \in Coordinators /\ co.pc = "claiming" /\ Faithful(co.copy)
  BY DEF IInv, TypeOK, CopiesFaithful, HoldsCopy, Claim
<1>2. UNCHANGED <<made, wake, api, up, faults, calls, returned>>
  BY DEF Claim
<1>3. CASE /\ Claimable(co.copy, MaxAttempts) /\ rows' = Claimed(co.copy.id)
           /\ co' = [co EXCEPT !.pc = "preparing",
                               !.copy = [id |-> co.copy.id, row |-> rows'[co.copy.id]]]
  <2> DEFINE i == co.copy.id
  <2>1. Holds(co.copy, "pending") /\ i \in Runs /\ rows[i].state = "pending"
    BY <1>1, <1>3 DEF Claimable, Holds, Faithful, Copies
  <2>2. /\ Rewrites(i, rows'[i]) /\ rows'[i] \in Rows /\ rows'[i].state = "analyzing"
        /\ calls[i] = returned[i] /\ calls[i] < rows'[i].attempts
    BY <1>1, <1>3, <2>1, ClaimRewrites
  <2>3. [id |-> i, row |-> rows'[i]] \in Copies
    BY <2>1, <2>2 DEF Copies
  <2>4. /\ co' \in Coordinators /\ co'.page = co.page /\ co'.pc = "preparing"
        /\ co'.copy = [id |-> i, row |-> rows'[i]]
    BY <1>1, <1>3, <2>3 DEF Coordinators, Working
  <2>5. TypeOK'
    BY <1>2, <2>2, <2>4, RewriteTypes DEF IInv, TypeOK
  <2>6. Claims(co', i, rows'[i])
    BY <2>2, <2>4 DEF Claims
  <2>7. \A t \in Threads : api[t].pc \in Working => api[t].copy.id # i
    BY <2>1, PendingIsFree
  <2> QED
    BY <1>2, <2>2, <2>4, <2>5, <2>6, <2>7, CoordinatorRewrites
<1>4. CASE Onward(TRUE) /\ UNCHANGED rows
  BY <1>1, <1>2, <1>4, OnwardFacts, LosesRun DEF HoldsCopy, Working
<1> QED
  BY <1>3, <1>4 DEF Claim

LEMMA RecordIInv == IInv /\ Record => IInv'
<1> SUFFICES ASSUME IInv, Record PROVE IInv'
  OBVIOUS
<1>1. co \in Coordinators /\ co.pc = "recording" /\ Faithful(co.copy)
  BY DEF IInv, TypeOK, CopiesFaithful, HoldsCopy, Working, Record
<1>2. UNCHANGED <<made, wake, api, up, faults, calls, returned>>
  BY DEF Record
<1>3. CASE /\ Holds(co.copy, "analyzing") /\ Onward(FALSE)
           /\ rows' = Moved(co.copy.id, Outcome(co.copy, co.answer))
  <2> DEFINE i == co.copy.id
             s == Outcome(co.copy, co.answer)
             r == [rows[i] EXCEPT !.state = s, !.version = @ + 1]
  <2>1. i \in Runs /\ rows[i].state = "analyzing" /\ co.copy.row = rows[i]
    BY <1>1, <1>3 DEF Faithful, Copies, Holds
  <2>2. s \in TerminalStates \cup {"pending"}
    BY DEF Outcome, TerminalStates
  <2>3. s = "pending" => rows[i].attempts < MaxAttempts
    BY <2>1 DEF Outcome
  <2>4. calls[i] = returned[i]
    BY <1>1 DEF IInv, CallsCounted, Counted, Working
  <2> HIDE DEF s
  <2>5. Rewrites(i, r)
    BY <1>3, <2>1, <2>2, <2>3, <2>4, MovedRewrites DEF s
  <2>6. co' \in Coordinators /\ co'.page = co.page /\ co'.pc \notin HoldsCopy
    BY <1>1, <1>3, OnwardFacts DEF HoldsCopy, Working
  <2>7. TypeOK'
    BY <1>2, <2>5, <2>6, RewriteTypes DEF IInv, TypeOK
  <2>8. \A t \in Threads : api[t].pc \in Working => api[t].copy.id # i
    BY <1>1 DEF IInv, WorkIsExclusive, Apart, Working
  <2> QED
    BY <1>2, <2>5, <2>6, <2>7, <2>8, CoordinatorRewrites
<1>4. CASE Onward(TRUE) /\ UNCHANGED rows
  BY <1>1, <1>2, <1>4, OnwardFacts, LosesRun DEF HoldsCopy, Working
<1> QED
  BY <1>3, <1>4 DEF Record

(* A handler that finds its row moved on is done.                           *)
LEMMA HandlerDone ==
    ASSUME IInv, NEW t \in Threads, api' = [api EXCEPT ![t] = Resting],
           UNCHANGED <<made, rows, wake, co, up, faults, calls, returned>>
    PROVE  IInv'
<1>1. Resting \in Handlers /\ Resting.pc = "resting"
  BY DEF Resting, Handlers, Kinds
<1>2. api' \in [Threads -> Handlers] /\ \A u \in Threads : api'[u] = api[u] \/ api'[u] = Resting
  BY <1>1 DEF IInv, TypeOK
<1>3. TypeOK'
  BY <1>2 DEF IInv, TypeOK
<1>4. InHand
  BY <1>1, <1>2 DEF IInv, CopiesFaithful, InHand, Kept, HoldsCopy, Working
<1> QED
  BY <1>3, <1>4, QuietStep

LEMMA HandlerClaimIInv == ASSUME NEW t \in Threads, IInv, HandlerClaim(t) PROVE IInv'
<1> DEFINE c == api[t].copy
           i == c.id
<1>1. api \in [Threads -> Handlers] /\ co \in Coordinators /\ Faithful(c)
  BY DEF IInv, TypeOK, CopiesFaithful, HoldsCopy, HandlerClaim
<1>2. UNCHANGED <<made, wake, co, up, faults, calls, returned>>
  BY DEF HandlerClaim
<1>3. CASE /\ Claimable(c, LimitOf(api[t].kind)) /\ rows' = Claimed(i)
           /\ api' = [api EXCEPT
                ![t].pc = IF api[t].kind = "preview" THEN "recording" ELSE "preparing",
                ![t].answer = IF api[t].kind = "preview" THEN "ok" ELSE None,
                ![t].copy = [id |-> i, row |-> rows'[i]]]
  <2>1. Holds(c, "pending") /\ i \in Runs /\ rows[i].state = "pending"
    BY <1>1, <1>3 DEF Claimable, Holds, Faithful, Copies
  <2>2. /\ Rewrites(i, rows'[i]) /\ rows'[i] \in Rows /\ rows'[i].state = "analyzing"
        /\ calls[i] = returned[i] /\ calls[i] < rows'[i].attempts
    BY <1>1, <1>3, <2>1, ClaimRewrites
  <2>3. [id |-> i, row |-> rows'[i]] \in Copies
    BY <2>1, <2>2 DEF Copies
  <2>4. /\ api' \in [Threads -> Handlers]
        /\ api'[t].pc \in {"preparing", "recording"}
        /\ api'[t].copy = [id |-> i, row |-> rows'[i]]
        /\ \A u \in Threads : u # t => api'[u] = api[u]
    <3> DEFINE p == IF api[t].kind = "preview" THEN "recording" ELSE "preparing"
               a == IF api[t].kind = "preview" THEN "ok" ELSE None
               k == [id |-> i, row |-> rows'[i]]
    <3>1. p \in {"preparing", "recording"} /\ a \in Answers \cup {None} /\ k \in Copies
      BY <2>3 DEF Answers
    <3>2. api' = [api EXCEPT ![t].pc = p, ![t].answer = a, ![t].copy = k]
      BY <1>3
    <3> HIDE DEF p, a, k
    <3>3. /\ api' \in [Threads -> Handlers] /\ api'[t].pc = p /\ api'[t].copy = k
          /\ \A u \in Threads : u # t => api'[u] = api[u]
      BY <1>1, <3>1, <3>2, ZenonT(60) DEF Handlers, Working
    <3> QED
      BY <3>1, <3>3 DEF k
  <2>5. TypeOK'
    BY <1>1, <1>2, <2>2, <2>4, RewriteTypes
  <2>6. Claims(api'[t], i, rows'[i])
    BY <2>2, <2>4 DEF Claims
  <2>7. /\ co.pc \in Working => co.copy.id # i
        /\ \A u \in Threads : api[u].pc \in Working => api[u].copy.id # i
    BY <2>1, PendingIsFree
  <2> QED
    BY <1>2, <2>2, <2>4, <2>5, <2>6, <2>7, ThreadRewrites
<1>4. CASE api' = [api EXCEPT ![t] = Resting] /\ UNCHANGED rows
  BY <1>2, <1>4, HandlerDone
<1> QED
  BY <1>3, <1>4 DEF HandlerClaim

LEMMA HandlerRecordIInv == ASSUME NEW t \in Threads, IInv, HandlerRecord(t) PROVE IInv'
<1> DEFINE i == api[t].copy.id
           s == IF api[t].answer = "ok" THEN "analyzed" ELSE "failed"
           r == [rows[i] EXCEPT !.state = s, !.version = @ + 1]
<1>1. /\ api \in [Threads -> Handlers] /\ co \in Coordinators
      /\ api[t].pc = "recording" /\ Faithful(api[t].copy)
  BY DEF IInv, TypeOK, CopiesFaithful, HoldsCopy, Working, HandlerRecord
<1>2. /\ UNCHANGED <<made, wake, co, up, faults, calls, returned>>
      /\ api' = [api EXCEPT ![t] = Resting]
  BY DEF HandlerRecord
<1>3. CASE Holds(api[t].copy, "analyzing")
  <2>1. i \in Runs /\ rows[i].state = "analyzing" /\ rows' = Moved(i, s)
    BY <1>1, <1>3 DEF Faithful, Copies, Holds, HandlerRecord
  <2>2. s \in TerminalStates
    BY DEF TerminalStates
  <2> HIDE DEF s
  <2>3. Rewrites(i, r)
    BY <2>1, <2>2, MovedRewrites, ZenonT(60) DEF TerminalStates
  <2>4. Resting \in Handlers /\ Resting.pc \notin HoldsCopy
    BY DEF Resting, Handlers, Kinds, HoldsCopy, Working
  <2>5. /\ api' \in [Threads -> Handlers] /\ api'[t].pc \notin HoldsCopy
        /\ \A u \in Threads : u # t => api'[u] = api[u]
    BY <1>1, <1>2, <2>4
  <2>6. TypeOK'
    BY <1>1, <1>2, <2>3, <2>5, RewriteTypes
  <2>7. /\ co.pc \in Working => co.copy.id # i
        /\ \A u \in Threads : u # t /\ api[u].pc \in Working => api[u].copy.id # i
    BY <1>1 DEF IInv, WorkIsExclusive, Apart, Working
  <2> QED
    BY <1>2, <2>3, <2>5, <2>6, <2>7, ThreadRewrites
<1>4. CASE ~Holds(api[t].copy, "analyzing")
  BY <1>2, <1>4, HandlerDone DEF HandlerRecord
<1> QED
  BY <1>3, <1>4

-----------------------------------------------------------------------------
(* The theorems.                                                            *)

LEMMA NextIInv == IInv /\ [Next]_vars => IInv'
<1> SUFFICES ASSUME IInv, [Next]_vars PROVE IInv'
  OBVIOUS
<1>1. CASE Schedule \/ RequestManual
  BY <1>1, RequestIInv
<1>2. CASE Turning
  BY <1>2, TurningIInv
<1>3. CASE List \/ Take \/ Reread
  BY <1>3, ListIInv, TakeIInv, RereadIInv
<1>4. CASE Reset \/ Claim \/ Record
  BY <1>4, ResetIInv, ClaimIInv, RecordIInv
<1>5. CASE Prepare \/ Answered
  BY <1>5, CoordinatorWorkIInv
<1>6. ASSUME NEW t \in Threads, NEW k \in Kinds, Begin(t, k) PROVE IInv'
  BY <1>6, BeginIInv
<1>7. ASSUME NEW t \in Threads, Handle(t) PROVE IInv'
  BY <1>7, HandlerClaimIInv, HandlerWorkIInv, HandlerRecordIInv DEF Handle
<1>8. CASE Ending
  BY <1>8, EndingIInv
<1>9. CASE UNCHANGED vars
  <2>1. TypeOK'
    BY <1>9 DEF IInv, TypeOK, vars
  <2>2. InHand
    BY <1>9 DEF IInv, CopiesFaithful, InHand, Kept, vars
  <2> QED
    BY <1>9, <2>1, <2>2, QuietStep DEF vars
<1> QED
  BY <1>1, <1>2, <1>3, <1>4, <1>5, <1>6, <1>7, <1>8, <1>9
     DEF Next, Coordinate, Turning, Ending

(* The inductive invariant: rows have the shape their version tells, copies *)
(* are outdated or true, a run is in work at one place at most, and the     *)
(* submissions of a run follow from where it is in work.                    *)
THEOREM AnalysisInvariant == Spec => []IInv
<1> QED
  BY InitIInv, NextIInv, PTL DEF Spec

(* No run is tried more often than the coordinator's limit, whatever limits *)
(* the handlers claim under.                                                *)
THEOREM AnalysisTypeCorrect == Spec => []TypeOK
<1>1. IInv => TypeOK
  BY DEF IInv
<1> QED
  BY <1>1, AnalysisInvariant, PTL

(* Only the latest run of a definition can be unfinished.                   *)
THEOREM AnalysisHistoryIsOver == Spec => []HistoryIsOver
<1>1. IInv => HistoryIsOver
  BY DEF IInv
<1> QED
  BY <1>1, AnalysisInvariant, PTL

(* Nobody takes the coordinator's run from it while it works on it.         *)
THEOREM AnalysisKeepsRun == Spec => []CoordinatorKeepsItsRun
<1>1. IInv => CoordinatorKeepsItsRun
  BY DEF IInv
<1> QED
  BY <1>1, AnalysisInvariant, PTL

(* At most the last submission of a run has an outcome nobody saw, and each *)
(* was counted before it was made.                                          *)
THEOREM AnalysisNoBlindReplay == Spec => []NoBlindReplay
<1>1. IInv => NoBlindReplay
  BY SMTT(60) DEF IInv
<1> QED
  BY <1>1, AnalysisInvariant, PTL

(* What a step does to the row of a run that has ended: nothing.            *)
LEMMA EndedRowsStay ==
    ASSUME IInv, [Next]_vars, NEW i \in Runs, Terminal(i)
    PROVE  rows'[i] = rows[i]
<1>1. rows \in [Runs -> Rows \cup {NoRow}] /\ rows[i] # NoRow
  BY DEF IInv, TypeOK, Terminal, TerminalStates, NoRow
<1>2. ASSUME NEW d, Insert(d) PROVE rows'[i] = rows[i]
  <2>1. i # made + 1
    BY <1>1, BoundsAssumption DEF IInv, TypeOK, Runs
  <2> QED
    BY <1>1, <1>2, <2>1 DEF Insert
<1>3. ASSUME NEW c, Holds(c, "analyzing") \/ Holds(c, "pending"),
             \/ \E s : rows' = Moved(c.id, s)
             \/ rows' = Claimed(c.id)
      PROVE  rows'[i] = rows[i]
  <2>1. c.id # i
    BY <1>3 DEF Holds, Terminal, TerminalStates
  <2> QED
    BY <1>1, <1>3, <2>1 DEF Moved, Claimed
<1>4. CASE Schedule \/ RequestManual \/ \E t \in Threads, k \in Kinds : Begin(t, k)
  BY <1>2, <1>4 DEF Schedule, RequestManual, Begin
<1>5. CASE Reset \/ Claim \/ Record
  BY <1>3, <1>5 DEF Reset, Claim, Record, Claimable
<1>6. CASE \E t \in Threads : HandlerClaim(t) \/ HandlerRecord(t)
  BY <1>3, <1>6 DEF HandlerClaim, HandlerRecord, Claimable
<1>7. CASE UNCHANGED rows
  BY <1>7
<1> QED
  BY <1>4, <1>5, <1>6, <1>7, ZenonT(60)
     DEF Next, Coordinate, Handle, NotifyOther, Wake, List, Take, Finish, Backoff, Reread,
         Prepare, Answered, CoordinatorError, HandlerPrepare, HandlerAnswered, HandlerError,
         Stop, Start, vars

(* An ended run is evidence: no late result, claim or reset changes it.     *)
THEOREM AnalysisEvidence == Spec => EndedRunsAreEvidence
<1>1. IInv /\ [Next]_vars => [\A i \in Runs : Terminal(i) => rows'[i] = rows[i]]_vars
  BY EndedRowsStay
<1> QED
  BY <1>1, AnalysisInvariant, PTL DEF Spec, EndedRunsAreEvidence
=============================================================================
