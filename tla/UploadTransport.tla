---------------------------- MODULE UploadTransport ----------------------------
(* One upload session from its creation until validation claims it:             *)
(* UploadTransportService (application/upload_transport.py) between its row in  *)
(* the SQLite catalogue and its staged .part file in the quarantine.            *)
(*                                                                              *)
(* Row and file cannot change in one transaction.  A PATCH appends bytes to the *)
(* file, fsyncs it and only then advances the row's offset; what a crash or an  *)
(* error leaves between the two is repaired by the failing request, or by the   *)
(* next one.  Requests for the session queue for its lock (UploadSessionLock    *)
(* proves that one of them holds it) and ask for an offset the client learnt    *)
(* earlier.                                                                     *)
EXTENDS SequencesExt, FiniteSetsExt

CONSTANTS
    Requests,   \* identities of the requests in flight
    None,       \* nobody holds the lock; a request without a body
    Payloads,   \* contents a client may send, one per byte
    Declared,   \* declared_size_bytes
    MaxPatch    \* limits.max_patch_bytes

ASSUME TransportAssumption ==
    /\ None \notin Requests
    /\ Declared \in Nat \ {0}
    /\ MaxPatch \in Nat \ {0}

VARIABLES
    row,        \* the durable upload_sessions row
    file,       \* the staged file: whether it exists, its bytes, how many are durable
    expired,    \* the clock passed expires_at_ms
    holder,     \* the request whose lease holds the session's lock
    req,        \* request -> its next step, what the client asked, the row it
                \* loaded under the lock, the bytes of its body written so far
    acked,      \* history: the bytes whose offset advance committed
    damaged,    \* history: somebody else shortened or removed the staged file
    calm        \* no more faults, crashes, disconnects or damage from here on

vars == <<row, file, expired, holder, req, acked, damaged, calm>>

Terminal == {"cancelled", "expired", "failed"}
States == {"absent", "created", "receiving", "received", "validating"} \cup Terminal

\* ALLOWED_UPLOAD_SESSION_TRANSITIONS up to the validating state.
Allowed ==
    [s \in States |->
        CASE s = "created"   -> {"receiving"} \cup Terminal
          [] s = "receiving" -> {"received"} \cup Terminal
          [] s = "received"  -> {"validating"} \cup Terminal
          [] s = "validating" -> {"failed"}
          [] OTHER           -> {}]

Rows == [state : States, received : 0..Declared, version : Nat]

Absent == [state |-> "absent", received |-> 0, version |-> 0]

\* A request that is not being served.
Idle == [pc |-> "idle", kind |-> "none", offset |-> 0, seen |-> Absent,
         length |-> 0, payload |-> None, wrote |-> 0]

Missing == [exists |-> FALSE, bytes |-> <<>>, synced |-> 0]
Size == Len(file.bytes)

\* What ftruncate followed by fsync leaves.
TruncatedTo(n) == [exists |-> TRUE, bytes |-> SubSeq(file.bytes, 1, n), synced |-> n]

--------------------------------------------------------------------------------
Init ==
    /\ row = Absent
    /\ file = Missing
    /\ expired = FALSE
    /\ holder = None
    /\ req = [r \in Requests |-> Idle]
    /\ acked = <<>>
    /\ damaged = FALSE
    /\ calm = FALSE

(* create_session inserts the row; the staged file appears with the first PATCH. *)
CreateSession ==
    /\ row.state = "absent"
    /\ row' = [row EXCEPT !.state = "created"]
    /\ UNCHANGED <<file, expired, holder, req, acked, damaged, calm>>

(* A client's request, or the validation coordinator's claim, reaches the lock. *)
Arrive(r, kind, offset) ==
    /\ req[r] = Idle
    /\ row.state # "absent"
    /\ req' = [req EXCEPT ![r].pc = "queued", ![r].kind = kind, ![r].offset = offset]
    /\ UNCHANGED <<row, file, expired, holder, acked, damaged, calm>>

--------------------------------------------------------------------------------
(* The lease ends, with a response or an error; nothing volatile remains.       *)
Finish(r) ==
    /\ holder' = None
    /\ req' = [req EXCEPT ![r] = Idle]

Goto(r, step) ==
    /\ req' = [req EXCEPT ![r].pc = step]
    /\ UNCHANGED holder

Fits(j) == j.offset + j.length <= Declared

(* receive_chunk up to its first effect: the offset must be the persisted one   *)
(* and the session open.                                                        *)
PatchEntry(s, j) ==
    IF s.received # j.offset THEN "done"
    ELSE IF s.state = "created" THEN "starting"
    ELSE IF s.state = "receiving" /\ Fits(j) THEN "reconciling" ELSE "done"

CompleteEntry(s) == IF s.state \in {"received", "receiving"} THEN "checking" ELSE "done"

CancelEntry(s) ==
    IF s.state = "cancelled" THEN "removing"
    ELSE IF s.state \in {"expired", "failed"} THEN "done" ELSE "cancelling"

(* What a request does with the row it loads under the lock.  PATCH and         *)
(* complete expire the session first; cancel and validation do not look at the  *)
(* clock.                                                                       *)
FirstStep(s, j) ==
    CASE j.kind = "cancel"   -> CancelEntry(s)
      [] j.kind = "validate" -> IF s.state = "received" THEN "claiming" ELSE "done"
      [] OTHER ->
            IF expired /\ s.state \notin Terminal THEN "expiring"
            ELSE IF j.kind = "patch" THEN PatchEntry(s, j) ELSE CompleteEntry(s)

\* Mutant: the body runs without the lock.
AcquireUnlocked(r, length, payload) ==
    LET j == [req[r] EXCEPT !.seen = row, !.length = length, !.payload = payload]
        step == FirstStep(row, j)
    IN
    /\ req[r].pc = "queued"
    /\ req' = [req EXCEPT ![r] = IF step = "done" THEN Idle ELSE [j EXCEPT !.pc = step]]
    /\ holder' = IF step = "done" THEN holder ELSE r
    /\ UNCHANGED <<row, file, expired, acked, damaged, calm>>

(* The lock is granted and the row is loaded.  What the body of a PATCH will be *)
(* shows only now.                                                              *)
Acquire(r, length, payload) ==
    LET j == [req[r] EXCEPT !.seen = row, !.length = length, !.payload = payload]
        step == FirstStep(row, j)
    IN
    /\ req[r].pc = "queued"
    /\ holder = None
    /\ req' = [req EXCEPT ![r] = IF step = "done" THEN Idle ELSE [j EXCEPT !.pc = step]]
    /\ holder' = IF step = "done" THEN None ELSE r
    /\ UNCHANGED <<row, file, expired, acked, damaged, calm>>

AcquirePatch(r) ==
    /\ req[r].kind = "patch"
    /\ \E length \in 1..MaxPatch, payload \in Payloads : Acquire(r, length, payload)

AcquireOther(r) ==
    /\ req[r].kind # "patch"
    /\ Acquire(r, 0, None)

--------------------------------------------------------------------------------
(* UploadSessionRepository.transition_state: a compare-and-swap on state and    *)
(* version; a state that needs every byte also compares the offsets.            *)
Swaps(from, target) ==
    /\ target \in Allowed[from.state]
    /\ row.state = from.state
    /\ row.version = from.version
    /\ target \in {"received", "validating"} => row.received = Declared

Swapped(target) == [row EXCEPT !.state = target, !.version = @ + 1]

(* _transition: it commits and the request goes on; or it is refused, or the    *)
(* database fails before or after the commit, and the request ends.             *)
Transition(r, from, target, step) ==
    \/ /\ Swaps(from, target)
       /\ row' = Swapped(target)
       /\ IF step = "done" THEN Finish(r) ELSE Goto(r, step)
    \/ /\ ~calm /\ Swaps(from, target)
       /\ row' = Swapped(target)
       /\ Finish(r)
    \/ /\ ~calm \/ ~Swaps(from, target)
       /\ UNCHANGED row
       /\ Finish(r)

(* The first PATCH opens the session; its size is compared after that.          *)
StartReceiving(r) ==
    /\ req[r].pc = "starting"
    /\ \/ /\ Swaps(req[r].seen, "receiving")
          /\ row' = Swapped("receiving")
          /\ IF Fits(req[r])
             THEN /\ req' = [req EXCEPT ![r].pc = "reconciling", ![r].seen = row']
                  /\ UNCHANGED holder
             ELSE Finish(r)
       \/ /\ ~calm
          /\ row' \in {row, Swapped("receiving")}
          /\ Finish(r)
    /\ UNCHANGED <<file, expired, acked, damaged, calm>>

(* _expire_if_needed *)
Expire(r) ==
    /\ req[r].pc = "expiring"
    /\ Transition(r, req[r].seen, "expired", "done")
    /\ UNCHANGED <<file, expired, acked, damaged, calm>>

(* _fail_inconsistent_session and _fail_authoritative_inconsistent_session.     *)
FailSession(r) ==
    /\ req[r].pc = "failing"
    /\ Transition(r, req[r].seen, "failed", "done")
    /\ UNCHANGED <<file, expired, acked, damaged, calm>>

(* _fail_session_after_unverified_rollback: with the row as it is now.          *)
Condemn(r) ==
    /\ req[r].pc = "condemning"
    /\ Transition(r, row, "failed", "done")
    /\ UNCHANGED <<file, expired, acked, damaged, calm>>

--------------------------------------------------------------------------------
Ahead(n) == file.exists /\ Size > n
Behind(n) == ~file.exists \/ Size < n

\* Mutant: a file that is ahead is refused like one that is behind, but forever.
PrepareRefusing(r) ==
    LET n == req[r].seen.received IN
    /\ req[r].pc = "reconciling"
    /\ \/ /\ IF file.exists THEN Size = n ELSE n = 0
          /\ file' = [file EXCEPT !.exists = TRUE]
          /\ Goto(r, "receiving")
       \/ /\ IF file.exists THEN Size # n ELSE n > 0
          /\ Finish(r) /\ UNCHANGED file
    /\ UNCHANGED <<row, expired, acked, damaged, calm>>

(* _reconcile_file_before_write and open_writer: cut unacknowledged bytes off,  *)
(* create the file for a first PATCH, fail the session when bytes are missing;  *)
(* a storage error ends the request.                                            *)
Prepare(r) ==
    LET n == req[r].seen.received IN
    /\ req[r].pc = "reconciling"
    /\ \/ /\ ~file.exists /\ n = 0
          /\ file' = [Missing EXCEPT !.exists = TRUE]
          /\ Goto(r, "receiving")
       \/ /\ file.exists /\ Size = n
          /\ Goto(r, "receiving") /\ UNCHANGED file
       \/ /\ Ahead(n)
          /\ file' = TruncatedTo(n)
          /\ Goto(r, "receiving")
       \/ /\ Behind(n) /\ (file.exists \/ n > 0)
          /\ Goto(r, "failing") /\ UNCHANGED file
       \/ /\ ~calm
          /\ file' \in {file} \cup (IF Ahead(n) THEN {TruncatedTo(n)} ELSE {})
          /\ Finish(r)
    /\ UNCHANGED <<row, expired, acked, damaged, calm>>

(* One byte of the body arrives and is written at the file descriptor's place.  *)
WriteByte(r) ==
    LET at == req[r].seen.received + req[r].wrote IN
    /\ req[r].pc = "receiving"
    /\ req[r].wrote < req[r].length
    /\ file' = [file EXCEPT
          !.bytes = SubSeq(@, 1, at) \o <<req[r].payload>> \o SubSeq(@, at + 2, Len(@)),
          !.synced = Min({@, at})]
    /\ req' = [req EXCEPT ![r].wrote = @ + 1]
    /\ UNCHANGED <<row, expired, holder, acked, damaged, calm>>

(* The client disconnects or sends too little or too much, or a write or the    *)
(* fsync fails.                                                                 *)
AbortBody(r) ==
    /\ req[r].pc = "receiving"
    /\ ~calm
    /\ Goto(r, "recovering")
    /\ UNCHANGED <<row, file, expired, acked, damaged, calm>>

(* flush_and_fsync once the body is complete.                                   *)
Fsync(r) ==
    /\ req[r].pc = "receiving"
    /\ req[r].wrote = req[r].length
    /\ file' = [file EXCEPT !.synced = Size]
    /\ Goto(r, "advancing")
    /\ UNCHANGED <<row, expired, acked, damaged, calm>>

(* advance_received_offset, a compare-and-swap; a database error may come after *)
(* the commit.                                                                  *)
Advance(r) ==
    LET fresh == /\ row.state = "receiving"
                 /\ row.received = req[r].seen.received
                 /\ row.version = req[r].seen.version
                 /\ row.received + req[r].length <= Declared
        next == [row EXCEPT !.received = @ + req[r].length, !.version = @ + 1]
        sent == [i \in 1..req[r].length |-> req[r].payload]
    IN
    /\ req[r].pc = "advancing"
    /\ \/ /\ fresh
          /\ row' = next /\ acked' = acked \o sent
          /\ Finish(r)
       \/ /\ ~calm /\ fresh
          /\ row' = next /\ acked' = acked \o sent
          /\ Goto(r, "recovering")
       \/ /\ ~calm \/ ~fresh
          /\ UNCHANGED <<row, acked>>
          /\ Goto(r, "recovering")
    /\ UNCHANGED <<file, expired, damaged, calm>>

\* Mutant: the rollback trusts the offset it started from, not the row.
RecoverBlindly(r) ==
    /\ req[r].pc = "recovering"
    /\ file' = TruncatedTo(req[r].seen.received)
    /\ Finish(r)
    /\ UNCHANGED <<row, expired, acked, damaged, calm>>

(* _recover_failed_patch: if the offset did not advance, roll the file back to  *)
(* it and verify; if it did (_recover_advanced_patch), the row is authoritative *)
(* and the file follows it.  The row's offset is never below the one loaded.    *)
Recover(r) ==
    LET n == row.received
        advanced == n > req[r].seen.received
    IN
    /\ req[r].pc = "recovering"
    /\ \/ /\ ~advanced
          /\ file' = TruncatedTo(n)
          /\ Finish(r)
       \/ /\ advanced /\ file.exists /\ Size >= n
          /\ file' = IF Size = n THEN file ELSE TruncatedTo(n)
          /\ Finish(r)
       \/ /\ advanced /\ Behind(n)
          /\ req' = [req EXCEPT ![r].pc = "failing", ![r].seen = row]
          /\ UNCHANGED <<holder, file>>
       \/ /\ ~calm /\ ~advanced
          /\ file' \in {file, TruncatedTo(n)}
          /\ Goto(r, "condemning")
       \/ /\ ~calm /\ advanced
          /\ \/ Finish(r)
             \/ Goto(r, "condemning")
          /\ UNCHANGED file
    /\ UNCHANGED <<row, expired, acked, damaged, calm>>

--------------------------------------------------------------------------------
\* Mutant: the file's size is not compared.
CheckNothing(r) ==
    /\ req[r].pc = "checking"
    /\ IF req[r].seen.state = "receiving" /\ req[r].seen.received = Declared
       THEN Goto(r, "accepting") ELSE Finish(r)
    /\ UNCHANGED <<row, file, expired, acked, damaged, calm>>

(* complete: _ensure_complete_file or _ensure_file_matches_received_size.  Any  *)
(* difference fails the session, after unacknowledged bytes were cut off.       *)
CheckStaged(r) ==
    LET n == req[r].seen.received IN
    /\ req[r].pc = "checking"
    /\ \/ /\ file.exists /\ Size = n
          /\ IF req[r].seen.state = "receiving" /\ n = Declared
             THEN Goto(r, "accepting") ELSE Finish(r)
          /\ UNCHANGED file
       \/ /\ Ahead(n)
          /\ file' = TruncatedTo(n)
          /\ Goto(r, "failing")
       \/ /\ Behind(n)
          /\ Goto(r, "failing") /\ UNCHANGED file
       \/ /\ ~calm
          /\ \/ Finish(r)
             \/ Goto(r, "failing")
          /\ UNCHANGED file
    /\ UNCHANGED <<row, expired, acked, damaged, calm>>

(* The session is received: every byte the client declared is staged.           *)
Accept(r) ==
    /\ req[r].pc = "accepting"
    /\ Transition(r, req[r].seen, "received", "done")
    /\ UNCHANGED <<file, expired, acked, damaged, calm>>

(* _cancel_owned: first the row, then the file.                                 *)
CancelRow(r) ==
    /\ req[r].pc = "cancelling"
    /\ Transition(r, req[r].seen, "cancelled", "removing")
    /\ UNCHANGED <<file, expired, acked, damaged, calm>>

(* _remove_cancelled_file: a failure is reported and cancel may be repeated.    *)
RemoveFile(r) ==
    /\ req[r].pc = "removing"
    /\ \/ file' = Missing
       \/ ~calm /\ UNCHANGED file
    /\ Finish(r)
    /\ UNCHANGED <<row, expired, acked, damaged, calm>>

(* start_validation: the validation coordinator claims the session.             *)
Claim(r) ==
    /\ req[r].pc = "claiming"
    /\ Transition(r, req[r].seen, "validating", "done")
    /\ UNCHANGED <<file, expired, acked, damaged, calm>>

--------------------------------------------------------------------------------
(* Wall-clock time passes expires_at_ms.                                        *)
ClockExpires ==
    /\ ~expired
    /\ row.state # "absent"
    /\ expired' = TRUE
    /\ UNCHANGED <<row, file, holder, req, acked, damaged, calm>>

Volatile ==
    /\ ~calm
    /\ row.state # "absent"
    /\ holder' = None
    /\ req' = [r \in Requests |-> Idle]
    /\ UNCHANGED <<row, expired, acked, damaged, calm>>

(* The process stops, or a request's task is cancelled by the shutdown: no      *)
(* handler runs, the written bytes stay.                                        *)
ProcessStops == Volatile /\ UNCHANGED file

(* The machine stops: bytes that were not fsynced may be gone, and so may a     *)
(* file that never was.                                                         *)
PowerLoss ==
    /\ Volatile
    /\ file.exists
    /\ file' \in {TruncatedTo(n) : n \in file.synced..Size}
                   \cup (IF file.synced = 0 THEN {Missing} ELSE {})

(* Something outside FrameNest shortens or removes the idle session's file.     *)
Damage ==
    /\ ~calm
    /\ holder = None
    /\ file.exists
    /\ file' \in {TruncatedTo(n) : n \in 0..(Size - 1)} \cup {Missing}
    /\ damaged' = TRUE
    /\ UNCHANGED <<row, expired, holder, req, acked, calm>>

(* From here on nothing fails: only the liveness property looks at it.          *)
CalmDown ==
    /\ ~calm
    /\ calm' = TRUE
    /\ UNCHANGED <<row, file, expired, holder, req, acked, damaged>>

--------------------------------------------------------------------------------
(* The next step of a request that holds the lock.                              *)
Step(r) ==
    \/ StartReceiving(r) \/ Expire(r)
    \/ Prepare(r) \/ WriteByte(r) \/ Fsync(r) \/ Advance(r) \/ Recover(r)
    \/ CheckStaged(r) \/ Accept(r)
    \/ CancelRow(r) \/ RemoveFile(r) \/ Claim(r)
    \/ FailSession(r) \/ Condemn(r)

Next ==
    \/ CreateSession
    \/ \E r \in Requests :
        \/ \E offset \in 0..Declared : Arrive(r, "patch", offset)
        \/ \E kind \in {"complete", "cancel", "validate"} : Arrive(r, kind, 0)
        \/ AcquirePatch(r) \/ AcquireOther(r)
        \/ Step(r)
        \/ AbortBody(r)
    \/ ClockExpires \/ ProcessStops \/ PowerLoss \/ Damage \/ CalmDown

Spec == Init /\ [][Next]_vars

(* The client asks the server where the session is, goes on there with a body   *)
(* that fits, and completes the session once every byte is in.                  *)
Resume(r) ==
    \/ row.received < Declared /\ Arrive(r, "patch", row.received)
    \/ row.received = Declared /\ Arrive(r, "complete", 0)

Grant(r) ==
    \/ /\ req[r].kind = "patch" /\ req[r].offset = row.received
       /\ \E payload \in Payloads : Acquire(r, 1, payload)
    \/ /\ req[r].kind = "complete" /\ row.received = Declared
       /\ AcquireOther(r)

Serve(r) == Step(r) \/ AcquirePatch(r) \/ AcquireOther(r)

(* A lease that is wanted is granted and its holder goes on.  The client does   *)
(* not give up, and the lock is handed out in the order of arrival              *)
(* (UploadSessionLock), so its request is not passed over for ever.  Which of   *)
(* the requests are served is left open.                                        *)
Fairness ==
    /\ WF_vars(\E r \in Requests : Serve(r))
    /\ SF_vars(\E r \in Requests : Resume(r))
    /\ SF_vars(\E r \in Requests : Grant(r))

FairSpec == Spec /\ Fairness

--------------------------------------------------------------------------------
(* Every variable keeps its shape; the offset stays within the declared size.   *)
TypeOK ==
    /\ row \in Rows
    /\ file \in [exists : BOOLEAN, bytes : Seq(Payloads), synced : Nat]
    /\ file.synced <= Size /\ (~file.exists => file = Missing)
    /\ expired \in BOOLEAN
    /\ holder \in Requests \cup {None}
    /\ req \in [Requests ->
          [pc : {"idle", "queued", "starting", "expiring", "reconciling", "receiving",
                 "advancing", "recovering", "condemning", "failing", "checking",
                 "accepting", "cancelling", "removing", "claiming"},
           kind : {"none", "patch", "complete", "cancel", "validate"},
           offset : 0..Declared, seen : Rows, length : 0..MaxPatch,
           payload : Payloads \cup {None}, wrote : 0..MaxPatch]]
    /\ acked \in Seq(Payloads)
    /\ damaged \in BOOLEAN
    /\ calm \in BOOLEAN

(* Bytes the server acknowledged are never lost and never overwritten while the *)
(* session lives, whatever crashes, rollbacks, retries and competing requests   *)
(* do: the fsynced file begins with exactly those bytes.                        *)
AcknowledgedBytesKept ==
    row.state # "cancelled" /\ ~damaged =>
        /\ Len(acked) = row.received
        /\ row.received <= file.synced
        /\ SubSeq(file.bytes, 1, row.received) = acked

(* The file of a finished session is not written or created again: no retry     *)
(* or queued PATCH brings bytes back after a cancel.                            *)
NothingAfterTheEnd ==
    [][row.state \in Terminal => row' = row /\ Len(file'.bytes) <= Size
                                 /\ (file'.exists => file.exists)]_vars

(* Whatever happened, once faults cease a client that resumes from the offset   *)
(* the server reports brings its session to an end: never a session that        *)
(* accepts neither bytes nor completion.                                        *)
ResumesAfterFaults == []<>~(calm /\ row.state \in {"created", "receiving"})
================================================================================
