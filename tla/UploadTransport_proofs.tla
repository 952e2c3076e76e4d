-------------------------- MODULE UploadTransport_proofs --------------------------
(******************************************************************************)
(* Proofs about upload_transport.py: the lock registry for any number of      *)
(* coroutines and sessions, and the transport of one upload session for any   *)
(* number of requests, bytes, faults, crashes and losses of power.            *)
(******************************************************************************)
EXTENDS UploadTransport, UploadSessionLock, SequenceTheorems, FiniteSetTheorems, TLAPS

-----------------------------------------------------------------------------
(* The lock registry.                                                        *)

(* Concatenation, element by element. *)
LEMMA ConcatFacts ==
    ASSUME NEW S, NEW a \in Seq(S), NEW b \in Seq(S)
    PROVE  /\ a \o b \in Seq(S)
           /\ Len(a \o b) = Len(a) + Len(b)
           /\ \A k \in 1..(Len(a) + Len(b)) :
                (a \o b)[k] = IF k <= Len(a) THEN a[k] ELSE b[k - Len(a)]
  OBVIOUS

(* What removing one queued future does: the queue keeps its order and loses    *)
(* exactly that coroutine.                                                      *)
LEMMA WithoutFacts ==
    ASSUME NEW S, NEW q \in Seq(S), NEW c \in S,
           NEW i \in DOMAIN q, q[i] = c,
           \A j, k \in DOMAIN q : q[j] = q[k] => j = k
    PROVE  /\ Without(q, c) \in Seq(S)
           /\ Len(Without(q, c)) = Len(q) - 1
           /\ \A k \in 1..(Len(q) - 1) :
                Without(q, c)[k] = IF k < i THEN q[k] ELSE q[k + 1]
<1> DEFINE n == Len(q)
           a == SubSeq(q, 1, i - 1)
           b == SubSeq(q, i + 1, n)
           w == Without(q, c)
<1>1. (CHOOSE j \in DOMAIN q : q[j] = c) = i
  OBVIOUS
<1>2. w = a \o b
  BY <1>1 DEF Without, RemoveAt
<1>3. i \in 1..n /\ n \in Nat
  OBVIOUS
<1>4. /\ a \in Seq(S) /\ Len(a) = i - 1
      /\ \A k \in 1..(i - 1) : a[k] = q[k]
  BY <1>3
<1>5. /\ b \in Seq(S) /\ Len(b) = n - i
      /\ \A k \in 1..(n - i) : b[k] = q[i + k]
  BY <1>3
<1> HIDE DEF a, b, n, w
<1>6. /\ w \in Seq(S)
      /\ Len(w) = n - 1
      /\ \A k \in 1..(n - 1) : w[k] = IF k <= i - 1 THEN a[k] ELSE b[k - (i - 1)]
  <2>1. Len(a) + Len(b) = n - 1
    BY <1>3, <1>4, <1>5
  <2>2. a \in Seq(S) /\ b \in Seq(S)
    BY <1>4, <1>5
  <2>3. /\ a \o b \in Seq(S)
        /\ Len(a \o b) = Len(a) + Len(b)
        /\ \A k \in 1..(Len(a) + Len(b)) :
              (a \o b)[k] = IF k <= Len(a) THEN a[k] ELSE b[k - Len(a)]
    BY <2>2, ConcatFacts, ZenonT(60)
  <2>4. Len(a) = i - 1
    BY <1>4
  <2> QED
    BY <1>2, <2>1, <2>3, <2>4
<1>7. ASSUME NEW k \in 1..(n - 1)
      PROVE  w[k] = IF k < i THEN q[k] ELSE q[k + 1]
  <2>1. CASE k <= i - 1
    <3>1. k \in 1..(i - 1) /\ k < i
      BY <2>1, <1>3
    <3> QED
      BY <2>1, <3>1, <1>4, <1>6
  <2>2. CASE ~(k <= i - 1)
    <3>1. k - (i - 1) \in 1..(n - i) /\ i + (k - (i - 1)) = k + 1 /\ ~(k < i)
      BY <2>2, <1>3
    <3>2. b[k - (i - 1)] = q[k + 1]
      BY <3>1, <1>5
    <3> QED
      BY <2>2, <3>1, <3>2, <1>6
  <2> QED
    BY <2>1, <2>2
<1> QED
  BY <1>6, <1>7 DEF n, w

(* Which coroutines a queue still holds once one future left it: all others,    *)
(* once each, and the head stays the head.                                      *)
LEMMA WithoutMembers ==
    ASSUME NEW S, NEW q \in Seq(S), NEW c \in S,
           NEW i \in DOMAIN q, q[i] = c,
           \A j, k \in DOMAIN q : q[j] = q[k] => j = k
    PROVE  /\ \A k \in DOMAIN Without(q, c) :
                Without(q, c)[k] # c /\ \E j \in DOMAIN q : Without(q, c)[k] = q[j]
           /\ \A j, k \in DOMAIN Without(q, c) :
                Without(q, c)[j] = Without(q, c)[k] => j = k
           /\ \A j \in DOMAIN q : q[j] # c =>
                \E k \in DOMAIN Without(q, c) : Without(q, c)[k] = q[j]
           /\ q[1] # c => Without(q, c)[1] = q[1]
<1> DEFINE w == Without(q, c)
           At(k) == IF k < i THEN k ELSE k + 1
<1>1. /\ w \in Seq(S)
      /\ Len(w) = Len(q) - 1
      /\ \A k \in 1..(Len(q) - 1) : w[k] = IF k < i THEN q[k] ELSE q[k + 1]
  BY WithoutFacts
<1> HIDE DEF w
<1>2. /\ DOMAIN q = 1..Len(q) /\ Len(q) \in Nat /\ i \in 1..Len(q)
      /\ DOMAIN w = 1..(Len(q) - 1)
  BY <1>1
<1>3. \A k \in DOMAIN w : At(k) \in DOMAIN q /\ At(k) # i
  BY <1>2
<1>4. \A k \in DOMAIN w : w[k] = q[At(k)]
  BY <1>1, <1>2
<1>5. \A j, k \in DOMAIN w : At(j) = At(k) => j = k
  BY <1>2
<1>6. \A j \in DOMAIN q : j # i => \E k \in DOMAIN w : At(k) = j
  <2> SUFFICES ASSUME NEW j \in DOMAIN q, j # i PROVE \E k \in DOMAIN w : At(k) = j
    OBVIOUS
  <2>1. CASE j < i
    BY <2>1, <1>2
  <2>2. CASE ~(j < i)
    <3>1. j - 1 \in DOMAIN w /\ At(j - 1) = j
      BY <2>2, <1>2
    <3> QED
      BY <3>1
  <2> QED
    BY <2>1, <2>2
<1>7. q[1] # c => 1 \in DOMAIN w /\ At(1) = 1
  BY <1>2
<1> HIDE DEF At
<1>8. \A k \in DOMAIN w : w[k] # c /\ \E j \in DOMAIN q : w[k] = q[j]
  BY <1>3, <1>4
<1>9. \A j, k \in DOMAIN w : w[j] = w[k] => j = k
  BY <1>3, <1>4, <1>5
<1>10. \A j \in DOMAIN q : q[j] # c => \E k \in DOMAIN w : w[k] = q[j]
  BY <1>4, <1>6
<1>11. q[1] # c => w[1] = q[1]
  BY <1>4, <1>7
<1> QED
  BY <1>8, <1>9, <1>10, <1>11 DEF w

(* Which coroutines a queue holds once a new one joined it: also that one.      *)
LEMMA AppendMembers ==
    ASSUME NEW S, NEW q \in Seq(S), NEW c \in S,
           \A j \in DOMAIN q : q[j] # c,
           \A j, k \in DOMAIN q : q[j] = q[k] => j = k
    PROVE  /\ \A k \in DOMAIN Append(q, c) :
                Append(q, c)[k] = c \/ \E j \in DOMAIN q : Append(q, c)[k] = q[j]
           /\ \A j, k \in DOMAIN Append(q, c) :
                Append(q, c)[j] = Append(q, c)[k] => j = k
           /\ \A j \in DOMAIN q : \E k \in DOMAIN Append(q, c) : Append(q, c)[k] = q[j]
           /\ \E k \in DOMAIN Append(q, c) : Append(q, c)[k] = c
<1> DEFINE r == Append(q, c)
<1>1. /\ DOMAIN r = 1..(Len(q) + 1) /\ DOMAIN q = 1..Len(q) /\ Len(q) \in Nat
      /\ \A k \in 1..Len(q) : r[k] = q[k]
      /\ r[Len(q) + 1] = c
  OBVIOUS
<1> HIDE DEF r
<1>2. \A k \in DOMAIN r : k \in DOMAIN q \/ k = Len(q) + 1
  BY <1>1
<1>3. \A k \in DOMAIN r : r[k] = c \/ \E j \in DOMAIN q : r[k] = q[j]
  BY <1>1, <1>2
<1>4. \A k \in DOMAIN r : r[k] = c => k = Len(q) + 1
  BY <1>1, <1>2
<1>5. \A j, k \in DOMAIN r : r[j] = r[k] => j = k
  <2> SUFFICES ASSUME NEW j \in DOMAIN r, NEW k \in DOMAIN r, r[j] = r[k] PROVE j = k
    OBVIOUS
  <2>1. CASE r[j] = c
    BY <2>1, <1>4
  <2>2. CASE r[j] # c
    BY <2>2, <1>1, <1>2
  <2> QED
    BY <2>1, <2>2
<1>6. \A j \in DOMAIN q : \E k \in DOMAIN r : r[k] = q[j]
  <2>1. DOMAIN q \subseteq DOMAIN r
    BY <1>1
  <2> QED
    BY <2>1, <1>1
<1>7. \E k \in DOMAIN r : r[k] = c
  <2>1. Len(q) + 1 \in DOMAIN r
    BY <1>1
  <2> QED
    BY <2>1, <1>1
<1> QED
  BY <1>3, <1>5, <1>6, <1>7 DEF r

--------------------------------------------------------------------------------
(* A lease joins an entry: its count of users grows by one, others keep theirs. *)
LEMMA UsersJoin ==
    ASSUME LockTypeOK, NEW c \in Coroutines, NEW e \in Entries,
           entry[c] = NoEntry, entry' = [entry EXCEPT ![c] = e]
    PROVE  /\ Cardinality(Users(e)') = Cardinality(Users(e)) + 1
           /\ \A f \in Entries \ {e} : Users(f)' = Users(f)
           /\ \A f \in Entries : Cardinality(Users(f)) \in Nat
<1>1. /\ Users(e)' = Users(e) \cup {c} /\ c \notin Users(e)
      /\ \A f \in Entries \ {e} : Users(f)' = Users(f)
  BY LockAssumption DEF LockTypeOK, Users
<1>2. \A f \in Entries : IsFiniteSet(Users(f))
  <2>1. \A f \in Entries : Users(f) \subseteq Coroutines
    BY DEF Users
  <2> QED
    BY <2>1, LockAssumption, FS_Subset
<1>3. \A f \in Entries : Cardinality(Users(f)) \in Nat
  BY <1>2, FS_CardinalityType
<1>4. Cardinality(Users(e) \cup {c}) = Cardinality(Users(e)) + 1
  BY <1>1, <1>2, FS_AddElement
<1> QED
  BY <1>1, <1>3, <1>4

(* A lease leaves its entry: the count of users drops by one.                   *)
LEMMA UsersLeave ==
    ASSUME LockTypeOK, NEW c \in Coroutines, NEW e \in Entries,
           entry[c] = e, entry' = [entry EXCEPT ![c] = NoEntry]
    PROVE  /\ Cardinality(Users(e)') = Cardinality(Users(e)) - 1
           /\ Cardinality(Users(e)) \in Nat \ {0}
           /\ (Cardinality(Users(e)) = 1 => Users(e) = {c})
           /\ (Cardinality(Users(e)) # 1 => \E d \in Coroutines \ {c} : entry[d] = e)
           /\ \A f \in Entries \ {e} : Users(f)' = Users(f)
           /\ \A f \in Entries : Cardinality(Users(f)) \in Nat
<1>1. /\ Users(e)' = Users(e) \ {c} /\ c \in Users(e)
      /\ \A f \in Entries \ {e} : Users(f)' = Users(f)
  BY LockAssumption DEF LockTypeOK, Users
<1>2. \A f \in Entries : IsFiniteSet(Users(f))
  <2>1. \A f \in Entries : Users(f) \subseteq Coroutines
    BY DEF Users
  <2> QED
    BY <2>1, LockAssumption, FS_Subset
<1>3. \A f \in Entries : Cardinality(Users(f)) \in Nat
  BY <1>2, FS_CardinalityType
<1>4. Cardinality(Users(e) \ {c}) = Cardinality(Users(e)) - 1
  BY <1>1, <1>2, FS_RemoveElement
<1>5. Cardinality(Users(e)) # 0
  BY <1>1, <1>2, FS_EmptySet
<1>6. ASSUME Cardinality(Users(e)) = 1 PROVE Users(e) = {c}
  BY <1>1, <1>2, <1>6, FS_Singleton
<1>7. ASSUME Cardinality(Users(e)) # 1 PROVE \E d \in Coroutines \ {c} : entry[d] = e
  <2>1. Users(e) # {c}
    BY <1>7, FS_Singleton
  <2> QED
    BY <1>1, <2>1 DEF Users
<1> QED
  BY <1>1, <1>3, <1>4, <1>5, <1>6, <1>7

--------------------------------------------------------------------------------
LEMMA InitIInv == LockInit => IInv
<1> SUFFICES ASSUME LockInit PROVE IInv
  OBVIOUS
<1>1. \A e \in Entries : Users(e) = {}
  BY LockAssumption DEF LockInit, Users
<1>2. Counted
  BY <1>1, FS_EmptySet DEF LockInit, Counted
<1>3. LockTypeOK
  BY DEF LockInit, LockTypeOK
<1>4. LeaseShape /\ EntriesUnshared /\ OneHolder /\ WokenShape /\ NoResidue
  BY DEF LockInit, LeaseShape, EntriesUnshared, OneHolder, WokenShape, NoResidue
<1>5. QueueShape
  BY DEF LockInit, QueueShape
<1> QED
  BY <1>2, <1>3, <1>4, <1>5 DEF IInv

(* A lease of a session that has no entry starts a new one, referenced by it    *)
(* alone.                                                                       *)
LEMMA EnterNewIInv ==
    ASSUME IInv, NEW c \in Coroutines, NEW s \in Sessions, NEW e \in Entries,
           EnterNew(c, s, e)
    PROVE  IInv'
<1> USE LockAssumption
<1>1. LockTypeOK'
  BY DEF IInv, LockTypeOK, EnterNew
<1>2. entry[c] = NoEntry /\ Users(e) = {}
  BY DEF IInv, LeaseShape, EnterNew, Unreferenced
<1>3. LeaseShape'
  BY <1>2 DEF IInv, LockTypeOK, LeaseShape, EnterNew, Unreferenced, Users
<1>4. EntriesUnshared'
  BY DEF IInv, LockTypeOK, EntriesUnshared, EnterNew, Unreferenced
<1>5. Counted'
  <2>1. /\ Cardinality(Users(e)') = 1
        /\ \A f \in Entries \ {e} : Users(f)' = Users(f)
    <3>1. LockTypeOK /\ entry' = [entry EXCEPT ![c] = e]
      BY DEF IInv, EnterNew
    <3>2. Cardinality(Users(e)) = 0
      BY <1>2, FS_EmptySet
    <3>3. entry[c] = NoEntry
      BY <1>2
    <3>4. /\ Cardinality(Users(e)') = Cardinality(Users(e)) + 1
          /\ \A f \in Entries \ {e} : Users(f)' = Users(f)
      BY <3>1, <3>3, UsersJoin
    <3> QED
      BY <3>2, <3>4
  <2> QED
    BY <2>1 DEF IInv, LockTypeOK, Counted, EnterNew
<1>6. OneHolder'
  BY <1>2 DEF IInv, LockTypeOK, OneHolder, LeaseShape, EnterNew, Users
<1>7. QueueShape'
  BY <1>2 DEF IInv, LockTypeOK, QueueShape, EnterNew, Users
<1>8. WokenShape'
  BY <1>2 DEF IInv, LockTypeOK, WokenShape, EnterNew, Users
<1>9. NoResidue'
  BY <1>2 DEF IInv, LockTypeOK, NoResidue, EnterNew
<1> QED
  BY <1>1, <1>3, <1>4, <1>5, <1>6, <1>7, <1>8, <1>9 DEF IInv

(* A lease of a session that has an entry takes the lock or queues for it.      *)
LEMMA EnterExistingIInv ==
    ASSUME IInv, NEW c \in Coroutines, NEW s \in Sessions, EnterExisting(c, s)
    PROVE  IInv'
<1> USE LockAssumption
<1>0. registry[s] \in Entries /\ entry[c] = NoEntry /\ pc[c] = "idle"
  BY DEF IInv, LockTypeOK, LeaseShape, EnterExisting
<1> PICK e \in Entries : e = registry[s]
  BY <1>0
<1> PICK q \in Seq(Coroutines) : q = waiters[e]
  BY DEF IInv, LockTypeOK
<1>1. /\ e \in Entries /\ entry[c] = NoEntry /\ pc[c] = "idle"
      /\ q \in Seq(Coroutines) /\ q = waiters[e] /\ e = registry[s]
  BY <1>0
<1>2. /\ session' = [session EXCEPT ![c] = s]
      /\ entry' = [entry EXCEPT ![c] = e]
      /\ references' = [references EXCEPT ![e] = @ + 1]
      /\ registry' = registry /\ woken' = woken
      /\ AcquireOrQueue(c, e)
  BY <1>1 DEF EnterExisting
<1>3. \/ /\ ~locked[e] /\ q = <<>>
         /\ locked' = [locked EXCEPT ![e] = TRUE]
         /\ pc' = [pc EXCEPT ![c] = "holding"]
         /\ waiters' = waiters
      \/ /\ locked[e] \/ q # <<>>
         /\ waiters' = [waiters EXCEPT ![e] = Append(q, c)]
         /\ pc' = [pc EXCEPT ![c] = "waiting"]
         /\ locked' = locked
  BY <1>1, <1>2 DEF AcquireOrQueue, Free
<1>4. /\ Append(q, c) \in Seq(Coroutines)
      /\ DOMAIN Append(q, c) = 1..(Len(q) + 1)
      /\ \A i \in 1..Len(q) : Append(q, c)[i] = q[i]
      /\ Append(q, c)[Len(q) + 1] = c
      /\ DOMAIN q = 1..Len(q) /\ Len(q) \in Nat
      /\ q # <<>> => 1 \in 1..Len(q)
      /\ q = <<>> => DOMAIN q = {}
  BY <1>1
<1>5. LockTypeOK'
  <2>1. references' \in [Entries -> Nat]
    BY <1>1, <1>2 DEF IInv, LockTypeOK
  <2>2. waiters' \in [Entries -> Seq(Coroutines)]
    BY <1>1, <1>3, <1>4 DEF IInv, LockTypeOK
  <2> QED
    BY <1>1, <1>2, <1>3, <2>1, <2>2 DEF IInv, LockTypeOK
<1>6. LeaseShape'
  BY <1>1, <1>2, <1>3 DEF IInv, LockTypeOK, LeaseShape
<1>7. EntriesUnshared'
  BY <1>2 DEF IInv, EntriesUnshared
<1>8. Counted'
  <2>1. LockTypeOK
    BY DEF IInv
  <2>2. e \in Entries /\ entry[c] = NoEntry
    BY <1>1
  <2>3. entry' = [entry EXCEPT ![c] = e]
    BY <1>2
  <2>4. /\ Cardinality(Users(e)') = Cardinality(Users(e)) + 1
        /\ \A f \in Entries \ {e} : Users(f)' = Users(f)
    BY <2>1, <2>2, <2>3, UsersJoin
  <2>5. /\ references'[e] = references[e] + 1
        /\ \A f \in Entries \ {e} : references'[f] = references[f]
    BY <1>1, <1>2 DEF IInv, LockTypeOK
  <2>6. \A f \in Entries : references[f] = Cardinality(Users(f))
    BY DEF IInv, Counted
  <2>7. \A f \in Entries : references'[f] = Cardinality(Users(f)')
    BY <2>4, <2>5, <2>6, <1>1
  <2> QED
    BY <2>7 DEF Counted
<1>9. OneHolder'
  <2>1. \A d \in Coroutines : /\ d # c => pc'[d] = pc[d] /\ entry'[d] = entry[d]
                              /\ d = c => entry'[d] = e
    BY <1>1, <1>2, <1>3 DEF IInv, LockTypeOK
  <2>2. CASE pc' = [pc EXCEPT ![c] = "holding"] /\ ~locked[e] /\ locked' = [locked EXCEPT ![e] = TRUE]
    <3>1. pc'[c] = "holding" /\ locked'[e] /\ \A f \in Entries \ {e} : locked'[f] = locked[f]
      BY <2>2, <1>1 DEF IInv, LockTypeOK
    <3>2. \A d \in Coroutines : pc[d] = "holding" => entry[d] # e /\ entry[d] \in Entries
      BY <2>2 DEF IInv, LockTypeOK, OneHolder, LeaseShape
    <3>3. \A d \in Coroutines : pc'[d] = "holding" => locked'[entry'[d]]
      BY <2>1, <3>1, <3>2 DEF IInv, OneHolder
    <3>4. \A f \in Entries : locked'[f] =>
             \E d \in Coroutines : pc'[d] = "holding" /\ entry'[d] = f
      <4> SUFFICES ASSUME NEW f \in Entries, locked'[f]
                   PROVE  \E d \in Coroutines : pc'[d] = "holding" /\ entry'[d] = f
        OBVIOUS
      <4>1. CASE f = e
        BY <4>1, <2>1, <3>1
      <4>2. CASE f # e
        <5>1. PICK d \in Coroutines : pc[d] = "holding" /\ entry[d] = f
          BY <4>2, <3>1 DEF IInv, OneHolder
        <5> QED
          BY <5>1, <2>1, <1>1
      <4> QED
        BY <4>1, <4>2
    <3>5. \A d, g \in Coroutines :
             pc'[d] = "holding" /\ pc'[g] = "holding" /\ entry'[d] = entry'[g] => d = g
      BY <2>1, <3>1, <3>2 DEF IInv, OneHolder
    <3> QED
      BY <3>3, <3>4, <3>5 DEF OneHolder
  <2>3. CASE pc' = [pc EXCEPT ![c] = "waiting"] /\ locked' = locked
    <3>1. pc'[c] = "waiting"
      BY <2>3 DEF IInv, LockTypeOK
    <3> QED
      BY <2>1, <2>3, <3>1, <1>1 DEF IInv, OneHolder
  <2> QED
    BY <1>3, <2>2, <2>3
<1>10. QueueShape'
  <2>1. CASE locked' # locked
    BY <2>1, <1>1, <1>2, <1>3, <1>4 DEF IInv, LockTypeOK, QueueShape
  <2>2. CASE locked' = locked
    <3>1. /\ waiters' = [waiters EXCEPT ![e] = Append(q, c)]
          /\ pc' = [pc EXCEPT ![c] = "waiting"]
      BY <2>2, <1>1, <1>3 DEF IInv, LockTypeOK
    <3>2. /\ waiters'[e] = Append(q, c)
          /\ \A f \in Entries \ {e} : waiters'[f] = waiters[f]
      BY <3>1, <1>1 DEF IInv, LockTypeOK
    <3>3. \A i \in DOMAIN q : q[i] \in Coroutines /\ q[i] # c
      BY <1>1 DEF IInv, QueueShape
    <3> SUFFICES ASSUME NEW f \in Entries
                 PROVE  /\ \A i \in DOMAIN waiters'[f] :
                              pc'[waiters'[f][i]] = "waiting" /\ entry'[waiters'[f][i]] = f
                        /\ \A i, j \in DOMAIN waiters'[f] :
                              waiters'[f][i] = waiters'[f][j] => i = j
                        /\ \A d \in Coroutines : pc'[d] = "waiting" /\ entry'[d] = f =>
                              \E i \in DOMAIN waiters'[f] : waiters'[f][i] = d
      BY DEF QueueShape
    <3>4. CASE f = e
      <4>1. \A i \in DOMAIN q : pc[q[i]] = "waiting" /\ entry[q[i]] = e
        BY <1>1 DEF IInv, QueueShape
      <4>2. \A i, j \in DOMAIN q : q[i] = q[j] => i = j
        BY <1>1 DEF IInv, QueueShape
      <4>3. \A d \in Coroutines : pc[d] = "waiting" /\ entry[d] = e =>
               \E i \in DOMAIN q : q[i] = d
        BY <1>1 DEF IInv, QueueShape
      <4>4. \A d \in Coroutines : /\ d # c => pc'[d] = pc[d] /\ entry'[d] = entry[d]
                                  /\ d = c => pc'[d] = "waiting" /\ entry'[d] = e
        BY <3>1, <1>2 DEF IInv, LockTypeOK
      <4> DEFINE r == Append(q, c)
      <4>5. waiters'[f] = r
        BY <3>2, <3>4
      <4>6. /\ \A k \in DOMAIN r : r[k] = c \/ \E j \in DOMAIN q : r[k] = q[j]
            /\ \A j, k \in DOMAIN r : r[j] = r[k] => j = k
            /\ \A j \in DOMAIN q : \E k \in DOMAIN r : r[k] = q[j]
            /\ \E k \in DOMAIN r : r[k] = c
        BY <3>3, <4>2, AppendMembers, SMTT(60)
      <4> HIDE DEF r
      <4>7. \A k \in DOMAIN r : pc'[r[k]] = "waiting" /\ entry'[r[k]] = e
        BY <3>3, <4>1, <4>4, <4>6
      <4>8. \A d \in Coroutines : pc'[d] = "waiting" /\ entry'[d] = e =>
               \E k \in DOMAIN r : r[k] = d
        BY <4>3, <4>4, <4>6
      <4> QED
        BY <3>4, <4>5, <4>6, <4>7, <4>8
    <3>5. CASE f # e
      <4>1. waiters'[f] = waiters[f] /\ waiters[f] \in Seq(Coroutines)
        BY <3>2, <3>5 DEF IInv, LockTypeOK
      <4> QED
        BY <3>1, <3>5, <4>1, <1>1, <1>2 DEF IInv, LockTypeOK, QueueShape
    <3> QED
      BY <3>4, <3>5
  <2> QED
    BY <2>1, <2>2
<1>11. WokenShape'
  <2> SUFFICES ASSUME NEW d \in woken
               PROVE  /\ pc'[d] = "waiting" /\ ~locked'[entry'[d]]
                      /\ waiters'[entry'[d]][1] = d
    BY <1>2 DEF WokenShape
  <2>1. /\ d \in Coroutines /\ pc[d] = "waiting" /\ ~locked[entry[d]]
        /\ waiters[entry[d]][1] = d /\ entry[d] \in Entries
    BY DEF IInv, LockTypeOK, WokenShape, LeaseShape
  <2>2. d # c /\ pc'[d] = pc[d] /\ entry'[d] = entry[d]
    BY <2>1, <1>1, <1>2, <1>3 DEF IInv, LockTypeOK
  <2>3. CASE entry[d] = e
    <3>1. q # <<>>
      BY <2>1, <2>3, <1>1, <1>4 DEF IInv, QueueShape
    <3>2. waiters' = [waiters EXCEPT ![e] = Append(q, c)] /\ locked' = locked
      BY <3>1, <1>3
    <3>3. waiters'[e] = Append(q, c)
      BY <3>2, <1>1 DEF IInv, LockTypeOK
    <3>4. waiters'[e][1] = q[1]
      BY <3>1, <3>3, <1>4
    <3> QED
      BY <2>1, <2>2, <2>3, <3>2, <3>4, <1>1
  <2>4. CASE entry[d] # e
    BY <2>1, <2>2, <2>4, <1>1, <1>3 DEF IInv, LockTypeOK
  <2> QED
    BY <2>3, <2>4
<1>12. NoResidue'
  BY <1>1, <1>2, <1>3, ZenonT(60) DEF IInv, LockTypeOK, NoResidue
<1> QED
  BY <1>5, <1>6, <1>7, <1>8, <1>9, <1>10, <1>11, <1>12 DEF IInv

(* The queue a coroutine leaves keeps its shape, and a woken coroutine that     *)
(* stays keeps its head position.                                               *)
LEMMA QueueWithout ==
    ASSUME IInv, NEW c \in Coroutines, pc[c] = "waiting",
           pc' \in [Coroutines -> {"idle", "waiting", "holding"}],
           \A d \in Coroutines \ {c} : pc'[d] = pc[d] /\ entry'[d] = entry[d],
           pc'[c] # "waiting",
           waiters' = [waiters EXCEPT ![entry[c]] = Without(@, c)]
    PROVE  /\ waiters' \in [Entries -> Seq(Coroutines)]
           /\ QueueShape'
           /\ \A d \in woken \ {c} : waiters'[entry[d]][1] = d
<1>0. entry[c] \in Entries
  BY LockAssumption DEF IInv, LockTypeOK, LeaseShape
<1> PICK e \in Entries : e = entry[c]
  BY <1>0
<1> PICK q \in Seq(Coroutines) : q = waiters[e]
  BY DEF IInv, LockTypeOK
<1> DEFINE w == Without(q, c)
<1>1. e \in Entries /\ q \in Seq(Coroutines) /\ e = entry[c] /\ q = waiters[e]
  OBVIOUS
<1>2. PICK i \in DOMAIN q : q[i] = c
  <2>1. \E i \in DOMAIN waiters[e] : waiters[e][i] = c
    BY <1>1 DEF IInv, QueueShape
  <2> QED
    BY <2>1
<1>3. \A j, k \in DOMAIN q : q[j] = q[k] => j = k
  BY <1>1 DEF IInv, QueueShape
<1>4. w \in Seq(Coroutines)
  <2> QED
    BY <1>1, <1>2, <1>3, WithoutFacts
<1>5. /\ \A k \in DOMAIN w : w[k] # c /\ \E j \in DOMAIN q : w[k] = q[j]
      /\ \A j, k \in DOMAIN w : w[j] = w[k] => j = k
      /\ \A j \in DOMAIN q : q[j] # c => \E k \in DOMAIN w : w[k] = q[j]
      /\ q[1] # c => w[1] = q[1]
  <2> QED
    BY <1>1, <1>2, <1>3, WithoutMembers
<1>6. waiters' = [waiters EXCEPT ![e] = w]
  BY <1>1
<1> HIDE DEF w
<1>7. waiters' \in [Entries -> Seq(Coroutines)]
  BY <1>1, <1>4, <1>6 DEF IInv, LockTypeOK
<1>8. \A d \in Coroutines : d # c => pc'[d] = pc[d] /\ entry'[d] = entry[d]
  OBVIOUS
<1>11. QueueShape'
  <2> SUFFICES ASSUME NEW f \in Entries
               PROVE  /\ \A k \in DOMAIN waiters'[f] :
                            pc'[waiters'[f][k]] = "waiting" /\ entry'[waiters'[f][k]] = f
                      /\ \A j, k \in DOMAIN waiters'[f] :
                            waiters'[f][j] = waiters'[f][k] => j = k
                      /\ \A d \in Coroutines : pc'[d] = "waiting" /\ entry'[d] = f =>
                            \E k \in DOMAIN waiters'[f] : waiters'[f][k] = d
    BY DEF QueueShape
  <2>1. CASE f = e
    <3>1. waiters'[f] = w
      BY <2>1, <1>1, <1>6 DEF IInv, LockTypeOK
    <3>2. \A k \in DOMAIN w : w[k] \in Coroutines
      BY <1>4
    <3>3. \A k \in DOMAIN w : pc'[w[k]] = "waiting" /\ entry'[w[k]] = f
      <4>1. \A k \in DOMAIN w : pc[w[k]] = "waiting" /\ entry[w[k]] = e /\ w[k] # c
        BY <1>1, <1>5 DEF IInv, QueueShape
      <4> QED
        BY <2>1, <3>2, <4>1, <1>8
    <3>4. \A d \in Coroutines : pc'[d] = "waiting" /\ entry'[d] = f =>
             \E k \in DOMAIN w : w[k] = d
      <4> SUFFICES ASSUME NEW d \in Coroutines, pc'[d] = "waiting", entry'[d] = f
                   PROVE  \E k \in DOMAIN w : w[k] = d
        OBVIOUS
      <4>1. d # c /\ pc[d] = "waiting" /\ entry[d] = e
        BY <2>1, <1>8
      <4>2. \E j \in DOMAIN q : q[j] = d
        BY <4>1, <1>1 DEF IInv, QueueShape
      <4> QED
        BY <4>1, <4>2, <1>5
    <3>5. \A j, k \in DOMAIN w : w[j] = w[k] => j = k
      BY <1>5
    <3> QED
      BY <3>1, <3>3, <3>4, <3>5
  <2>2. CASE f # e
    <3>1. waiters'[f] = waiters[f] /\ waiters[f] \in Seq(Coroutines)
      BY <2>2, <1>6 DEF IInv, LockTypeOK
    <3>2. /\ \A k \in DOMAIN waiters[f] : /\ pc[waiters[f][k]] = "waiting"
                                           /\ entry[waiters[f][k]] = f
          /\ \A j, k \in DOMAIN waiters[f] : waiters[f][j] = waiters[f][k] => j = k
          /\ \A d \in Coroutines : pc[d] = "waiting" /\ entry[d] = f =>
                \E k \in DOMAIN waiters[f] : waiters[f][k] = d
      BY DEF IInv, QueueShape
    <3>3. \A k \in DOMAIN waiters[f] : waiters[f][k] \in Coroutines
      BY <3>1
    <3>4. \A k \in DOMAIN waiters[f] : /\ pc'[waiters[f][k]] = "waiting"
                                        /\ entry'[waiters[f][k]] = f
      BY <2>2, <3>2, <3>3, <1>8
    <3>5. \A d \in Coroutines : pc'[d] = "waiting" /\ entry'[d] = f =>
                pc[d] = "waiting" /\ entry[d] = f
      BY <1>8
    <3> QED
      BY <3>1, <3>2, <3>4, <3>5
  <2> QED
    BY <2>1, <2>2
<1>12. ASSUME NEW d \in woken \ {c} PROVE waiters'[entry[d]][1] = d
  <2>1. waiters[entry[d]][1] = d /\ pc[d] = "waiting" /\ d \in Coroutines
    BY DEF IInv, LockTypeOK, WokenShape
  <2>2. CASE entry[d] = e
    <3>1. q[1] = d /\ d # c
      BY <2>1, <2>2
    <3> QED
      BY <2>2, <3>1, <1>1, <1>5, <1>6 DEF IInv, LockTypeOK
  <2>3. CASE entry[d] # e
    <3>1. entry[d] \in Entries
      BY <2>1, LockAssumption DEF IInv, LockTypeOK, LeaseShape
    <3> QED
      BY <2>1, <2>3, <3>1, <1>6 DEF IInv, LockTypeOK
  <2> QED
    BY <2>2, <2>3
<1> QED
  BY <1>7, <1>11, <1>12

(* The end of a lease, whichever way it came: the count, the registry and the   *)
(* remaining leases still agree.                                                *)
LEMMA LeaveFacts ==
    ASSUME IInv, NEW c \in Coroutines, pc[c] # "idle",
           NEW stillLocked \in BOOLEAN, Leave(c, stillLocked),
           stillLocked => \E d \in Coroutines \ {c} : entry[d] = entry[c]
    PROVE  /\ registry' \in [Sessions -> Entries \cup {NoEntry}]
           /\ references' \in [Entries -> Nat]
           /\ session' = session
           /\ entry' \in [Coroutines -> Entries \cup {NoEntry}]
           /\ pc' \in [Coroutines -> {"idle", "waiting", "holding"}]
           /\ \A d \in Coroutines \ {c} : pc'[d] = pc[d] /\ entry'[d] = entry[d]
           /\ pc'[c] = "idle" /\ entry'[c] = NoEntry
           /\ LeaseShape' /\ EntriesUnshared' /\ Counted' /\ NoResidue'
<1> USE LockAssumption
<1>0. entry[c] \in Entries
  BY DEF IInv, LockTypeOK, LeaseShape
<1> PICK e \in Entries : e = entry[c]
  BY <1>0
<1>1. /\ references' = [references EXCEPT ![e] = @ - 1]
      /\ registry' = Forget(e, stillLocked)
      /\ entry' = [entry EXCEPT ![c] = NoEntry]
      /\ pc' = [pc EXCEPT ![c] = "idle"]
      /\ session' = session
  BY DEF Leave
<1>2. /\ Cardinality(Users(e)') = Cardinality(Users(e)) - 1
      /\ Cardinality(Users(e)) \in Nat \ {0}
      /\ (Cardinality(Users(e)) = 1 => Users(e) = {c})
      /\ (Cardinality(Users(e)) # 1 => \E d \in Coroutines \ {c} : entry[d] = e)
      /\ \A f \in Entries \ {e} : Users(f)' = Users(f)
  <2>1. LockTypeOK /\ entry[c] = e /\ entry' = [entry EXCEPT ![c] = NoEntry]
    BY <1>1 DEF IInv
  <2> QED
    BY <2>1, UsersLeave
<1>3. references[e] = Cardinality(Users(e))
  BY DEF IInv, Counted
<1>4. references' \in [Entries -> Nat]
  BY <1>1, <1>2, <1>3 DEF IInv, LockTypeOK
<1>5. Counted'
  <2>1. /\ references'[e] = references[e] - 1
        /\ \A f \in Entries \ {e} : references'[f] = references[f]
    BY <1>1 DEF IInv, LockTypeOK
  <2>2. \A f \in Entries : references[f] = Cardinality(Users(f))
    BY DEF IInv, Counted
  <2>3. \A f \in Entries : references'[f] = Cardinality(Users(f)')
    BY <1>2, <2>1, <2>2
  <2> QED
    BY <2>3 DEF Counted
<1>6. /\ entry' \in [Coroutines -> Entries \cup {NoEntry}]
      /\ pc' \in [Coroutines -> {"idle", "waiting", "holding"}]
      /\ \A d \in Coroutines \ {c} : pc'[d] = pc[d] /\ entry'[d] = entry[d]
      /\ pc'[c] = "idle" /\ entry'[c] = NoEntry
  BY <1>1 DEF IInv, LockTypeOK
<1>7. CASE registry' = registry /\ \E d \in Coroutines \ {c} : entry[d] = e
  <2>1. registry' \in [Sessions -> Entries \cup {NoEntry}]
    BY <1>7 DEF IInv, LockTypeOK
  <2>2. LeaseShape'
    BY <1>6, <1>7, <1>1 DEF IInv, LeaseShape
  <2>3. EntriesUnshared'
    BY <1>7 DEF IInv, EntriesUnshared
  <2>4. NoResidue'
    BY <1>6, <1>7 DEF IInv, NoResidue, LeaseShape
  <2> QED
    BY <1>1, <1>4, <1>5, <1>6, <2>1, <2>2, <2>3, <2>4
<1>8. CASE /\ registry' = [s \in Sessions |-> IF registry[s] = e THEN NoEntry ELSE registry[s]]
           /\ Users(e) = {c}
  <2>1. registry' \in [Sessions -> Entries \cup {NoEntry}]
    BY <1>8 DEF IInv, LockTypeOK
  <2>2. \A d \in Coroutines \ {c} : entry[d] # e
    BY <1>8 DEF Users
  <2>3. LeaseShape'
    BY <1>6, <1>8, <1>1, <2>2 DEF IInv, LockTypeOK, LeaseShape
  <2>4. EntriesUnshared'
    BY <1>8 DEF IInv, EntriesUnshared
  <2>5. NoResidue'
    BY <1>6, <1>8 DEF IInv, NoResidue
  <2> QED
    BY <1>1, <1>4, <1>5, <1>6, <2>1, <2>3, <2>4, <2>5
<1>9. \/ registry' = registry /\ \E d \in Coroutines \ {c} : entry[d] = e
      \/ /\ registry' = [s \in Sessions |-> IF registry[s] = e THEN NoEntry ELSE registry[s]]
         /\ Users(e) = {c}
  <2>1. CASE stillLocked
    BY <2>1, <1>1 DEF Forget
  <2>2. CASE ~stillLocked /\ references[e] = 1
    BY <2>2, <1>1, <1>2, <1>3 DEF Forget
  <2>3. CASE ~stillLocked /\ references[e] # 1
    BY <2>3, <1>1, <1>2, <1>3 DEF Forget
  <2> QED
    BY <2>1, <2>2, <2>3
<1> QED
  BY <1>7, <1>8, <1>9

(* The woken head of a queue becomes the one holder of its lock.                *)
LEMMA GrantedIInv ==
    ASSUME IInv, NEW c \in Coroutines, Granted(c)
    PROVE  IInv'
<1> USE LockAssumption
<1>0. entry[c] \in Entries
  BY DEF IInv, LockTypeOK, LeaseShape, Granted
<1> PICK e \in Entries : e = entry[c]
  BY <1>0
<1>1. /\ pc[c] = "waiting" /\ c \in woken /\ ~locked[e] /\ waiters[e][1] = c
  BY DEF IInv, WokenShape, Granted
<1>2. /\ waiters' = [waiters EXCEPT ![entry[c]] = Without(@, c)]
      /\ locked' = [locked EXCEPT ![e] = TRUE]
      /\ woken' = woken \ {c}
      /\ pc' = [pc EXCEPT ![c] = "holding"]
      /\ registry' = registry /\ references' = references
      /\ session' = session /\ entry' = entry
  BY DEF Granted
<1>3. /\ pc' \in [Coroutines -> {"idle", "waiting", "holding"}]
      /\ \A d \in Coroutines \ {c} : pc'[d] = pc[d] /\ entry'[d] = entry[d]
      /\ pc'[c] = "holding" /\ entry'[c] = e
  BY <1>2 DEF IInv, LockTypeOK
<1>4. /\ waiters' \in [Entries -> Seq(Coroutines)]
      /\ QueueShape'
      /\ \A d \in woken \ {c} : waiters'[entry[d]][1] = d
  BY <1>1, <1>2, <1>3, QueueWithout
<1>5. locked'[e] /\ \A f \in Entries \ {e} : locked'[f] = locked[f]
  BY <1>2 DEF IInv, LockTypeOK
<1>6. LockTypeOK'
  BY <1>2, <1>3, <1>4 DEF IInv, LockTypeOK
<1>7. LeaseShape' /\ EntriesUnshared' /\ NoResidue'
  BY <1>1, <1>2, <1>3 DEF IInv, LeaseShape, EntriesUnshared, NoResidue
<1>8. Counted'
  BY <1>2 DEF IInv, Counted, Users
<1>9. OneHolder'
  <2>1. \A d \in Coroutines : pc[d] = "holding" => entry[d] # e /\ entry[d] \in Entries
    BY <1>1 DEF IInv, LockTypeOK, OneHolder, LeaseShape
  <2>2. \A d \in Coroutines : pc'[d] = "holding" => locked'[entry'[d]]
    BY <1>3, <1>5, <2>1 DEF IInv, OneHolder
  <2>3. \A f \in Entries : locked'[f] =>
           \E d \in Coroutines : pc'[d] = "holding" /\ entry'[d] = f
    BY <1>1, <1>2, <1>3, <1>5 DEF IInv, OneHolder
  <2>4. \A d, g \in Coroutines :
           pc'[d] = "holding" /\ pc'[g] = "holding" /\ entry'[d] = entry'[g] => d = g
    BY <1>3, <2>1 DEF IInv, OneHolder
  <2> QED
    BY <2>2, <2>3, <2>4 DEF OneHolder
<1>10. WokenShape'
  <2> SUFFICES ASSUME NEW d \in woken \ {c}
               PROVE  /\ pc'[d] = "waiting" /\ ~locked'[entry'[d]]
                      /\ waiters'[entry'[d]][1] = d
    BY <1>2 DEF WokenShape
  <2>1. /\ d \in Coroutines /\ pc[d] = "waiting" /\ ~locked[entry[d]]
        /\ waiters[entry[d]][1] = d /\ entry[d] \in Entries
    BY DEF IInv, LockTypeOK, WokenShape, LeaseShape
  <2>2. entry[d] # e
    BY <2>1, <1>1
  <2> QED
    BY <2>1, <2>2, <1>3, <1>4, <1>5
<1> QED
  BY <1>4, <1>6, <1>7, <1>8, <1>9, <1>10 DEF IInv

(* A holder releases the lock and its lease ends; the head of the queue, if any, *)
(* is woken.                                                                    *)
LEMMA ExitIInv ==
    ASSUME IInv, NEW c \in Coroutines, Exit(c)
    PROVE  IInv'
<1> USE LockAssumption
<1>0. entry[c] \in Entries
  BY DEF IInv, LockTypeOK, LeaseShape, Exit
<1> PICK e \in Entries : e = entry[c]
  BY <1>0
<1>1. /\ pc[c] = "holding" /\ locked[e]
      /\ \A d \in Coroutines \ {c} : pc[d] = "holding" => entry[d] # e
  BY DEF IInv, OneHolder, Exit
<1>2. /\ locked' = [locked EXCEPT ![e] = FALSE]
      /\ woken' = woken \cup WakeFirst(waiters[e])
      /\ waiters' = waiters
      /\ Leave(c, FALSE)
  BY DEF Exit
<1>3. /\ registry' \in [Sessions -> Entries \cup {NoEntry}]
      /\ references' \in [Entries -> Nat]
      /\ session' = session
      /\ entry' \in [Coroutines -> Entries \cup {NoEntry}]
      /\ pc' \in [Coroutines -> {"idle", "waiting", "holding"}]
      /\ \A d \in Coroutines \ {c} : pc'[d] = pc[d] /\ entry'[d] = entry[d]
      /\ pc'[c] = "idle" /\ entry'[c] = NoEntry
      /\ LeaseShape' /\ EntriesUnshared' /\ Counted' /\ NoResidue'
  BY <1>1, <1>2, LeaveFacts
<1>4. ~locked'[e] /\ \A f \in Entries \ {e} : locked'[f] = locked[f]
  BY <1>2 DEF IInv, LockTypeOK
<1>5. \A d \in WakeFirst(waiters[e]) :
         /\ d \in Coroutines /\ d # c /\ waiters[e][1] = d
         /\ pc[d] = "waiting" /\ entry[d] = e
  <2> SUFFICES ASSUME waiters[e] # <<>>
               PROVE  LET d == waiters[e][1]
                      IN  /\ d \in Coroutines /\ d # c
                          /\ pc[d] = "waiting" /\ entry[d] = e
    BY DEF WakeFirst
  <2>1. waiters[e] \in Seq(Coroutines) /\ 1 \in DOMAIN waiters[e]
    BY DEF IInv, LockTypeOK
  <2>2. pc[waiters[e][1]] = "waiting" /\ entry[waiters[e][1]] = e
    BY <2>1 DEF IInv, QueueShape
  <2> QED
    BY <2>1, <2>2, <1>1
<1>6. LockTypeOK'
  BY <1>2, <1>3, <1>5 DEF IInv, LockTypeOK
<1>7. OneHolder'
  <2>1. \A d \in Coroutines : pc'[d] = "holding" =>
           d # c /\ pc[d] = "holding" /\ entry'[d] = entry[d] /\ entry[d] \in Entries \ {e}
    BY <1>1, <1>3 DEF IInv, LockTypeOK, LeaseShape
  <2>2. \A d \in Coroutines : pc'[d] = "holding" => locked'[entry'[d]]
    BY <1>4, <2>1 DEF IInv, OneHolder
  <2>3. \A f \in Entries : locked'[f] =>
           \E d \in Coroutines : pc'[d] = "holding" /\ entry'[d] = f
    BY <1>3, <1>4 DEF IInv, OneHolder
  <2>4. \A d, g \in Coroutines :
           pc'[d] = "holding" /\ pc'[g] = "holding" /\ entry'[d] = entry'[g] => d = g
    BY <2>1 DEF IInv, OneHolder
  <2> QED
    BY <2>2, <2>3, <2>4 DEF OneHolder
<1>8. QueueShape'
  <2> SUFFICES ASSUME NEW f \in Entries
               PROVE  /\ \A k \in DOMAIN waiters[f] :
                            /\ pc'[waiters[f][k]] = "waiting"
                            /\ entry'[waiters[f][k]] = f
                      /\ \A j, k \in DOMAIN waiters[f] :
                            waiters[f][j] = waiters[f][k] => j = k
                      /\ \A d \in Coroutines : pc'[d] = "waiting" /\ entry'[d] = f =>
                            \E k \in DOMAIN waiters[f] : waiters[f][k] = d
    BY <1>2 DEF QueueShape
  <2>1. \A k \in DOMAIN waiters[f] : waiters[f][k] \in Coroutines
    BY DEF IInv, LockTypeOK
  <2>2. \A k \in DOMAIN waiters[f] : /\ pc[waiters[f][k]] = "waiting"
                                      /\ entry[waiters[f][k]] = f
    BY DEF IInv, QueueShape
  <2>3. \A k \in DOMAIN waiters[f] : waiters[f][k] # c
    BY <2>2, <1>1
  <2> QED
    BY <2>1, <2>2, <2>3, <1>3 DEF IInv, QueueShape
<1>9. WokenShape'
  <2> SUFFICES ASSUME NEW d \in woken \cup WakeFirst(waiters[e])
               PROVE  /\ pc'[d] = "waiting" /\ ~locked'[entry'[d]]
                      /\ waiters[entry'[d]][1] = d
    BY <1>2 DEF WokenShape
  <2>1. CASE d \in woken
    <3>1. /\ d \in Coroutines /\ pc[d] = "waiting" /\ ~locked[entry[d]]
          /\ waiters[entry[d]][1] = d /\ entry[d] \in Entries
      BY <2>1 DEF IInv, LockTypeOK, WokenShape, LeaseShape
    <3> QED
      BY <3>1, <1>1, <1>3, <1>4
  <2>2. CASE d \in WakeFirst(waiters[e])
    BY <2>2, <1>3, <1>4, <1>5
  <2> QED
    BY <2>1, <2>2
<1> QED
  BY <1>3, <1>6, <1>7, <1>8, <1>9 DEF IInv

(* A suspended acquire() is cancelled, before or after it was woken.            *)
LEMMA CancelWaitingIInv ==
    ASSUME IInv, NEW c \in Coroutines, CancelWaiting(c)
    PROVE  IInv'
<1> USE LockAssumption
<1>0. entry[c] \in Entries
  BY DEF IInv, LockTypeOK, LeaseShape, CancelWaiting
<1> PICK e \in Entries : e = entry[c]
  BY <1>0
<1> PICK rest : rest = Without(waiters[e], c)
  OBVIOUS
<1>1. /\ pc[c] = "waiting"
      /\ waiters' = [waiters EXCEPT ![entry[c]] = Without(@, c)]
      /\ woken' = (woken \ {c}) \cup (IF locked[e] THEN {} ELSE WakeFirst(rest))
      /\ locked' = locked
      /\ Leave(c, locked[e])
  BY DEF CancelWaiting
<1>2. locked[e] \in BOOLEAN
  BY DEF IInv, LockTypeOK
<1>3. locked[e] => \E d \in Coroutines \ {c} : entry[d] = entry[c]
  BY <1>1 DEF IInv, OneHolder
<1> PICK b \in BOOLEAN : b = locked[e]
  BY <1>2
<1>4. /\ registry' \in [Sessions -> Entries \cup {NoEntry}]
      /\ references' \in [Entries -> Nat]
      /\ session' = session
      /\ entry' \in [Coroutines -> Entries \cup {NoEntry}]
      /\ pc' \in [Coroutines -> {"idle", "waiting", "holding"}]
      /\ \A d \in Coroutines \ {c} : pc'[d] = pc[d] /\ entry'[d] = entry[d]
      /\ pc'[c] = "idle" /\ entry'[c] = NoEntry
      /\ LeaseShape' /\ EntriesUnshared' /\ Counted' /\ NoResidue'
  <2>1. pc[c] # "idle" /\ Leave(c, b) /\ (b => \E d \in Coroutines \ {c} : entry[d] = entry[c])
    BY <1>1, <1>3
  <2> QED
    BY <2>1, LeaveFacts
<1>5. /\ waiters' \in [Entries -> Seq(Coroutines)]
      /\ QueueShape'
      /\ \A d \in woken \ {c} : waiters'[entry[d]][1] = d
  BY <1>1, <1>4, QueueWithout
<1>6. waiters'[e] = rest
  BY <1>1 DEF IInv, LockTypeOK
<1>7. \A d \in WakeFirst(rest) :
         /\ d \in Coroutines /\ waiters'[e][1] = d
         /\ pc'[d] = "waiting" /\ entry'[d] = e
  <2> SUFFICES ASSUME waiters'[e] # <<>>
               PROVE  /\ waiters'[e][1] \in Coroutines
                      /\ pc'[waiters'[e][1]] = "waiting" /\ entry'[waiters'[e][1]] = e
    BY <1>6 DEF WakeFirst
  <2>1. waiters'[e] \in Seq(Coroutines) /\ 1 \in DOMAIN waiters'[e]
    BY <1>5
  <2> QED
    BY <2>1, <1>5 DEF QueueShape
<1>8. LockTypeOK'
  BY <1>1, <1>4, <1>5, <1>7 DEF IInv, LockTypeOK
<1>9. OneHolder'
  BY <1>1, <1>4 DEF IInv, OneHolder
<1>10. WokenShape'
  <2> SUFFICES ASSUME NEW d \in (woken \ {c}) \cup (IF locked[e] THEN {} ELSE WakeFirst(rest))
               PROVE  /\ pc'[d] = "waiting" /\ ~locked[entry'[d]]
                      /\ waiters'[entry'[d]][1] = d
    BY <1>1 DEF WokenShape
  <2>1. CASE d \in woken \ {c}
    <3>1. /\ d \in Coroutines /\ pc[d] = "waiting" /\ ~locked[entry[d]]
      BY <2>1 DEF IInv, LockTypeOK, WokenShape
    <3> QED
      BY <2>1, <3>1, <1>4, <1>5
  <2>2. CASE ~locked[e] /\ d \in WakeFirst(rest)
    BY <2>2, <1>7
  <2> QED
    BY <2>1, <2>2
<1> QED
  BY <1>4, <1>5, <1>8, <1>9, <1>10 DEF IInv

--------------------------------------------------------------------------------
(* The invariant is inductive for any number of coroutines and sessions.        *)
LEMMA NextIInv == IInv /\ [LockNext]_lockVars => IInv'
<1> SUFFICES ASSUME IInv, [LockNext]_lockVars PROVE IInv'
  OBVIOUS
<1>1. ASSUME NEW c \in Coroutines, NEW s \in Sessions, EnterExisting(c, s) PROVE IInv'
  BY <1>1, EnterExistingIInv
<1>2. ASSUME NEW c \in Coroutines, NEW s \in Sessions, NEW e \in Entries, EnterNew(c, s, e)
      PROVE  IInv'
  BY <1>2, EnterNewIInv
<1>3. ASSUME NEW c \in Coroutines, Granted(c) PROVE IInv'
  BY <1>3, GrantedIInv
<1>4. ASSUME NEW c \in Coroutines, Exit(c) PROVE IInv'
  BY <1>4, ExitIInv
<1>5. ASSUME NEW c \in Coroutines, CancelWaiting(c) PROVE IInv'
  BY <1>5, CancelWaitingIInv
<1>6. CASE UNCHANGED lockVars
  <2> USE <1>6 DEF lockVars
  <2>1. LockTypeOK' /\ LeaseShape' /\ EntriesUnshared' /\ Counted'
    BY DEF IInv, LockTypeOK, LeaseShape, EntriesUnshared, Counted, Users
  <2>2. OneHolder' /\ QueueShape' /\ WokenShape' /\ NoResidue'
    BY DEF IInv, OneHolder, QueueShape, WokenShape, NoResidue
  <2> QED
    BY <2>1, <2>2 DEF IInv
<1> QED
  BY <1>1, <1>2, <1>3, <1>4, <1>5, <1>6 DEF LockNext

(* The registry, the queues and the leases always agree.                        *)
THEOREM LockInvariant == LockSpec => []IInv
  BY InitIInv, NextIInv, PTL DEF LockSpec

(* Every reachable state of the registry has its type; a count of leases is     *)
(* never negative.                                                              *)
THEOREM LockTypeCorrect == LockSpec => []LockTypeOK
<1>1. IInv => LockTypeOK
  BY DEF IInv
<1> QED
  BY <1>1, LockInvariant, PTL

(* However many coroutines lease the sessions and are cancelled, two never run  *)
(* the leased body of one session together.                                     *)
THEOREM LockMutualExclusion == LockSpec => []MutualExclusion
<1>1. IInv => MutualExclusion
  BY DEF IInv, LeaseShape, OneHolder, MutualExclusion
<1> QED
  BY <1>1, LockInvariant, PTL

(* The registry keeps no entry that no lease uses.                              *)
THEOREM LockNoResidue == LockSpec => []NoResidue
<1>1. IInv => NoResidue
  BY DEF IInv
<1> QED
  BY <1>1, LockInvariant, PTL

(* A lease of a lock is granted to the head of its queue, or when none queues.  *)
THEOREM LockNoOvertaking == LockSpec => NoOvertaking
<1> DEFINE InTurn == \A c \in Coroutines :
        pc[c] # "holding" /\ pc'[c] = "holding"
            => LET q == waiters[entry'[c]] IN q = <<>> \/ Head(q) = c
<1>1. IInv /\ [LockNext]_lockVars => [InTurn]_lockVars
  <2> SUFFICES ASSUME IInv, LockNext,
                      NEW c \in Coroutines, pc[c] # "holding", pc'[c] = "holding"
               PROVE  waiters[entry'[c]] = <<>> \/ Head(waiters[entry'[c]]) = c
    OBVIOUS
  <2> USE LockAssumption
  <2>1. ASSUME NEW d \in Coroutines, NEW s \in Sessions, EnterExisting(d, s)
        PROVE  waiters[entry'[c]] = <<>>
    <3>1. d = c /\ entry'[c] = registry[s]
      BY <2>1 DEF IInv, LockTypeOK, EnterExisting, AcquireOrQueue
    <3>2. waiters[registry[s]] = <<>>
      BY <2>1, <3>1 DEF IInv, LockTypeOK, EnterExisting, AcquireOrQueue, Free
    <3> QED
      BY <3>1, <3>2
  <2>2. ASSUME NEW d \in Coroutines, NEW s \in Sessions, NEW e \in Entries, EnterNew(d, s, e)
        PROVE  waiters[entry'[c]] = <<>>
    <3>1. entry'[c] = e
      BY <2>2 DEF IInv, LockTypeOK, EnterNew
    <3>2. \A g \in Coroutines : entry[g] # e
      BY <2>2 DEF EnterNew, Unreferenced, Users
    <3>3. waiters[e] \in Seq(Coroutines) /\ \A i \in DOMAIN waiters[e] : waiters[e][i] \in Coroutines
      BY DEF IInv, LockTypeOK
    <3>4. \A i \in DOMAIN waiters[e] : entry[waiters[e][i]] = e
      BY DEF IInv, QueueShape
    <3>5. waiters[e] # <<>> => 1 \in DOMAIN waiters[e]
      BY <3>3
    <3> QED
      BY <3>1, <3>2, <3>3, <3>4, <3>5
  <2>3. ASSUME NEW d \in Coroutines, Granted(d)
        PROVE  waiters[entry'[c]] = <<>> \/ Head(waiters[entry'[c]]) = c
    <3>1. d = c /\ entry' = entry /\ c \in woken
      BY <2>3 DEF IInv, LockTypeOK, Granted
    <3>2. waiters[entry[c]][1] = c
      BY <3>1 DEF IInv, WokenShape
    <3>3. waiters[entry[c]] \in Seq(Coroutines)
      BY <3>1, <2>3 DEF IInv, LockTypeOK, LeaseShape, Granted
    <3> QED
      BY <3>1, <3>2, <3>3
  <2>4. ASSUME NEW d \in Coroutines, Exit(d) \/ CancelWaiting(d) PROVE FALSE
    BY <2>4 DEF IInv, LockTypeOK, Exit, CancelWaiting, Leave
  <2> QED
    BY <2>1, <2>2, <2>3, <2>4 DEF LockNext
<1> QED
  BY <1>1, LockInvariant, PTL DEF LockSpec, NoOvertaking

-----------------------------------------------------------------------------
(* The transport: the inductive invariant.                                   *)

Files == [exists : BOOLEAN, bytes : Seq(Payloads), synced : Nat]

FileOK(f) == f \in Files /\ f.synced <= Len(f.bytes) /\ (~f.exists => f = Missing)

\* The steps of a request that holds the lock.
Working == {"starting", "expiring", "reconciling", "receiving", "advancing", "recovering",
            "condemning", "failing", "checking", "accepting", "cancelling", "removing",
            "claiming"}

RequestStates ==
    [pc : Working \cup {"idle", "queued"},
     kind : {"none", "patch", "complete", "cancel", "validate"},
     offset : 0..Declared, seen : Rows, length : 0..MaxPatch,
     payload : Payloads \cup {None}, wrote : 0..MaxPatch]

(* The bytes behind the persisted offset are the first n of this body.       *)
Written(j, n) ==
    /\ file.exists /\ Size = row.received + n
    /\ \A i \in 1..n : file.bytes[row.received + i] = j.payload

(* What a request counts on, step by step: nobody else has changed the row   *)
(* it loaded, and the file is where its own writes have left it.             *)
Served(j) ==
    /\ j.pc \in Working \ {"recovering", "condemning", "failing", "removing"} => row = j.seen
    /\ j.pc = "starting" => row.state = "created"
    /\ j.pc \in {"reconciling", "receiving", "advancing", "recovering"} => row.state = "receiving"
    /\ j.pc \in {"starting", "reconciling", "receiving", "advancing"} => j.payload \in Payloads
    /\ j.pc \in {"idle", "queued", "starting", "reconciling"} => j.wrote = 0
    /\ j.pc = "receiving" => j.wrote <= j.length /\ Written(j, j.wrote)
    /\ j.pc = "advancing" => Written(j, j.length) /\ file.synced = Size
    /\ j.pc = "recovering" => file.exists /\ row.received <= Size
    /\ j.pc = "removing" => row.state = "cancelled"

(* Byte by byte, what was acknowledged is durable.                           *)
Durable ==
    row.state # "cancelled" /\ ~damaged =>
        /\ Len(acked) = row.received
        /\ row.received <= file.synced
        /\ \A i \in 1..row.received : file.bytes[i] = acked[i]

TransportInv ==
    /\ TypeOK
    /\ \A r \in Requests : req[r].pc \in Working <=> holder = r
    /\ (\E r \in Requests : req[r].pc # "idle") => row.state # "absent"
    /\ \A r \in Requests : Served(req[r])
    /\ Durable

-----------------------------------------------------------------------------
(* Types, files and requests.                                                *)

Sized == Declared \in Nat \ {0} /\ MaxPatch \in Nat \ {0} /\ None \notin Requests

LEMMA Typed ==
    /\ TypeOK => /\ row \in Rows /\ FileOK(file) /\ expired \in BOOLEAN
                 /\ holder \in Requests \cup {None} /\ req \in [Requests -> RequestStates]
                 /\ acked \in Seq(Payloads) /\ damaged \in BOOLEAN /\ calm \in BOOLEAN
    /\ /\ row \in Rows /\ FileOK(file) /\ expired \in BOOLEAN
       /\ holder \in Requests \cup {None} /\ req \in [Requests -> RequestStates]
       /\ acked \in Seq(Payloads) /\ damaged \in BOOLEAN /\ calm \in BOOLEAN
       => TypeOK
    /\ Sized
<1>1. RequestStates =
          [pc : {"idle", "queued", "starting", "expiring", "reconciling", "receiving",
                 "advancing", "recovering", "condemning", "failing", "checking",
                 "accepting", "cancelling", "removing", "claiming"},
           kind : {"none", "patch", "complete", "cancel", "validate"},
           offset : 0..Declared, seen : Rows, length : 0..MaxPatch,
           payload : Payloads \cup {None}, wrote : 0..MaxPatch]
  <2>1. Working \cup {"idle", "queued"} =
            {"idle", "queued", "starting", "expiring", "reconciling", "receiving",
                 "advancing", "recovering", "condemning", "failing", "checking",
                 "accepting", "cancelling", "removing", "claiming"}
    BY DEF Working
  <2> QED
    BY <2>1 DEF RequestStates
<1> QED
  BY <1>1, TransportAssumption DEF TypeOK, FileOK, Files, Size, Sized

LEMMA IdleTyped ==
    ASSUME Sized
    PROVE  /\ Absent \in Rows /\ Idle \in RequestStates /\ Idle.pc = "idle"
           /\ Served(Idle) /\ Served(Idle)'
<1>1. Absent \in Rows
  BY DEF Absent, Rows, States, Sized
<1> QED
  BY <1>1 DEF Idle, RequestStates, Sized, Served, Working

LEMMA MissingFile == FileOK(Missing) /\ Missing.exists = FALSE /\ Len(Missing.bytes) = 0
BY EmptySeq DEF Missing, FileOK, Files

(* What is cut off is the end; what is left is durable.                      *)
LEMMA Cut ==
    ASSUME FileOK(file), NEW n \in Nat, n <= Size
    PROVE  /\ FileOK(TruncatedTo(n))
           /\ TruncatedTo(n).exists = TRUE /\ TruncatedTo(n).synced = n
           /\ Len(TruncatedTo(n).bytes) = n
           /\ \A i \in 1..n : TruncatedTo(n).bytes[i] = file.bytes[i]
<1>1. file.bytes \in Seq(Payloads) /\ Size \in Nat /\ Size = Len(file.bytes)
  BY LenProperties DEF FileOK, Files, Size
<1>2. \A i \in 1..n : file.bytes[i] \in Payloads
  BY <1>1, ElementOfSeq
<1>3. /\ SubSeq(file.bytes, 1, n) \in Seq(Payloads)
      /\ Len(SubSeq(file.bytes, 1, n)) = n
      /\ \A i \in 1..n : SubSeq(file.bytes, 1, n)[i] = file.bytes[i]
  <2>1. /\ SubSeq(file.bytes, 1, n) \in Seq(Payloads)
        /\ Len(SubSeq(file.bytes, 1, n)) = IF 1 <= n THEN n - 1 + 1 ELSE 0
        /\ \A i \in 1..n - 1 + 1 : SubSeq(file.bytes, 1, n)[i] = file.bytes[1 + i - 1]
    BY <1>2, SubSeqProperties
  <2> QED
    BY <2>1
<1> QED
  BY <1>3 DEF TruncatedTo, FileOK, Files

(* One byte behind the last one.                                             *)
Longer(bytes, at, p) == SubSeq(bytes, 1, at) \o <<p>> \o SubSeq(bytes, at + 2, Len(bytes))

LEMMA OneMoreByte ==
    ASSUME NEW bytes \in Seq(Payloads), NEW p \in Payloads, NEW at \in Nat, at = Len(bytes)
    PROVE  /\ Longer(bytes, at, p) \in Seq(Payloads)
           /\ Len(Longer(bytes, at, p)) = at + 1
           /\ \A i \in 1..at : Longer(bytes, at, p)[i] = bytes[i]
           /\ Longer(bytes, at, p)[at + 1] = p
<1>1. at \in Nat /\ \A i \in 1..at : bytes[i] \in Payloads
  BY LenProperties, ElementOfSeq
<1>2. SubSeq(bytes, at + 2, Len(bytes)) = <<>>
  BY <1>1, SubSeqEmpty
<1>3. PICK front \in Seq(Payloads) :
         /\ front = SubSeq(bytes, 1, at) /\ Len(front) = at
         /\ \A i \in 1..at : front[i] = bytes[i]
  <2>1. /\ SubSeq(bytes, 1, at) \in Seq(Payloads)
        /\ Len(SubSeq(bytes, 1, at)) = IF 1 <= at THEN at - 1 + 1 ELSE 0
        /\ \A i \in 1..at - 1 + 1 : SubSeq(bytes, 1, at)[i] = bytes[1 + i - 1]
    BY <1>1, SubSeqProperties
  <2> QED
    BY <1>1, <2>1
<1>4. PICK one \in Seq(Payloads) : one = <<p>> /\ Len(one) = 1 /\ one[1] = p
  <2>1. <<p>> \in Seq(Payloads) /\ Len(<<p>>) = 1 /\ <<p>>[1] = p
    OBVIOUS
  <2> QED
    BY <2>1, Zenon
<1>5. PICK long \in Seq(Payloads) :
         /\ long = front \o one /\ Len(long) = at + 1
         /\ \A i \in 1..at + 1 : long[i] = IF i <= at THEN front[i] ELSE one[i - at]
  <2>1. /\ front \o one \in Seq(Payloads) /\ Len(front \o one) = Len(front) + Len(one)
        /\ \A i \in 1..Len(front) + Len(one) :
              (front \o one)[i] = IF i <= Len(front) THEN front[i] ELSE one[i - Len(front)]
    BY ConcatProperties
  <2>2. Len(front) = at /\ Len(one) = 1
    BY <1>3, <1>4
  <2> QED
    BY <2>1, <2>2, Zenon
<1>6. long \o <<>> = long
  BY <1>5, ConcatEmptySeq
<1>7. (\A i \in 1..at : long[i] = bytes[i]) /\ long[at + 1] = p
  <2>1. \A i \in 1..at : long[i] = bytes[i]
    <3>1. \A i \in 1..at : front[i] = bytes[i]
      BY <1>3
    <3>2. \A i \in 1..at : long[i] = front[i]
      BY <1>1, <1>5
    <3> QED
      BY <3>1, <3>2
  <2>2. long[at + 1] = one[at + 1 - at]
    BY <1>1, <1>5
  <2>3. one[1] = p /\ at + 1 - at = 1
    BY <1>4
  <2> QED
    BY <2>1, <2>2, <2>3
<1>8. Longer(bytes, at, p) = long
  <2>1. Longer(bytes, at, p) = front \o one \o <<>>
    BY <1>2, <1>3, <1>4, Zenon DEF Longer
  <2> QED
    BY <1>5, <1>6, <2>1, Zenon
<1> QED
  BY <1>5, <1>7, <1>8

-----------------------------------------------------------------------------
(* What a step does to the invariant.                                        *)

LEMMA Now ==
    ASSUME TransportInv
    PROVE  /\ Sized /\ TypeOK /\ Durable
           /\ row \in Rows /\ FileOK(file) /\ expired \in BOOLEAN
           /\ holder \in Requests \cup {None} /\ req \in [Requests -> RequestStates]
           /\ acked \in Seq(Payloads) /\ damaged \in BOOLEAN /\ calm \in BOOLEAN
           /\ row.received \in Nat /\ row.received <= Declared /\ Size \in Nat
<1>1. /\ Sized /\ TypeOK /\ Durable
      /\ row \in Rows /\ FileOK(file) /\ expired \in BOOLEAN
      /\ holder \in Requests \cup {None} /\ req \in [Requests -> RequestStates]
      /\ acked \in Seq(Payloads) /\ damaged \in BOOLEAN /\ calm \in BOOLEAN
  BY Typed DEF TransportInv
<1>2. Size \in Nat
  BY <1>1, LenProperties DEF FileOK, Files, Size
<1>3. row.received \in Nat /\ row.received <= Declared
  BY <1>1 DEF Rows, Sized
<1> QED
  BY <1>1, <1>2, <1>3

(* The request that holds the lock steps, or one that takes it or waits.     *)
LEMMA RequestSteps ==
    ASSUME TransportInv, NEW r \in Requests, holder \in {None, r}, NEW j \in RequestStates,
           req' = [req EXCEPT ![r] = j],
           holder' = IF j.pc \in Working THEN r ELSE None,
           row' \in Rows, row.state # "absent", row'.state # "absent",
           FileOK(file)', acked' \in Seq(Payloads),
           UNCHANGED <<expired, damaged, calm>>,
           Served(j)', Durable'
    PROVE  TransportInv'
<1>0. /\ Sized /\ req \in [Requests -> RequestStates]
      /\ expired \in BOOLEAN /\ damaged \in BOOLEAN /\ calm \in BOOLEAN
  BY Now
<1>1. req' \in [Requests -> RequestStates] /\ holder' \in Requests \cup {None}
      /\ req'[r] = j /\ \A q \in Requests \ {r} : req'[q] = req[q]
  BY <1>0
<1>2. TypeOK'
  BY <1>0, <1>1, Typed DEF TypeOK, FileOK, Files, RequestStates, Working, Size
<1>3. \A q \in Requests : req'[q].pc \in Working <=> holder' = q
  BY <1>0, <1>1 DEF TransportInv, Sized
<1>4. ASSUME NEW q \in Requests PROVE Served(req[q])'
  <2>1. CASE q = r
    BY <1>1, <2>1 DEF Served, Written
  <2>2. CASE q # r
    <3>1. req'[q] = req[q] /\ req[q].pc \notin Working /\ Served(req[q])
      BY <1>0, <1>1, <2>2 DEF TransportInv, Sized
    <3> QED
      BY <3>1 DEF Served, Working
  <2> QED
    BY <2>1, <2>2
<1> QED
  BY <1>0, <1>2, <1>3, <1>4 DEF TransportInv

(* A file that is left alone, grows or is cut behind the offset, and a row    *)
(* whose offset stays.                                                       *)
LEMMA StaysDurable ==
    ASSUME TransportInv, acked' = acked, damaged' = damaged, row'.received = row.received,
           row.state = "cancelled" => row'.state = "cancelled",
           row.received <= file.synced => row.received <= file'.synced,
           row.received <= file.synced =>
               \A i \in 1..row.received : file'.bytes[i] = file.bytes[i]
    PROVE  Durable'
BY Now DEF Durable

LEMMA Holding ==
    ASSUME TransportInv, NEW r \in Requests, req[r].pc \in Working
    PROVE  /\ holder = r /\ row.state # "absent" /\ Served(req[r])
           /\ req[r] \in RequestStates /\ req[r].seen \in Rows
BY Now DEF TransportInv, RequestStates, Working

LEMMA FinishSteps ==
    ASSUME TransportInv, NEW r \in Requests, holder \in {None, r}, Finish(r),
           row' \in Rows, row.state # "absent", row'.state # "absent",
           FileOK(file)', acked' \in Seq(Payloads),
           UNCHANGED <<expired, damaged, calm>>, Durable'
    PROVE  TransportInv'
<1>1. PICK j \in RequestStates : j = Idle
  BY Now, IdleTyped
<1>2. j.pc = "idle" /\ Served(j)'
  BY <1>1, Now, IdleTyped DEF Served, Written
<1>3. req' = [req EXCEPT ![r] = j] /\ holder' = None
  BY <1>1 DEF Finish
<1>4. j.pc \notin Working
  BY <1>2 DEF Working
<1> QED
  BY <1>2, <1>3, <1>4, RequestSteps

(* The request goes on with what it has.                                     *)
LEMMA GotoSteps ==
    ASSUME TransportInv, NEW r \in Requests, req[r].pc \in Working, NEW step \in Working,
           Goto(r, step),
           row' \in Rows, row'.state # "absent", FileOK(file)', acked' \in Seq(Payloads),
           UNCHANGED <<expired, damaged, calm>>, Durable',
           \A j \in RequestStates :
               j = [req[r] EXCEPT !.pc = step] => Served(j)'
    PROVE  TransportInv'
<1>0. holder = r /\ row.state # "absent" /\ req[r] \in RequestStates
  BY Holding
<1>1. PICK j \in RequestStates : j = [req[r] EXCEPT !.pc = step]
  <2>1. [req[r] EXCEPT !.pc = step] \in RequestStates
    BY <1>0 DEF RequestStates
  <2> QED
    BY <2>1, Zenon
<1>2. j.pc = step /\ Served(j)'
  BY <1>0, <1>1 DEF RequestStates
<1>3. req' = [req EXCEPT ![r] = j] /\ holder' = r
  BY <1>0, <1>1 DEF Goto
<1> QED
  BY <1>0, <1>2, <1>3, RequestSteps

-----------------------------------------------------------------------------
(* The row, by compare-and-swap.                                             *)

LEMMA SwapTyped ==
    ASSUME row \in Rows, NEW target \in States
    PROVE  /\ Swapped(target) \in Rows
           /\ Swapped(target).received = row.received /\ Swapped(target).state = target
<1>1. PICK v \in Nat : v = row.version + 1
  BY DEF Rows
<1>2. Swapped(target) = [row EXCEPT !.state = target, !.version = v]
  BY <1>1 DEF Swapped, Rows
<1> QED
  BY <1>2 DEF Rows

LEMMA SwappedRow ==
    ASSUME row \in Rows, NEW from \in Rows, NEW target \in States, Swaps(from, target)
    PROVE  /\ Swapped(target) \in Rows
           /\ Swapped(target).received = row.received /\ Swapped(target).state = target
           /\ row.state \notin Terminal \cup {"absent"} /\ target # "absent"
<1>1. target \in Allowed[row.state] /\ row.state \in States
  BY DEF Swaps, Rows
<1>2. row.state \notin Terminal \cup {"absent"} /\ target # "absent"
  <2>1. PICK s \in States : s = row.state
    BY <1>1
  <2>2. Allowed[s] = CASE s = "created"   -> {"receiving"} \cup Terminal
                       [] s = "receiving" -> {"received"} \cup Terminal
                       [] s = "received"  -> {"validating"} \cup Terminal
                       [] s = "validating" -> {"failed"}
                       [] OTHER           -> {}
    BY DEF Allowed
  <2>3. s \in {"created", "receiving", "received", "validating"}
    BY <1>1, <2>1, <2>2
  <2> QED
    BY <1>1, <2>1, <2>2, <2>3 DEF Terminal
<1> QED
  BY <1>2, SwapTyped

LEMMA TransitionSteps ==
    ASSUME TransportInv, NEW r \in Requests, req[r].pc \in Working,
           NEW from \in Rows, NEW target \in States, NEW step \in {"done", "removing"},
           Transition(r, from, target, step), step = "removing" => target = "cancelled",
           UNCHANGED <<file, expired, acked, damaged, calm>>
    PROVE  TransportInv'
<1>0. /\ holder = r /\ row.state # "absent" /\ row \in Rows /\ FileOK(file)
      /\ acked \in Seq(Payloads)
  BY Holding, Now
<1>1. FileOK(file)' /\ acked' \in Seq(Payloads)
  BY <1>0 DEF FileOK
<1>2. CASE row' = row /\ Finish(r)
  <2>1. Durable'
    BY <1>2, StaysDurable
  <2> QED
    BY <1>0, <1>1, <1>2, <2>1, FinishSteps
<1>3. CASE Swaps(from, target) /\ row' = Swapped(target)
  <2>1. /\ row' \in Rows /\ row'.state # "absent" /\ row'.received = row.received
        /\ row.state # "cancelled" /\ row'.state = target
    BY <1>0, <1>3, SwappedRow DEF Terminal
  <2>2. Durable'
    BY <2>1, StaysDurable
  <2>3. CASE Finish(r)
    BY <1>0, <1>1, <2>1, <2>2, <2>3, FinishSteps
  <2>4. CASE step = "removing" /\ Goto(r, "removing")
    <3>1. row'.state = "cancelled"
      BY <2>1, <2>4
    <3>2. ASSUME NEW j \in RequestStates, j = [req[r] EXCEPT !.pc = "removing"]
          PROVE  Served(j)'
      <4>1. j.pc = "removing"
        BY <3>2, Holding DEF RequestStates
      <4> QED
        BY <3>1, <4>1 DEF Served, Working
    <3> QED
      BY <1>0, <1>1, <2>1, <2>2, <2>4, <3>2, GotoSteps DEF Working
  <2> QED
    BY <1>3, <2>3, <2>4 DEF Transition
<1> QED
  BY <1>2, <1>3 DEF Transition

LEMMA TransitionsPreserve ==
    ASSUME TransportInv, NEW r \in Requests,
           Expire(r) \/ FailSession(r) \/ Condemn(r) \/ Accept(r) \/ CancelRow(r) \/ Claim(r)
    PROVE  TransportInv'
<1>1. /\ req[r].pc \in Working
      /\ UNCHANGED <<file, expired, acked, damaged, calm>>
  BY DEF Expire, FailSession, Condemn, Accept, CancelRow, Claim, Working
<1>2. PICK from \in Rows : from = req[r].seen
  BY <1>1, Holding
<1>3. PICK now \in Rows : now = row
  BY Now
<1>4. "expired" \in States /\ "failed" \in States /\ "received" \in States
      /\ "cancelled" \in States /\ "validating" \in States
  BY DEF States, Terminal
<1>5. CASE Condemn(r)
  <2>1. Transition(r, now, "failed", "done")
    BY <1>3, <1>5 DEF Condemn
  <2> QED
    BY <1>1, <1>4, <2>1, TransitionSteps
<1>6. CASE CancelRow(r)
  <2>1. Transition(r, from, "cancelled", "removing")
    BY <1>2, <1>6 DEF CancelRow
  <2> QED
    BY <1>1, <1>4, <2>1, TransitionSteps
<1>7. CASE Expire(r) \/ FailSession(r) \/ Accept(r) \/ Claim(r)
  <2>1. PICK target \in States : Transition(r, from, target, "done")
    BY <1>2, <1>4, <1>7 DEF Expire, FailSession, Accept, Claim
  <2> QED
    BY <1>1, <2>1, TransitionSteps
<1> QED
  BY <1>5, <1>6, <1>7

-----------------------------------------------------------------------------
(* Creation, arrival and the lock.                                           *)

LEMMA CreateSessionPreserves ==
    ASSUME TransportInv, CreateSession
    PROVE  TransportInv'
<1>0. row \in Rows /\ Sized
  BY Now
<1>1. /\ row.state = "absent" /\ row' = [row EXCEPT !.state = "created"]
      /\ file' = file /\ expired' = expired /\ holder' = holder /\ req' = req
      /\ acked' = acked /\ damaged' = damaged /\ calm' = calm
  BY DEF CreateSession
<1>2. row' \in Rows /\ row'.state = "created" /\ row'.received = row.received
  BY <1>0, <1>1 DEF Rows, States
<1>3. TypeOK'
  BY <1>1, <1>2 DEF TransportInv, TypeOK, Size
<1>4. \A q \in Requests : req[q].pc = "idle" /\ Served(req[q])
  BY <1>1 DEF TransportInv
<1>5. \A q \in Requests : Served(req[q])'
  BY <1>1, <1>4 DEF Served, Working
<1>6. Durable'
  BY <1>1, <1>2, StaysDurable
<1> QED
  BY <1>0, <1>1, <1>2, <1>3, <1>4, <1>5, <1>6 DEF TransportInv

LEMMA ArrivePreserves ==
    ASSUME TransportInv, NEW r \in Requests, NEW kind \in {"patch", "complete", "cancel", "validate"},
           NEW offset \in 0..Declared, Arrive(r, kind, offset)
    PROVE  TransportInv'
<1>0. /\ row \in Rows /\ Sized /\ FileOK(file) /\ acked \in Seq(Payloads)
      /\ req[r] = Idle /\ row.state # "absent"
      /\ row' = row /\ file' = file /\ expired' = expired /\ holder' = holder
      /\ acked' = acked /\ damaged' = damaged /\ calm' = calm
      /\ req \in [Requests -> RequestStates]
  BY Now DEF Arrive
<1>1. PICK j \in RequestStates :
         /\ req' = [req EXCEPT ![r] = j]
         /\ j.pc = "queued" /\ j.wrote = 0
  <2> DEFINE j == [Idle EXCEPT !.pc = "queued", !.kind = kind, !.offset = offset]
  <2>1. j \in RequestStates /\ j.pc = "queued" /\ j.wrote = 0
    BY <1>0, IdleTyped DEF RequestStates, Idle
  <2>2. req' = [req EXCEPT ![r] = j]
    BY <1>0 DEF Arrive
  <2> HIDE DEF j
  <2> QED
    BY <2>1, <2>2, Zenon
<1>2. req'[r] = j /\ \A q \in Requests \ {r} : req'[q] = req[q]
  BY <1>0, <1>1
<1>3. TypeOK'
  BY <1>0, <1>1, Typed, Now DEF TypeOK, RequestStates, Working, Size
<1>4. \A q \in Requests : req'[q].pc \in Working <=> holder' = q
  BY <1>0, <1>1, <1>2, IdleTyped DEF TransportInv, Working
<1>5. Served(j)'
  BY <1>1 DEF Served, Working
<1>6. ASSUME NEW q \in Requests PROVE Served(req[q])'
  <2>1. CASE q = r
    BY <1>2, <1>5, <2>1 DEF Served, Written
  <2>2. CASE q # r
    BY <1>0, <1>2, <2>2 DEF TransportInv, Served, Written, Size
  <2> QED
    BY <2>1, <2>2
<1>7. Durable'
  BY <1>0, StaysDurable
<1> QED
  BY <1>0, <1>3, <1>4, <1>6, <1>7 DEF TransportInv

LEMMA FirstStepIs ==
    ASSUME NEW j, FirstStep(row, j) # "done"
    PROVE  /\ FirstStep(row, j) \in Working \ {"recovering", "condemning", "failing", "receiving",
                                               "advancing"}
           /\ FirstStep(row, j) = "starting" => row.state = "created" /\ j.kind \notin {"cancel", "validate", "complete"}
           /\ FirstStep(row, j) = "reconciling" => row.state = "receiving"
           /\ FirstStep(row, j) \in {"starting", "reconciling"} => j.kind = "patch"
           /\ FirstStep(row, j) = "removing" => row.state = "cancelled"
BY DEF FirstStep, PatchEntry, CompleteEntry, CancelEntry, Working

LEMMA AcquirePreserves ==
    ASSUME TransportInv, NEW r \in Requests, NEW length \in 0..MaxPatch,
           NEW payload \in Payloads \cup {None},
           req[r].kind = "patch" => payload \in Payloads,
           Acquire(r, length, payload)
    PROVE  TransportInv'
<1>0. /\ row \in Rows /\ Sized /\ FileOK(file) /\ acked \in Seq(Payloads)
      /\ req[r].pc = "queued" /\ holder = None /\ row.state # "absent"
      /\ row' = row /\ file' = file /\ expired' = expired
      /\ acked' = acked /\ damaged' = damaged /\ calm' = calm
      /\ req[r] \in RequestStates /\ Served(req[r])
  BY Now DEF Acquire, TransportInv
<1>1. FileOK(file)' /\ acked' \in Seq(Payloads) /\ Durable'
  BY <1>0, StaysDurable DEF FileOK
<1>2. PICK j \in RequestStates :
         j = [req[r] EXCEPT !.seen = row, !.length = length, !.payload = payload]
  <2>1. [req[r] EXCEPT !.seen = row, !.length = length, !.payload = payload] \in RequestStates
    BY <1>0 DEF RequestStates
  <2> QED
    BY <2>1, Zenon
<1>3. j.seen = row /\ j.payload = payload /\ j.wrote = 0 /\ j.kind = req[r].kind
  BY <1>0, <1>2 DEF RequestStates, Served
<1>4. CASE FirstStep(row, j) = "done"
  <2>1. Finish(r)
    BY <1>2, <1>4 DEF Acquire, Finish
  <2> QED
    BY <1>0, <1>1, <2>1, FinishSteps
<1>5. CASE FirstStep(row, j) # "done"
  <2>1. PICK step \in Working : step = FirstStep(row, j)
    BY <1>5, FirstStepIs
  <2>2. PICK k \in RequestStates : k = [j EXCEPT !.pc = step]
    <3>1. [j EXCEPT !.pc = step] \in RequestStates
      BY DEF RequestStates
    <3> QED
      BY <3>1, Zenon
  <2>3. /\ k.pc = step /\ k.seen = row /\ k.payload = payload /\ k.wrote = 0
    BY <1>3, <2>2 DEF RequestStates
  <2>4. req' = [req EXCEPT ![r] = k] /\ holder' = r
    BY <1>2, <1>5, <2>1, <2>2 DEF Acquire
  <2>5. Served(k)'
    BY <1>0, <1>3, <1>5, <2>1, <2>3, FirstStepIs DEF Served
  <2> QED
    BY <1>0, <1>1, <2>3, <2>4, <2>5, RequestSteps
<1> QED
  BY <1>4, <1>5

-----------------------------------------------------------------------------
(* The body of a PATCH.                                                      *)

LEMMA StartReceivingPreserves ==
    ASSUME TransportInv, NEW r \in Requests, StartReceiving(r)
    PROVE  TransportInv'
<1>0. /\ req[r].pc = "starting" /\ req[r].pc \in Working
      /\ file' = file /\ expired' = expired /\ acked' = acked /\ damaged' = damaged
      /\ calm' = calm
  BY DEF StartReceiving, Working
<1>1. /\ holder = r /\ row.state # "absent" /\ row \in Rows /\ FileOK(file) /\ Served(req[r])
      /\ acked \in Seq(Payloads) /\ req[r] \in RequestStates /\ Sized
  BY <1>0, Holding, Now
<1>2. FileOK(file)' /\ acked' \in Seq(Payloads)
  BY <1>0, <1>1 DEF FileOK
<1>3. row.state = "created" /\ req[r].payload \in Payloads /\ req[r].wrote = 0
  BY <1>0, <1>1 DEF Served
<1>4. CASE row' = row /\ Finish(r)
  <2>1. Durable'
    BY <1>0, <1>4, StaysDurable
  <2> QED
    BY <1>0, <1>1, <1>2, <1>4, <2>1, FinishSteps
<1>5. CASE row' = Swapped("receiving")
  <2>1. row' \in Rows /\ row'.received = row.received /\ row'.state = "receiving"
    <3>1. "receiving" \in States
      BY DEF States
    <3> QED
      BY <1>1, <1>5, <3>1, SwapTyped
  <2>2. Durable'
    BY <1>0, <1>3, <2>1, StaysDurable
  <2>3. CASE Finish(r)
    BY <1>0, <1>1, <1>2, <2>1, <2>2, <2>3, FinishSteps
  <2>4. CASE req' = [req EXCEPT ![r].pc = "reconciling", ![r].seen = row'] /\ holder' = holder
    <3>1. PICK now \in Rows : now = row'
      BY <2>1
    <3>2. PICK j \in RequestStates : j = [req[r] EXCEPT !.pc = "reconciling", !.seen = now]
      <4>1. [req[r] EXCEPT !.pc = "reconciling", !.seen = now] \in RequestStates
        BY <1>1 DEF RequestStates, Working
      <4> QED
        BY <4>1, Zenon
    <3>3. /\ j.pc = "reconciling" /\ j.seen = now /\ j.payload = req[r].payload
          /\ j.wrote = req[r].wrote
      BY <1>1, <3>2 DEF RequestStates
    <3>4. req' = [req EXCEPT ![r] = j]
      BY <2>4, <3>1, <3>2
    <3>5. Served(j)'
      BY <1>3, <2>1, <3>1, <3>3 DEF Served, Working
    <3>6. j.pc \in Working /\ holder' = r
      BY <1>1, <2>4, <3>3 DEF Working
    <3> QED
      BY <1>0, <1>1, <1>2, <2>1, <2>2, <3>4, <3>5, <3>6, RequestSteps
  <2> QED
    BY <1>5, <2>3, <2>4 DEF StartReceiving
<1> QED
  BY <1>4, <1>5 DEF StartReceiving

(* What a step that leaves the row alone has to show.                        *)
LEMMA FileSteps ==
    ASSUME TransportInv, NEW r \in Requests, req[r].pc \in Working,
           UNCHANGED <<row, expired, acked, damaged, calm>>,
           FileOK(file)',
           row.received <= file.synced => row.received <= file'.synced,
           row.received <= file.synced =>
               \A i \in 1..row.received : file'.bytes[i] = file.bytes[i],
           \/ Finish(r)
           \/ \E step \in Working : /\ Goto(r, step)
                                    /\ \A j \in RequestStates :
                                          j = [req[r] EXCEPT !.pc = step] => Served(j)'
    PROVE  TransportInv'
<1>0. /\ holder = r /\ row.state # "absent" /\ row \in Rows /\ acked \in Seq(Payloads)
      /\ row' \in Rows /\ acked' \in Seq(Payloads) /\ row'.state # "absent"
  BY Holding, Now
<1>1. Durable'
  BY StaysDurable
<1>2. CASE Finish(r)
  BY <1>0, <1>1, <1>2, FinishSteps
<1>3. ASSUME NEW step \in Working, Goto(r, step),
             \A j \in RequestStates : j = [req[r] EXCEPT !.pc = step] => Served(j)'
      PROVE  TransportInv'
  BY <1>0, <1>1, <1>3, GotoSteps
<1> QED
  BY <1>2, <1>3

LEMMA PreparePreserves ==
    ASSUME TransportInv, NEW r \in Requests, Prepare(r)
    PROVE  TransportInv'
<1>0. /\ req[r].pc = "reconciling" /\ req[r].pc \in Working
      /\ row' = row /\ expired' = expired /\ acked' = acked /\ damaged' = damaged
      /\ calm' = calm
  BY DEF Prepare, Working
<1>1. /\ row \in Rows /\ FileOK(file) /\ Served(req[r]) /\ req[r] \in RequestStates
      /\ row.received \in Nat /\ Size \in Nat
  BY <1>0, Holding, Now
<1>2. /\ row = req[r].seen /\ row.state = "receiving" /\ req[r].payload \in Payloads
      /\ req[r].wrote = 0 /\ req[r].length \in Nat
  BY <1>0, <1>1, Now DEF Served, Working, RequestStates, Sized
<1> DEFINE n == row.received
<1>3. file.exists \in BOOLEAN /\ file.synced \in Nat /\ file.synced <= Size
  BY <1>1 DEF FileOK, Files, Size
<1>4. ASSUME file'.exists, Len(file'.bytes) = n, Goto(r, "receiving"),
             NEW j \in RequestStates, j = [req[r] EXCEPT !.pc = "receiving"]
      PROVE  Served(j)'
  <2>1. /\ j.pc = "receiving" /\ j.seen = row /\ j.payload \in Payloads /\ j.wrote = 0
        /\ 0 <= j.length
    BY <1>1, <1>2, <1>4 DEF RequestStates
  <2>2. Written(j, j.wrote)'
    BY <1>0, <1>1, <1>4, <2>1 DEF Written, Size
  <2> QED
    BY <1>0, <1>2, <2>1, <2>2 DEF Served, Working
<1>5. CASE file' = [Missing EXCEPT !.exists = TRUE] /\ n = 0 /\ Goto(r, "receiving")
  <2>1. FileOK(file)' /\ file'.exists /\ Len(file'.bytes) = 0 /\ file'.synced = 0
    <3>1. file' = [exists |-> TRUE, bytes |-> <<>>, synced |-> 0]
      BY <1>5 DEF Missing
    <3>2. <<>> \in Seq(Payloads) /\ Len(<<>>) = 0
      OBVIOUS
    <3> QED
      BY <3>1, <3>2 DEF FileOK, Files
  <2>2. /\ row.received <= file'.synced
        /\ \A i \in 1..row.received : file'.bytes[i] = file.bytes[i]
    BY <1>1, <1>5, <2>1
  <2>3. "receiving" \in Working
    BY DEF Working
  <2>4. \A j \in RequestStates : j = [req[r] EXCEPT !.pc = "receiving"] => Served(j)'
    BY <1>4, <1>5, <2>1
  <2> QED
    BY <1>0, <1>5, <2>1, <2>2, <2>3, <2>4, FileSteps
<1>6. CASE file' = file /\ file.exists /\ Size = n /\ Goto(r, "receiving")
  <2>1. FileOK(file)'
    BY <1>1, <1>6 DEF FileOK
  <2> QED
    BY <1>0, <1>4, <1>6, <2>1, FileSteps DEF Working, Size
<1>7. CASE Ahead(n) /\ file' = TruncatedTo(n) /\ (Goto(r, "receiving") \/ Finish(r))
  <2>1. n <= Size
    BY <1>1, <1>7 DEF Ahead
  <2>2. /\ FileOK(TruncatedTo(n)) /\ TruncatedTo(n).exists = TRUE /\ TruncatedTo(n).synced = n
        /\ Len(TruncatedTo(n).bytes) = n
        /\ \A i \in 1..n : TruncatedTo(n).bytes[i] = file.bytes[i]
    BY <1>1, <2>1, Cut
  <2>3. FileOK(file)'
    BY <1>7, <2>2 DEF FileOK
  <2> QED
    BY <1>0, <1>1, <1>4, <1>7, <2>2, <2>3, FileSteps DEF Working
<1>8. CASE file' = file /\ (Goto(r, "failing") \/ Finish(r))
  <2>1. FileOK(file)'
    BY <1>1, <1>8 DEF FileOK
  <2>2. ASSUME NEW j \in RequestStates, j = [req[r] EXCEPT !.pc = "failing"]
        PROVE  Served(j)'
    <3>1. j.pc = "failing"
      BY <1>1, <2>2 DEF RequestStates
    <3> QED
      BY <3>1 DEF Served, Working
  <2> QED
    BY <1>0, <1>8, <2>1, <2>2, FileSteps DEF Working
<1> QED
  BY <1>0, <1>2, <1>5, <1>6, <1>7, <1>8 DEF Prepare

LEMMA LeastOfTwo ==
    ASSUME NEW m \in Nat, NEW n \in Nat, m <= n
    PROVE  Min({m, n}) = m
<1> DEFINE Least(x) == x \in {m, n} /\ \A y \in {m, n} : x <= y
<1>1. Least(m)
  OBVIOUS
<1>2. \A x : Least(x) => x = m
  OBVIOUS
<1>3. Min({m, n}) = CHOOSE x : Least(x)
  BY DEF Min
<1> HIDE DEF Least
<1> QED
  BY <1>1, <1>2, <1>3, Zenon

LEMMA WriteBytePreserves ==
    ASSUME TransportInv, NEW r \in Requests, WriteByte(r)
    PROVE  TransportInv'
<1>0. /\ req[r].pc = "receiving" /\ req[r].pc \in Working /\ req[r].wrote < req[r].length
      /\ row' = row /\ expired' = expired /\ acked' = acked /\ damaged' = damaged
      /\ calm' = calm /\ holder' = holder
      /\ req' = [req EXCEPT ![r].wrote = @ + 1]
  BY DEF WriteByte, Working
<1>1. /\ row \in Rows /\ FileOK(file) /\ Served(req[r]) /\ req[r] \in RequestStates
      /\ row.received \in Nat /\ Size \in Nat /\ holder = r /\ row.state # "absent"
      /\ acked \in Seq(Payloads) /\ Sized
  BY <1>0, Holding, Now
<1>2. PICK k \in RequestStates : k = req[r]
  BY <1>1
<1>3. /\ k.pc = "receiving" /\ row = k.seen /\ row.state = "receiving" /\ k.payload \in Payloads
      /\ k.wrote \in Nat /\ k.length \in Nat /\ k.wrote < k.length /\ k.length <= MaxPatch
      /\ file.exists /\ Size = row.received + k.wrote
      /\ \A i \in 1..k.wrote : file.bytes[row.received + i] = k.payload
  BY <1>0, <1>1, <1>2 DEF Served, Working, Written, RequestStates, Sized
<1>4. PICK at \in Nat, bytes \in Seq(Payloads), synced \in Nat :
         /\ bytes = file.bytes /\ at = Len(bytes) /\ at = row.received + k.wrote
         /\ synced = file.synced /\ synced <= at
  BY <1>1, <1>3 DEF FileOK, Files, Size
<1>p. PICK p \in Payloads : p = k.payload
  BY <1>3
<1>l. PICK longer : longer = Longer(bytes, at, p)
  OBVIOUS
<1>5. /\ longer \in Seq(Payloads) /\ Len(longer) = at + 1
      /\ \A i \in 1..at : longer[i] = file.bytes[i]
      /\ longer[at + 1] = k.payload
  <2>1. /\ longer \in Seq(Payloads) /\ Len(longer) = at + 1
        /\ \A i \in 1..at : longer[i] = bytes[i]
        /\ longer[at + 1] = p
    <3>1. at = Len(bytes)
      BY <1>4
    <3>2. Longer(bytes, at, p) \in Seq(Payloads)
      BY <3>1, OneMoreByte
    <3>3. Len(Longer(bytes, at, p)) = at + 1
      BY <3>1, OneMoreByte
    <3>4. \A i \in 1..at : Longer(bytes, at, p)[i] = bytes[i]
      BY <3>1, OneMoreByte, ZenonT(60)
    <3>5. Longer(bytes, at, p)[at + 1] = p
      BY <3>1, OneMoreByte
    <3> QED
      BY <1>l, <3>2, <3>3, <3>4, <3>5
  <2> QED
    BY <1>4, <1>p, <2>1
<1>6. Min({file.synced, at}) = file.synced
  <2>1. Min({synced, at}) = synced
    BY <1>4, LeastOfTwo, Zenon
  <2> QED
    BY <1>4, <2>1
<1>7. file' = [file EXCEPT !.bytes = longer, !.synced = file.synced]
  BY <1>2, <1>3, <1>4, <1>p, <1>l, <1>6, ZenonT(60) DEF WriteByte, Longer
<1>8. /\ FileOK(file)' /\ file'.exists /\ file'.synced = file.synced
      /\ file'.bytes = longer
  <2>1. /\ file \in Files /\ file.exists = TRUE
    BY <1>1, <1>3 DEF FileOK
  <2>2. /\ file' \in Files /\ file'.exists = TRUE /\ file'.synced = synced
        /\ file'.bytes = longer
    BY <1>4, <1>5, <1>7, <2>1 DEF Files
  <2> QED
    BY <1>4, <1>5, <2>2 DEF FileOK
<1>9. PICK j \in RequestStates : j = [k EXCEPT !.wrote = k.wrote + 1]
  <2>1. PICK w \in 0..MaxPatch : w = k.wrote + 1
    BY <1>1, <1>3 DEF Sized
  <2>2. [k EXCEPT !.wrote = w] \in RequestStates
    BY DEF RequestStates
  <2> QED
    BY <2>1, <2>2
<1>10. /\ j.pc = "receiving" /\ j.seen = row /\ j.payload = k.payload
       /\ j.wrote = k.wrote + 1 /\ j.length = k.length
  BY <1>3, <1>9 DEF RequestStates
<1>11. Written(j, j.wrote)'
  <2>1. Len(file'.bytes) = row.received + j.wrote
    BY <1>1, <1>3, <1>4, <1>5, <1>8, <1>10, SMTT(60)
  <2>2. ASSUME NEW i \in 1..j.wrote PROVE file'.bytes[row.received + i] = j.payload
    <3>1. CASE i <= k.wrote
      <4>1. row.received + i \in 1..at /\ i \in 1..k.wrote
        BY <1>1, <1>3, <1>4, <3>1, SMTT(40)
      <4> QED
        BY <1>3, <1>5, <1>8, <1>10, <4>1
    <3>2. CASE i = k.wrote + 1
      <4>1. row.received + i = at + 1
        BY <1>1, <1>3, <1>4, <3>2, SMTT(60)
      <4> QED
        BY <1>5, <1>8, <1>10, <4>1
    <3> QED
      BY <1>3, <1>10, <3>1, <3>2
  <2> QED
    BY <1>0, <1>8, <2>1, <2>2 DEF Written, Size
<1>12. Served(j)'
  BY <1>0, <1>3, <1>10, <1>11 DEF Served, Working
<1>13. Durable'
  <2>1. row.received <= file.synced => \A i \in 1..row.received : file'.bytes[i] = file.bytes[i]
    BY <1>1, <1>4, <1>5, <1>8
  <2> QED
    BY <1>0, <1>8, <2>1, StaysDurable
<1>14. req' = [req EXCEPT ![r] = j]
  BY <1>0, <1>2, <1>9
<1> QED
  BY <1>0, <1>1, <1>8, <1>10, <1>12, <1>13, <1>14, RequestSteps DEF Working

LEMMA AbortBodyPreserves ==
    ASSUME TransportInv, NEW r \in Requests, AbortBody(r)
    PROVE  TransportInv'
<1>0. /\ req[r].pc = "receiving" /\ req[r].pc \in Working /\ Goto(r, "recovering")
      /\ row' = row /\ file' = file /\ expired' = expired /\ acked' = acked
      /\ damaged' = damaged /\ calm' = calm /\ "recovering" \in Working
  BY DEF AbortBody, Working
<1>1. /\ FileOK(file) /\ Served(req[r]) /\ req[r] \in RequestStates
      /\ row.received \in Nat /\ Size \in Nat
  BY <1>0, Holding, Now
<1>2. req[r].wrote \in Nat
  BY <1>1, Now DEF RequestStates, Sized
<1>3. row.state = "receiving" /\ file.exists /\ row.received <= Size
  BY <1>0, <1>1, <1>2 DEF Served, Written
<1>4. ASSUME NEW j \in RequestStates, j = [req[r] EXCEPT !.pc = "recovering"]
      PROVE  Served(j)'
  <2>1. j.pc = "recovering"
    BY <1>1, <1>4 DEF RequestStates
  <2> QED
    BY <1>0, <1>3, <2>1 DEF Served, Working, Size
<1>5. FileOK(file)'
  BY <1>0, <1>1 DEF FileOK
<1> QED
  BY <1>0, <1>4, <1>5, FileSteps

LEMMA FsyncPreserves ==
    ASSUME TransportInv, NEW r \in Requests, Fsync(r)
    PROVE  TransportInv'
<1>0. /\ req[r].pc = "receiving" /\ req[r].pc \in Working /\ Goto(r, "advancing")
      /\ row' = row /\ expired' = expired /\ acked' = acked /\ damaged' = damaged
      /\ calm' = calm /\ "advancing" \in Working /\ req[r].wrote = req[r].length
      /\ file' = [file EXCEPT !.synced = Size]
  BY DEF Fsync, Working
<1>1. /\ FileOK(file) /\ Served(req[r]) /\ req[r] \in RequestStates
      /\ row.received \in Nat /\ Size \in Nat
  BY <1>0, Holding, Now
<1>2. PICK k \in RequestStates : k = req[r]
  BY <1>1
<1>3. /\ row = k.seen /\ row.state = "receiving" /\ k.payload \in Payloads
      /\ Written(k, k.length) /\ file.exists = TRUE
  BY <1>0, <1>1, <1>2 DEF Served, Working, Written, FileOK, Files
<1>4. /\ file'.exists = TRUE /\ file'.bytes = file.bytes /\ file'.synced = Size
      /\ file' \in Files
  BY <1>0, <1>1, <1>3 DEF FileOK, Files
<1>5. FileOK(file)'
  BY <1>1, <1>4 DEF FileOK, Size
<1>6. ASSUME NEW j \in RequestStates, j = [req[r] EXCEPT !.pc = "advancing"]
      PROVE  Served(j)'
  <2>1. /\ j.pc = "advancing" /\ j.seen = k.seen /\ j.payload = k.payload
        /\ j.length = k.length
    BY <1>2, <1>6 DEF RequestStates
  <2>2. Written(j, j.length)'
    BY <1>0, <1>3, <1>4, <2>1 DEF Written, Size
  <2>3. (file.synced = Size)'
    BY <1>4 DEF Size
  <2> QED
    BY <1>0, <1>3, <2>1, <2>2, <2>3 DEF Served, Working
<1>7. row.received <= file.synced => row.received <= file'.synced
  BY <1>1, <1>4 DEF FileOK, Files, Size
<1> QED
  BY <1>0, <1>4, <1>5, <1>6, <1>7, FileSteps

(* The offset follows the bytes that were written and fsynced.               *)
LEMMA AdvancePreserves ==
    ASSUME TransportInv, NEW r \in Requests, Advance(r)
    PROVE  TransportInv'
<1>0. /\ req[r].pc = "advancing" /\ req[r].pc \in Working
      /\ file' = file /\ expired' = expired /\ damaged' = damaged /\ calm' = calm
      /\ "recovering" \in Working
  BY DEF Advance, Working
<1>1. /\ row \in Rows /\ FileOK(file) /\ Served(req[r]) /\ req[r] \in RequestStates
      /\ row.received \in Nat /\ Size \in Nat /\ holder = r /\ row.state # "absent"
      /\ acked \in Seq(Payloads) /\ Sized /\ Durable
  BY <1>0, Holding, Now
<1>2. PICK length \in 0..MaxPatch, p \in Payloads :
         /\ length = req[r].length /\ p = req[r].payload
  BY <1>0, <1>1 DEF Served, RequestStates
<1>3. /\ row.state = "receiving" /\ file.exists /\ Size = row.received + length
      /\ (\A i \in 1..length : file.bytes[row.received + i] = p) /\ file.synced = Size
      /\ length \in Nat
  BY <1>0, <1>1, <1>2 DEF Served, Written, Sized
<1>4. FileOK(file)'
  BY <1>0, <1>1 DEF FileOK
<1>5. CASE row' = row /\ acked' = acked /\ Goto(r, "recovering")
  <2>1. ASSUME NEW j \in RequestStates, j = [req[r] EXCEPT !.pc = "recovering"]
        PROVE  Served(j)'
    <3>1. j.pc = "recovering"
      BY <1>1, <2>1 DEF RequestStates
    <3>2. row'.state = "receiving" /\ file'.exists /\ (row.received <= Size)'
      BY <1>0, <1>1, <1>3, <1>5 DEF Size
    <3> QED
      BY <3>1, <3>2 DEF Served, Working
  <2> QED
    BY <1>0, <1>4, <1>5, <2>1, FileSteps
<1> DEFINE sent == [i \in 1..length |-> p]
<1>6. CASE /\ row' = [row EXCEPT !.received = @ + length, !.version = @ + 1]
           /\ row.received + length <= Declared
           /\ acked' = acked \o sent
           /\ Finish(r) \/ Goto(r, "recovering")
  <2>1. /\ row' \in Rows /\ row'.state = "receiving" /\ row'.received = row.received + length
        /\ row'.state # "absent"
    <3>1. PICK v \in Nat, n \in 0..Declared : v = row.version + 1 /\ n = row.received + length
      BY <1>1, <1>3, <1>6 DEF Rows, Sized
    <3>2. row' = [row EXCEPT !.received = n, !.version = v]
      BY <1>1, <1>6, <3>1 DEF Rows
    <3> QED
      BY <1>1, <1>3, <3>1, <3>2 DEF Rows
  <2>2. PICK body \in Seq(Payloads) :
           body = sent /\ Len(body) = length /\ \A i \in 1..length : body[i] = p
    <3>1. sent \in Seq(Payloads) /\ Len(sent) = length /\ \A i \in 1..length : sent[i] = p
      BY <1>3
    <3> QED
      BY <3>1, Zenon
  <2>3. PICK before \in Seq(Payloads) : before = acked
    BY <1>1
  <2>4. /\ acked' \in Seq(Payloads) /\ Len(acked') = Len(before) + length
        /\ \A i \in 1..Len(before) + length :
              acked'[i] = IF i <= Len(before) THEN before[i] ELSE body[i - Len(before)]
    <3>1. /\ before \o body \in Seq(Payloads) /\ Len(before \o body) = Len(before) + Len(body)
          /\ \A i \in 1..Len(before) + Len(body) :
                (before \o body)[i] = IF i <= Len(before) THEN before[i]
                                      ELSE body[i - Len(before)]
      BY ConcatProperties
    <3>2. acked' = before \o body /\ Len(body) = length
      BY <1>6, <2>2, <2>3
    <3> QED
      BY <3>1, <3>2, Zenon
  <2>5. Durable'
    <3>1. SUFFICES ASSUME ~damaged
                   PROVE  /\ Len(acked') = row'.received
                          /\ row'.received <= file'.synced
                          /\ \A i \in 1..row'.received : file'.bytes[i] = acked'[i]
      BY <1>0 DEF Durable
    <3>2. /\ Len(before) = row.received
          /\ \A i \in 1..row.received : file.bytes[i] = before[i]
      BY <1>1, <1>3, <2>3, <3>1 DEF Durable
    <3>3. ASSUME NEW i \in 1..row.received + length
          PROVE  file.bytes[i] = acked'[i]
      <4>1. CASE i <= row.received
        BY <1>1, <1>3, <2>4, <3>2, <4>1
      <4>2. CASE i > row.received
        <5>1. PICK m \in 1..length : i = row.received + m
          <6>1. i - row.received \in 1..length /\ i = row.received + (i - row.received)
            BY <1>1, <1>3, <4>2
          <6> QED
            BY <6>1
        <5>2. file.bytes[i] = p
          BY <1>3, <5>1
        <5>3. acked'[i] = body[m]
          BY <1>1, <1>3, <2>4, <3>2, <4>2, <5>1, SMTT(60)
        <5> QED
          BY <2>2, <5>2, <5>3
      <4> QED
        BY <1>1, <1>3, <4>1, <4>2
    <3> QED
      BY <1>0, <1>1, <1>3, <2>1, <2>4, <3>2, <3>3
  <2>6. CASE Finish(r)
    BY <1>0, <1>1, <1>4, <2>1, <2>4, <2>5, <2>6, FinishSteps
  <2>7. CASE Goto(r, "recovering")
    <3>1. ASSUME NEW j \in RequestStates, j = [req[r] EXCEPT !.pc = "recovering"]
          PROVE  Served(j)'
      <4>1. j.pc = "recovering"
        BY <1>1, <3>1 DEF RequestStates
      <4>2. file'.exists /\ (row.received <= Size)'
        BY <1>0, <1>1, <1>3, <2>1 DEF Size
      <4> QED
        BY <2>1, <4>1, <4>2 DEF Served, Working
    <3> QED
      BY <1>0, <1>1, <1>4, <2>1, <2>4, <2>5, <2>7, <3>1, GotoSteps
  <2> QED
    BY <1>6, <2>6, <2>7
<1> QED
  BY <1>2, <1>5, <1>6 DEF Advance

LEMMA RecoverPreserves ==
    ASSUME TransportInv, NEW r \in Requests, Recover(r)
    PROVE  TransportInv'
<1>0. /\ req[r].pc = "recovering" /\ req[r].pc \in Working
      /\ row' = row /\ expired' = expired /\ acked' = acked /\ damaged' = damaged
      /\ calm' = calm /\ "condemning" \in Working
  BY DEF Recover, Working
<1>1. /\ FileOK(file) /\ Served(req[r]) /\ req[r] \in RequestStates
      /\ row.received \in Nat /\ Size \in Nat
  BY <1>0, Holding, Now
<1>2. file.exists /\ row.received <= Size
  BY <1>0, <1>1 DEF Served
<1> DEFINE n == row.received
<1>3. file' \in {file, TruncatedTo(n)} /\ (Finish(r) \/ Goto(r, "condemning"))
  <2>1. ~Behind(n)
    BY <1>1, <1>2 DEF Behind
  <2>2. \/ file' \in {file, TruncatedTo(n)} /\ (Finish(r) \/ Goto(r, "condemning"))
        \/ Behind(n)
    BY DEF Recover
  <2> QED
    BY <2>1, <2>2
<1>4. /\ FileOK(TruncatedTo(n)) /\ TruncatedTo(n).synced = n
      /\ \A i \in 1..n : TruncatedTo(n).bytes[i] = file.bytes[i]
  BY <1>1, <1>2, Cut
<1>5. /\ FileOK(file)'
      /\ row.received <= file.synced => row.received <= file'.synced
      /\ \A i \in 1..n : file'.bytes[i] = file.bytes[i]
  <2>1. CASE file' = file
    BY <1>1, <2>1 DEF FileOK
  <2>2. CASE file' = TruncatedTo(n)
    BY <1>1, <1>4, <2>2 DEF FileOK
  <2> QED
    BY <1>3, <2>1, <2>2
<1>6. ASSUME NEW j \in RequestStates, j = [req[r] EXCEPT !.pc = "condemning"]
      PROVE  Served(j)'
  <2>1. j.pc = "condemning"
    BY <1>1, <1>6 DEF RequestStates
  <2> QED
    BY <2>1 DEF Served, Working
<1> QED
  BY <1>0, <1>3, <1>5, <1>6, FileSteps

-----------------------------------------------------------------------------
(* The other steps.                                                          *)

LEMMA CheckStagedPreserves ==
    ASSUME TransportInv, NEW r \in Requests, CheckStaged(r)
    PROVE  TransportInv'
<1>0. /\ req[r].pc = "checking" /\ req[r].pc \in Working
      /\ row' = row /\ expired' = expired /\ acked' = acked /\ damaged' = damaged
      /\ calm' = calm /\ "failing" \in Working /\ "accepting" \in Working
  BY DEF CheckStaged, Working
<1>1. /\ FileOK(file) /\ Served(req[r]) /\ req[r] \in RequestStates
      /\ row.received \in Nat /\ Size \in Nat
  BY <1>0, Holding, Now
<1> DEFINE n == row.received
<1>2. row = req[r].seen /\ req[r].seen.received = n
  BY <1>0, <1>1 DEF Served, Working
<1>3. ASSUME NEW step \in {"failing", "accepting"}, Goto(r, step),
             NEW j \in RequestStates, j = [req[r] EXCEPT !.pc = step]
      PROVE  Served(j)'
  <2>1. j.pc = step /\ j.seen = row
    BY <1>1, <1>2, <1>3 DEF RequestStates
  <2> QED
    BY <1>0, <2>1 DEF Served, Working
<1>4. CASE file' = file /\ (Finish(r) \/ Goto(r, "failing") \/ Goto(r, "accepting"))
  <2>1. FileOK(file)'
    BY <1>1, <1>4 DEF FileOK
  <2> QED
    BY <1>0, <1>3, <1>4, <2>1, FileSteps
<1>5. CASE Ahead(n) /\ file' = TruncatedTo(n) /\ Goto(r, "failing")
  <2>1. n <= Size
    BY <1>1, <1>5 DEF Ahead
  <2>2. /\ FileOK(TruncatedTo(n)) /\ TruncatedTo(n).synced = n
        /\ \A i \in 1..n : TruncatedTo(n).bytes[i] = file.bytes[i]
    BY <1>1, <2>1, Cut
  <2>3. FileOK(file)'
    BY <1>5, <2>2 DEF FileOK
  <2> QED
    BY <1>0, <1>1, <1>3, <1>5, <2>2, <2>3, FileSteps
<1> QED
  BY <1>2, <1>4, <1>5 DEF CheckStaged

LEMMA RemoveFilePreserves ==
    ASSUME TransportInv, NEW r \in Requests, RemoveFile(r)
    PROVE  TransportInv'
<1>0. /\ req[r].pc = "removing" /\ req[r].pc \in Working /\ Finish(r)
      /\ file' \in {file, Missing}
      /\ row' = row /\ expired' = expired /\ acked' = acked /\ damaged' = damaged
      /\ calm' = calm
  BY DEF RemoveFile, Working
<1>1. /\ FileOK(file) /\ Served(req[r]) /\ row \in Rows /\ acked \in Seq(Payloads)
      /\ holder = r /\ row.state # "absent"
  BY <1>0, Holding, Now
<1>2. Durable'
  BY <1>0, <1>1 DEF Served, Durable
<1>3. FileOK(file)'
  BY <1>0, <1>1, MissingFile DEF FileOK
<1> QED
  BY <1>0, <1>1, <1>2, <1>3, FinishSteps

(* The process or the machine stops: nobody is served any more.              *)
LEMMA Resets ==
    ASSUME TransportInv, Volatile, FileOK(file)', Durable'
    PROVE  TransportInv'
<1>0. /\ row \in Rows /\ Sized /\ acked \in Seq(Payloads)
      /\ expired \in BOOLEAN /\ damaged \in BOOLEAN /\ calm \in BOOLEAN
      /\ row' = row /\ expired' = expired /\ acked' = acked /\ damaged' = damaged
      /\ calm' = calm /\ holder' = None /\ row.state # "absent"
      /\ req' = [r \in Requests |-> Idle]
  BY Now DEF Volatile
<1>1. PICK j \in RequestStates : j = Idle /\ j.pc = "idle" /\ Served(j)'
  BY <1>0, IdleTyped
<1>2. /\ \A q \in Requests : req'[q] = j
      /\ req' \in [Requests -> RequestStates] /\ holder' \in Requests \cup {None}
  BY <1>0, <1>1
<1>3. TypeOK'
  BY <1>0, <1>2, Typed DEF TypeOK, FileOK, Files, RequestStates, Working, Size
<1>4. \A q \in Requests : req'[q].pc \in Working <=> holder' = q
  BY <1>0, <1>1, <1>2 DEF Sized, Working
<1>5. \A q \in Requests : Served(req[q])'
  BY <1>1, <1>2 DEF Served, Written
<1> QED
  BY <1>0, <1>3, <1>4, <1>5 DEF TransportInv

LEMMA StopsPreserve ==
    ASSUME TransportInv, ProcessStops \/ PowerLoss
    PROVE  TransportInv'
<1>0. /\ FileOK(file) /\ row.received \in Nat /\ Size \in Nat
      /\ file.synced \in Nat /\ file.synced <= Size
      /\ Volatile /\ row' = row /\ acked' = acked /\ damaged' = damaged
  BY Now DEF FileOK, Files, Size, ProcessStops, PowerLoss, Volatile
<1>1. CASE file' = file
  <2>1. FileOK(file)' /\ Durable'
    BY <1>0, <1>1, StaysDurable DEF FileOK
  <2> QED
    BY <1>0, <2>1, Resets
<1>2. ASSUME NEW n \in file.synced..Size, file' = TruncatedTo(n)
      PROVE  TransportInv'
  <2>0. n \in Nat /\ n <= Size /\ file.synced <= n
    BY <1>0
  <2>1. /\ FileOK(TruncatedTo(n)) /\ TruncatedTo(n).synced = n
        /\ \A i \in 1..n : TruncatedTo(n).bytes[i] = file.bytes[i]
    BY <1>0, <2>0, Cut
  <2>2. FileOK(file)'
    BY <1>2, <2>1 DEF FileOK
  <2>3. row.received <= file.synced =>
            /\ row.received <= file'.synced
            /\ \A i \in 1..row.received : file'.bytes[i] = file.bytes[i]
    BY <1>0, <1>2, <2>0, <2>1
  <2>4. Durable'
    BY <1>0, <2>3, StaysDurable
  <2> QED
    BY <1>0, <2>2, <2>4, Resets
<1>3. CASE file.synced = 0 /\ file' = Missing
  <2>1. FileOK(file)' /\ file'.synced = 0
    BY <1>3, MissingFile DEF FileOK, Missing
  <2>2. row.received <= file.synced =>
            /\ row.received <= file'.synced
            /\ \A i \in 1..row.received : file'.bytes[i] = file.bytes[i]
    BY <1>0, <1>3, <2>1
  <2>3. Durable'
    BY <1>0, <2>2, StaysDurable
  <2> QED
    BY <1>0, <2>1, <2>3, Resets
<1> QED
  BY <1>1, <1>2, <1>3 DEF ProcessStops, PowerLoss

(* No request steps; the file changes only while nobody holds the lock.      *)
LEMMA Rests ==
    ASSUME TransportInv, UNCHANGED <<row, holder, req, acked>>, file' = file \/ holder = None,
           FileOK(file)', expired' \in BOOLEAN, damaged' \in BOOLEAN, calm' \in BOOLEAN,
           Durable'
    PROVE  TransportInv'
<1>0. /\ row \in Rows /\ Sized /\ acked \in Seq(Payloads)
      /\ req \in [Requests -> RequestStates] /\ holder \in Requests \cup {None}
      /\ row' = row /\ holder' = holder /\ req' = req /\ acked' = acked
  BY Now
<1>1. TypeOK'
  BY <1>0, Typed DEF TypeOK, FileOK, Files, RequestStates, Working, Size
<1>2. ASSUME NEW q \in Requests PROVE Served(req[q])'
  <2>1. CASE file' = file
    BY <1>0, <2>1 DEF TransportInv, Served, Written, Size
  <2>2. CASE holder = None
    <3>1. req[q].pc \notin Working /\ Served(req[q])
      BY <1>0, <2>2 DEF TransportInv, Sized
    <3> QED
      BY <1>0, <3>1 DEF Served, Working
  <2> QED
    BY <2>1, <2>2
<1> QED
  BY <1>0, <1>1, <1>2 DEF TransportInv

LEMMA SurroundingsPreserve ==
    ASSUME TransportInv, ClockExpires \/ Damage \/ CalmDown \/ UNCHANGED vars
    PROVE  TransportInv'
<1>0. /\ FileOK(file) /\ expired \in BOOLEAN /\ damaged \in BOOLEAN /\ calm \in BOOLEAN
      /\ Size \in Nat /\ UNCHANGED <<row, holder, req, acked>>
  BY Now DEF ClockExpires, Damage, CalmDown, vars
<1>1. CASE ClockExpires \/ CalmDown \/ UNCHANGED vars
  <2>1. /\ file' = file /\ damaged' = damaged /\ expired' \in BOOLEAN /\ calm' \in BOOLEAN
    BY <1>0, <1>1 DEF ClockExpires, CalmDown, vars
  <2>2. FileOK(file)' /\ Durable'
    BY <1>0, <2>1, StaysDurable DEF FileOK
  <2> QED
    BY <1>0, <2>1, <2>2, Rests
<1>2. CASE Damage
  <2>1. /\ holder = None /\ damaged' = TRUE /\ expired' = expired /\ calm' = calm
        /\ file' \in {TruncatedTo(n) : n \in 0..(Size - 1)} \cup {Missing}
    BY <1>2 DEF Damage
  <2>2. FileOK(file)'
    <3>1. CASE file' = Missing
      BY <3>1, MissingFile DEF FileOK
    <3>2. ASSUME NEW n \in 0..(Size - 1), file' = TruncatedTo(n) PROVE FileOK(file)'
      <4>1. n \in Nat /\ n <= Size
        BY <1>0
      <4>2. FileOK(TruncatedTo(n))
        BY <1>0, <4>1, Cut
      <4> QED
        BY <3>2, <4>2 DEF FileOK
    <3> QED
      BY <2>1, <3>1, <3>2
  <2>3. Durable'
    BY <2>1 DEF Durable
  <2> QED
    BY <1>0, <2>1, <2>2, <2>3, Rests
<1> QED
  BY <1>1, <1>2

-----------------------------------------------------------------------------
(* The invariant, and what it gives.                                         *)

LEMMA TransportInit ==
    ASSUME Init
    PROVE  TransportInv
<1>0. Sized
  BY Typed
<1>1. PICK j \in RequestStates : j = Idle /\ j.pc = "idle" /\ Served(j)
  BY <1>0, IdleTyped
<1>2. /\ row = Absent /\ row.received = 0 /\ row \in Rows
      /\ file = Missing /\ expired = FALSE /\ holder = None /\ acked = <<>>
      /\ damaged = FALSE /\ calm = FALSE /\ req = [r \in Requests |-> Idle]
  BY <1>0, IdleTyped DEF Init, Absent
<1>3. /\ \A q \in Requests : req[q] = j
      /\ req \in [Requests -> RequestStates]
  BY <1>1, <1>2
<1>4. FileOK(file)
  BY <1>2, MissingFile DEF FileOK
<1>5. acked \in Seq(Payloads) /\ Len(acked) = 0
  BY <1>2, EmptySeq
<1>6. TypeOK
  BY <1>2, <1>3, <1>4, <1>5, Typed
<1>7. Durable
  <2>1. file.synced = 0
    BY <1>2 DEF Missing
  <2> QED
    BY <1>2, <1>5, <2>1 DEF Durable
<1>8. \A q \in Requests : Served(req[q])
  BY <1>1, <1>3
<1> QED
  BY <1>0, <1>1, <1>2, <1>3, <1>6, <1>7, <1>8 DEF TransportInv, Sized, Working

LEMMA TransportNext ==
    ASSUME TransportInv, [Next]_vars
    PROVE  TransportInv'
<1>1. ASSUME NEW r \in Requests, NEW offset \in 0..Declared, Arrive(r, "patch", offset)
      PROVE  TransportInv'
  BY <1>1, ArrivePreserves
<1>2. ASSUME NEW r \in Requests, NEW kind \in {"complete", "cancel", "validate"},
             Arrive(r, kind, 0)
      PROVE  TransportInv'
  <2>1. 0 \in 0..Declared
    BY Now DEF Sized
  <2> QED
    BY <1>2, <2>1, ArrivePreserves
<1>3. ASSUME NEW r \in Requests, AcquirePatch(r) \/ AcquireOther(r)
      PROVE  TransportInv'
  <2>1. CASE AcquirePatch(r)
    <3>1. PICK length \in 1..MaxPatch, payload \in Payloads : Acquire(r, length, payload)
      BY <2>1 DEF AcquirePatch
    <3>2. length \in 0..MaxPatch
      BY Now DEF Sized
    <3> QED
      BY <3>1, <3>2, AcquirePreserves
  <2>2. CASE AcquireOther(r)
    <3>1. req[r].kind # "patch" /\ Acquire(r, 0, None) /\ 0 \in 0..MaxPatch
      BY <2>2, Now DEF AcquireOther, Sized
    <3> QED
      BY <3>1, AcquirePreserves
  <2> QED
    BY <1>3, <2>1, <2>2
<1>4. ASSUME NEW r \in Requests, Step(r)
      PROVE  TransportInv'
  BY <1>4, StartReceivingPreserves, PreparePreserves, WriteBytePreserves, FsyncPreserves,
     AdvancePreserves, RecoverPreserves, CheckStagedPreserves, RemoveFilePreserves,
     TransitionsPreserve DEF Step
<1> QED
  BY <1>1, <1>2, <1>3, <1>4, CreateSessionPreserves, AbortBodyPreserves, StopsPreserve,
     SurroundingsPreserve DEF Next

(* Every variable keeps its shape, for any number of requests, any declared  *)
(* size and any contents (TypeOK of UploadTransport).                        *)
THEOREM TransportTypesAreKept == Spec => []TypeOK
<1>1. Init => TransportInv
  BY TransportInit
<1>2. TransportInv /\ [Next]_vars => TransportInv'
  BY TransportNext
<1>3. TransportInv => TypeOK
  BY DEF TransportInv
<1> QED
  BY <1>1, <1>2, <1>3, PTL DEF Spec

LEMMA DurableIsKept ==
    ASSUME TransportInv
    PROVE  AcknowledgedBytesKept
<1>0. /\ acked \in Seq(Payloads) /\ FileOK(file) /\ row.received \in Nat /\ Durable
  BY Now
<1>1. SUFFICES ASSUME row.state # "cancelled", ~damaged
               PROVE  /\ Len(acked) = row.received
                      /\ row.received <= file.synced
                      /\ SubSeq(file.bytes, 1, row.received) = acked
  BY DEF AcknowledgedBytesKept
<1>2. /\ Len(acked) = row.received
      /\ row.received <= file.synced
      /\ \A i \in 1..row.received : file.bytes[i] = acked[i]
  BY <1>0, <1>1 DEF Durable
<1>3. PICK bytes \in Seq(Payloads), n \in Nat :
         bytes = file.bytes /\ n = row.received /\ n <= Len(bytes)
  BY <1>0, <1>2, LenProperties DEF FileOK, Files
<1>4. \A i \in 1..n : bytes[i] \in Payloads
  BY <1>3, ElementOfSeq
<1>5. PICK front \in Seq(Payloads) :
         /\ front = SubSeq(bytes, 1, n) /\ Len(front) = n
         /\ \A i \in 1..n : front[i] = bytes[i]
  <2>1. /\ SubSeq(bytes, 1, n) \in Seq(Payloads)
        /\ Len(SubSeq(bytes, 1, n)) = IF 1 <= n THEN n - 1 + 1 ELSE 0
        /\ \A i \in 1..n - 1 + 1 : SubSeq(bytes, 1, n)[i] = bytes[1 + i - 1]
    BY <1>4, SubSeqProperties
  <2>2. /\ Len(SubSeq(bytes, 1, n)) = n
        /\ \A i \in 1..n : SubSeq(bytes, 1, n)[i] = bytes[i]
    BY <1>3, <2>1
  <2> QED
    BY <2>1, <2>2, Zenon
<1>6. PICK kept \in Seq(Payloads) :
         kept = acked /\ Len(kept) = n /\ \A i \in 1..n : bytes[i] = kept[i]
  BY <1>0, <1>2, <1>3
<1>7. front = kept
  BY <1>5, <1>6, SeqEqual
<1> QED
  BY <1>2, <1>3, <1>5, <1>6, <1>7

(* Bytes the server acknowledged are never lost or overwritten while the      *)
(* session lives, whatever crashes, losses of power, failed fsyncs, rollbacks *)
(* and competing requests do (receive_chunk, _recover_failed_patch).          *)
THEOREM AcknowledgedIsKept == Spec => []AcknowledgedBytesKept
<1>1. Init => TransportInv
  BY TransportInit
<1>2. TransportInv /\ [Next]_vars => TransportInv'
  BY TransportNext
<1>3. TransportInv => AcknowledgedBytesKept
  BY DurableIsKept
<1> QED
  BY <1>1, <1>2, <1>3, PTL DEF Spec

(* Once the session has ended no step changes its row, and its file neither   *)
(* grows nor comes back.                                                      *)
LEMMA EndedStaysEnded ==
    ASSUME TransportInv, Next, row.state \in Terminal
    PROVE  row' = row /\ Len(file'.bytes) <= Size /\ (file'.exists => file.exists)
<1>0. Size \in Nat /\ FileOK(file) /\ row \in Rows
  BY Now
<1> DEFINE Kept == row' = row /\ Len(file'.bytes) <= Size /\ (file'.exists => file.exists)
<1>1. CASE UNCHANGED <<row, file>>
  BY <1>0, <1>1 DEF Size
<1>2. ASSUME NEW n \in Nat, n <= Size, file.exists, row' = row, file' = TruncatedTo(n)
      PROVE  Kept
  BY <1>0, <1>2, Cut
<1>3. CASE row' = row /\ file' = Missing
  BY <1>0, <1>3, MissingFile
<1>4. ASSUME NEW r \in Requests,
             StartReceiving(r) \/ Prepare(r) \/ WriteByte(r) \/ Fsync(r) \/ Advance(r) \/ Recover(r)
      PROVE  FALSE
  <2>1. req[r].pc \in {"starting", "reconciling", "receiving", "advancing", "recovering"}
    BY <1>4 DEF StartReceiving, Prepare, WriteByte, Fsync, Advance, Recover
  <2>2. Served(req[r])
    BY DEF TransportInv
  <2> QED
    BY <2>1, <2>2 DEF Served, Terminal
<1>5. ASSUME NEW r \in Requests,
             Expire(r) \/ FailSession(r) \/ Condemn(r) \/ Accept(r) \/ CancelRow(r) \/ Claim(r)
      PROVE  Kept
  <2>1. req[r].pc \in Working /\ file' = file
    BY <1>5 DEF Expire, FailSession, Condemn, Accept, CancelRow, Claim, Working
  <2>2. PICK from \in Rows, now \in Rows : from = req[r].seen /\ now = row
    BY <1>0, <2>1, Holding
  <2>3. ASSUME NEW f \in Rows, NEW target \in States PROVE ~Swaps(f, target)
    BY <1>0, SwappedRow
  <2>4. "expired" \in States /\ "failed" \in States /\ "received" \in States
        /\ "cancelled" \in States /\ "validating" \in States
    BY DEF States, Terminal
  <2>5. row' = row
    <3>1. PICK f \in Rows, target \in States, step \in {"done", "removing"} :
             Transition(r, f, target, step)
      BY <1>5, <2>2, <2>4 DEF Expire, FailSession, Condemn, Accept, CancelRow, Claim
    <3> QED
      BY <2>3, <3>1 DEF Transition
  <2> QED
    BY <1>1, <2>1, <2>5
<1>6. ASSUME NEW r \in Requests, CheckStaged(r)
      PROVE  Kept
  <2>1. PICK s \in Rows : s = req[r].seen
    <3>1. req[r].pc \in Working
      BY <1>6 DEF CheckStaged, Working
    <3> QED
      BY <3>1, Holding
  <2>2. row' = row /\ (file' = file \/ (Ahead(s.received) /\ file' = TruncatedTo(s.received)))
    BY <1>6, <2>1 DEF CheckStaged
  <2>3. s.received \in Nat
    BY Now DEF Rows, Sized
  <2> QED
    BY <1>0, <1>1, <1>2, <2>2, <2>3 DEF Ahead
<1>7. ASSUME NEW r \in Requests, RemoveFile(r) PROVE Kept
  BY <1>1, <1>3, <1>7 DEF RemoveFile
<1>8. ASSUME NEW r \in Requests, Step(r) PROVE Kept
  BY <1>4, <1>5, <1>6, <1>7, <1>8 DEF Step
<1>9. ASSUME PowerLoss \/ Damage PROVE Kept
  <2>1. file.exists /\ row' = row
    BY <1>9 DEF PowerLoss, Damage, Volatile
  <2>2. CASE file' = Missing
    BY <1>3, <2>1, <2>2
  <2>3. ASSUME NEW n \in (file.synced..Size) \cup (0..(Size - 1)), file' = TruncatedTo(n)
        PROVE  Kept
    <3>1. n \in Nat /\ n <= Size
      BY <1>0, <2>3 DEF FileOK, Files
    <3> QED
      BY <1>2, <2>1, <2>3, <3>1
  <2> QED
    BY <1>9, <2>2, <2>3 DEF PowerLoss, Damage
<1>10. ASSUME NEW r \in Requests,
              \/ \E offset \in 0..Declared : Arrive(r, "patch", offset)
              \/ \E kind \in {"complete", "cancel", "validate"} : Arrive(r, kind, 0)
              \/ AcquirePatch(r) \/ AcquireOther(r) \/ AbortBody(r)
       PROVE  Kept
  <2>1. UNCHANGED <<row, file>>
    BY <1>10, ZenonT(60) DEF Arrive, AcquirePatch, AcquireOther, Acquire, AbortBody
  <2> QED
    BY <1>1, <2>1, SMTT(60)
<1>11. CASE ClockExpires \/ ProcessStops \/ CalmDown
  BY <1>1, <1>11 DEF ClockExpires, ProcessStops, CalmDown, Volatile
<1>12. ~CreateSession
  BY DEF CreateSession, Terminal
<1> QED
  BY <1>8, <1>9, <1>10, <1>11, <1>12 DEF Next

(* No retry, queued PATCH or repair changes a session that has ended or       *)
(* brings its bytes back (_cancel_owned, _expire_if_needed, receive_chunk).   *)
THEOREM EndIsFinal == Spec => NothingAfterTheEnd
<1>1. Init => TransportInv
  BY TransportInit
<1>2. TransportInv /\ [Next]_vars => TransportInv'
  BY TransportNext
<1>3. TransportInv /\ [Next]_vars =>
          [row.state \in Terminal => row' = row /\ Len(file'.bytes) <= Size
                                     /\ (file'.exists => file.exists)]_vars
  BY EndedStaysEnded
<1> QED
  BY <1>1, <1>2, <1>3, PTL DEF Spec, NothingAfterTheEnd
====================================================================================
