----------------------------- MODULE ClientProofs -----------------------------
(***************************************************************************)
(* Proofs about the client's transfers: against any server (ClientAlone),  *)
(* then with the server's transfer manager and the channels between them   *)
(* (AssetTransfer).                                                        *)
(***************************************************************************)
EXTENDS ClientAlone, AssetTransfer, TLAPS, FiniteSetTheorems, SequenceTheorems

\* What makes the invariants inductive, entry by entry: an entry that waits
\* for a retry has the retry armed and takes no chunks, the status "failed"
\* goes with the flag, a buffer with an announcement, and every request was
\* paid for by an attempt: one for the first, two for each later one, an
\* armed retry counted as if it were sent.
EntryOK(e) ==
    /\ e.attempts >= 1
    /\ e.asked <= 2 * RetryMaxAttempts
    /\ e.asked + (IF e.armed THEN 1 ELSE 0) <= 2 * e.attempts - 1
    /\ e.status = "retrying" => e.armed /\ e.buffer = <<>>
    /\ e.status = "failed" => e.failed
    /\ e.buffer # <<>> => e.announced \in Contents

Entry == {e \in InFlight : EntryOK(e)}

Tasks == [do : {"send", "done", "fail", "erase", "call"},
          file : Files, cbs : Seq(1..MaxRequests)]

Calls == [onReady : 1..MaxRequests, ok : BOOLEAN]

Answers == [type : {"request", "ready"}, file : Files]

Received == [file : Files, buffer : Buffers, expected : Contents,
             onReady : 1..MaxRequests]

IndInv ==
    /\ active \in [Files -> Entry \cup {None}]
    /\ stored \in [Files -> Contents \cup {NoContent}]
    /\ mainQueue \in Seq(Tasks)
    /\ workerSends \subseteq Files
    /\ receiving \in {None} \cup Received
    /\ requests \in 0..MaxRequests
    /\ manualRetries \in 0..MaxManualRetries
    /\ calls \in Seq(Calls)
    /\ sent \in Seq(Answers)

-----------------------------------------------------------------------------
(* Entries.                                                                 *)

LEMMA ChunkCountType ==
  ASSUME NEW c \in Contents
  PROVE  ChunkCount(c) \in Nat \ {0}
<1> DEFINE z == CompressedSize[c]
           n == FileChunkSize
<1>1. z \in Nat \ {0} /\ n \in Nat \ {0}
  BY ClientAssumption
<1> HIDE DEF z, n
<1>2. z + n - 1 \in Nat /\ z + n - 1 >= n
  BY <1>1
<1>3. (z + n - 1) \div n \in Nat \ {0}
  BY <1>1, <1>2
<1> QED BY <1>3 DEF ChunkCount, z, n

LEMMA EmptyBuffer == <<>> \in Buffers
BY DEF Buffers

LEMMA NewEntryOK ==
  ASSUME NEW cb \in 1..MaxRequests
  PROVE  NewEntry(cb) \in Entry
<1>1. NewEntry(cb) \in InFlight
  BY EmptyBuffer DEF NewEntry, InFlight, Status
<1>2. EntryOK(NewEntry(cb))
  BY ClientAssumption DEF NewEntry, EntryOK
<1> QED BY <1>1, <1>2 DEF Entry

LEMMA FailedOK ==
  ASSUME NEW e \in Entry
  PROVE  Failed(e) \in Entry
<1>1. Failed(e) \in InFlight
  BY DEF Failed, InFlight, Status, Entry
<1>2. EntryOK(Failed(e))
  BY DEF Failed, InFlight, Entry, EntryOK
<1> QED BY <1>1, <1>2 DEF Entry

LEMMA Counts ==
  ASSUME NEW e \in InFlight
  PROVE  /\ e.attempts \in Nat /\ e.attempts + 1 \in Nat
         /\ e.asked \in Nat /\ e.asked + 1 \in Nat
BY DEF InFlight

LEMMA Paid ==
  ASSUME NEW e \in InFlight, EntryOK(e)
  PROVE  /\ e.attempts \in Nat /\ e.asked \in Nat
         /\ e.attempts >= 1 /\ e.asked <= 2 * e.attempts - 1
         /\ e.asked + 1 <= 2 * (e.attempts + 1) - 1
BY DEF InFlight, EntryOK

LEMMA StatusText ==
  /\ "requesting" \in Status /\ "downloading" \in Status
  /\ "retrying" \in Status /\ "rejected" \in Status
  /\ "manual" \in Status /\ "failed" \in Status
BY DEF Status

\* The record with what a retry resets, one step of EXCEPT at a time.
LEMMA ClearedType ==
  ASSUME NEW e \in InFlight
  PROVE  /\ Cleared(e) \in InFlight
         /\ Cleared(e).buffer = <<>>
         /\ Cleared(e).attempts = e.attempts
         /\ Cleared(e).asked = e.asked
         /\ Cleared(e).armed = e.armed
         /\ Cleared(e).status = e.status
         /\ Cleared(e).failed = e.failed
BY EmptyBuffer DEF Cleared, InFlight

LEMMA RetriedOK ==
  ASSUME NEW e \in Entry
  PROVE  Retried(e) \in Entry
<1>0. e \in InFlight /\ EntryOK(e)
  BY DEF Entry
<1>1. CASE Exhausted(e)
  <2> DEFINE x == [e EXCEPT !.attempts = @ + 1]
  <2>1. x \in InFlight /\ x.attempts = e.attempts + 1
    BY <1>0, Counts DEF InFlight
  <2>2. EntryOK(x)
    BY <1>0, Counts DEF EntryOK, InFlight
  <2>3. Retried(e) = Failed(x)
    BY <1>1 DEF Retried
  <2> HIDE DEF x
  <2> QED BY <2>1, <2>2, <2>3, FailedOK DEF Entry
<1>2. CASE ~Exhausted(e)
  <2> DEFINE x == [e EXCEPT !.attempts = @ + 1, !.status = "retrying",
                            !.armed = TRUE]
  <2>1. /\ x \in InFlight
        /\ x.attempts = e.attempts + 1 /\ x.status = "retrying"
        /\ x.armed = TRUE /\ x.asked = e.asked
    BY <1>0, Counts, StatusText DEF InFlight
  <2>2. Retried(e) = Cleared(x)
    BY <1>2 DEF Retried
  <2> HIDE DEF x
  <2>3. EntryOK(Cleared(x))
    BY <1>0, <2>1, ClearedType DEF EntryOK, InFlight
  <2> QED BY <2>1, <2>2, <2>3, ClearedType DEF Entry
<1> QED BY <1>1, <1>2

\* What the worker's pass makes of an entry, branch by branch.
LEMMA VisitedOK ==
  ASSUME NEW e \in Entry \cup {None}, NEW late \in BOOLEAN
  PROVE  Visited(e, late) \in Entry \cup {None}
<1>1. CASE e = None \/ e.failed
  BY <1>1 DEF Visited
<1>2. CASE e # None /\ ~e.failed
  <2>0. e \in Entry /\ e \in InFlight /\ EntryOK(e)
    BY <1>2 DEF Entry
  <2>1. CASE e.attempts > RetryMaxAttempts
    BY <1>2, <2>0, <2>1, FailedOK DEF Visited
  <2>2. CASE ~(e.attempts > RetryMaxAttempts) /\ late /\ e.armed
    <3> DEFINE x == [e EXCEPT !.armed = FALSE, !.status = "requesting",
                              !.asked = @ + 1]
    <3>1. Visited(e, late) = x
      BY <1>2, <2>2 DEF Visited
    <3>2. /\ x \in InFlight
          /\ x.armed = FALSE /\ x.status = "requesting"
          /\ x.asked = e.asked + 1 /\ x.attempts = e.attempts
          /\ x.buffer = e.buffer /\ x.announced = e.announced
      BY <2>0, Counts, StatusText DEF InFlight
    <3> HIDE DEF x
    <3>3. EntryOK(x)
      BY <2>0, <2>2, <3>2, ClientAssumption DEF EntryOK, InFlight
    <3> QED BY <3>1, <3>2, <3>3 DEF Entry
  <2>3. CASE ~(e.attempts > RetryMaxAttempts) /\ late /\ ~e.armed /\ Waiting(e)
    <3> DEFINE x == [e EXCEPT !.attempts = @ + 1, !.status = "retrying",
                              !.armed = TRUE, !.asked = @ + 1]
    <3>1. Visited(e, late) = Cleared(x)
      BY <1>2, <2>3 DEF Visited
    <3>2. /\ x \in InFlight
          /\ x.armed = TRUE /\ x.status = "retrying"
          /\ x.asked = e.asked + 1 /\ x.attempts = e.attempts + 1
      BY <2>0, Counts, StatusText DEF InFlight
    <3> HIDE DEF x
    <3>3. EntryOK(Cleared(x))
      <4>1. /\ e.attempts \in Nat /\ e.asked \in Nat
            /\ RetryMaxAttempts \in Nat /\ e.attempts <= RetryMaxAttempts
            /\ e.asked <= 2 * e.attempts - 1
        BY <2>0, <2>3, ClientAssumption DEF EntryOK, InFlight
      <4>2. /\ Cleared(x).asked = e.asked + 1 /\ Cleared(x).armed = TRUE
            /\ Cleared(x).attempts = e.attempts + 1
            /\ Cleared(x).status = "retrying" /\ Cleared(x).buffer = <<>>
        BY <3>2, ClearedType
      <4>3. /\ e.attempts + 1 >= 1
            /\ e.asked + 1 <= 2 * RetryMaxAttempts
            /\ e.asked + 1 + 1 <= 2 * (e.attempts + 1) - 1
        BY <4>1
      <4> QED BY <4>2, <4>3 DEF EntryOK
    <3> QED BY <3>1, <3>2, <3>3, ClearedType DEF Entry
  <2>4. CASE /\ ~(e.attempts > RetryMaxAttempts)
             /\ ~(late /\ e.armed) /\ ~(late /\ Waiting(e))
    BY <1>2, <2>0, <2>4 DEF Visited
  <2> QED BY <2>1, <2>2, <2>3, <2>4
<1> QED BY <1>1, <1>2

-----------------------------------------------------------------------------
(* The invariant about the worker.                                          *)

LEMMA EntryIsWatched ==
  ASSUME NEW e \in Entry, e # None, ~e.failed,
         e.status \notin {"manual", "rejected"}
  PROVE  Supervised(e)
<1>0. e \in InFlight /\ EntryOK(e)
  BY DEF Entry
<1>1. e.status \in {"requesting", "downloading"} \/ e.armed
  BY <1>0 DEF InFlight, Status, EntryOK
<1>2. SUFFICES ASSUME Visited(e, TRUE) = e PROVE FALSE
  BY DEF Supervised
<1>3. CASE e.attempts > RetryMaxAttempts
  <2>1. Visited(e, TRUE) = Failed(e)
    BY <1>3 DEF Visited
  <2>2. Failed(e).failed = TRUE
    BY <1>0 DEF Failed, InFlight
  <2> QED BY <1>2, <2>1, <2>2
<1>4. CASE ~(e.attempts > RetryMaxAttempts) /\ e.armed
  <2>1. Visited(e, TRUE).asked = e.asked + 1
    BY <1>0, <1>4 DEF Visited, InFlight
  <2>2. e.asked \in Nat /\ e.asked = e.asked + 1
    BY <1>0, <1>2, <2>1 DEF InFlight
  <2> QED BY <2>2
<1>5. CASE ~(e.attempts > RetryMaxAttempts) /\ ~e.armed
  <2> DEFINE x == [e EXCEPT !.attempts = @ + 1, !.status = "retrying",
                            !.armed = TRUE, !.asked = @ + 1]
  <2>1. Visited(e, TRUE) = Cleared(x)
    BY <1>1, <1>5 DEF Visited, Waiting
  <2>2. x \in InFlight /\ x.asked = e.asked + 1
    BY <1>0, Counts, StatusText DEF InFlight
  <2> HIDE DEF x
  <2>3. e.asked \in Nat /\ e.asked = e.asked + 1
    BY <1>0, <1>2, <2>1, <2>2, ClearedType DEF InFlight
  <2> QED BY <2>3
<1> QED BY <1>3, <1>4, <1>5

\* The invariants follow from the inductive one.
LEMMA Consequences == IndInv => TypeOK /\ StoreIntegrity /\ SendBudget /\ Watched
<1> SUFFICES ASSUME IndInv PROVE TypeOK /\ StoreIntegrity /\ SendBudget /\ Watched
  OBVIOUS
<1>1. TypeOK
  <2>1. active \in [Files -> InFlight \cup {None}]
    BY DEF IndInv, Entry
  <2>2. stored \in [Files -> Contents \cup {NoContent, Garbage}]
    BY DEF IndInv
  <2> QED BY <2>1, <2>2 DEF IndInv, TypeOK, Tasks, Calls, Received, Answers
<1>2. StoreIntegrity
  BY DEF IndInv, StoreIntegrity
<1>3. SendBudget
  BY DEF IndInv, SendBudget, Entry, EntryOK
<1>4. Watched
  <2> SUFFICES ASSUME NEW f \in Files, Downloading(f),
                      active[f].status \notin {"manual", "rejected"}
               PROVE  Supervised(active[f])
    BY DEF Watched
  <2>1. active[f] \in Entry /\ active[f] # None /\ ~active[f].failed
    BY DEF IndInv, Downloading
  <2> QED BY <2>1, EntryIsWatched
<1> QED BY <1>1, <1>2, <1>3, <1>4

-----------------------------------------------------------------------------
(* Parts of actions.                                                        *)

LEMMA TaskType ==
  ASSUME NEW do \in {"send", "done", "fail", "erase", "call"},
         NEW f \in Files
  PROVE  /\ \A cbs \in Seq(1..MaxRequests) : Task(do, f, cbs) \in Tasks
         /\ \A cb \in 1..MaxRequests : Task(do, f, <<cb>>) \in Tasks
BY DEF Task, Tasks

LEMMA SendTaskType ==
  ASSUME NEW f \in Files
  PROVE  SendTask(f) \in Tasks
<1>1. <<>> \in Seq(1..MaxRequests)
  OBVIOUS
<1> QED BY <1>1, TaskType DEF SendTask

LEMMA PushType ==
  ASSUME mainQueue \in Seq(Tasks), NEW t \in Tasks, Push(t)
  PROVE  mainQueue' \in Seq(Tasks)
BY AppendProperties DEF Push

LEMMA CallType ==
  ASSUME NEW cbs \in Seq(1..MaxRequests), NEW ok \in BOOLEAN, Call(cbs, ok)
  PROVE  calls' \in Seq(Calls)
<1>1. DOMAIN cbs = 1..Len(cbs) /\ Len(cbs) \in Nat
  OBVIOUS
<1>2. \A i \in DOMAIN cbs : cbs[i] \in 1..MaxRequests
  BY <1>1, ElementOfSeq
<1>3. \A i \in DOMAIN cbs : [onReady |-> cbs[i], ok |-> ok] \in Calls
  BY <1>2, Zenon DEF Calls
<1> QED BY <1>1, <1>3 DEF Call

LEMMA SilentType ==
  ASSUME Silent
  PROVE  /\ calls' \in Seq(Calls)
         /\ sent' \in Seq(Answers)
BY DEF Silent

LEMMA UpdateType ==
  ASSUME active \in [Files -> Entry \cup {None}],
         NEW f \in Files, NEW e \in Entry \cup {None}
  PROVE  [active EXCEPT ![f] = e] \in [Files -> Entry \cup {None}]
OBVIOUS

LEMMA OnReadyType ==
  ASSUME NEW e \in Entry
  PROVE  e.onReady \in 1..MaxRequests
BY DEF Entry, InFlight

LEMMA ScheduleRetryType ==
  ASSUME active \in [Files -> Entry \cup {None}], mainQueue \in Seq(Tasks),
         NEW f \in Files, active[f] # None, ScheduleRetry(f)
  PROVE  /\ active' \in [Files -> Entry \cup {None}]
         /\ mainQueue' \in Seq(Tasks)
<1>1. active[f] \in Entry
  OBVIOUS
<1>2. active' = [active EXCEPT ![f] = Retried(active[f])]
  BY DEF ScheduleRetry
<1>3. active' \in [Files -> Entry \cup {None}]
  BY <1>1, <1>2, RetriedOK, UpdateType
<1>4. CASE Exhausted(active[f])
  BY <1>1, <1>3, <1>4, OnReadyType, TaskType, PushType DEF ScheduleRetry
<1>5. CASE ~Exhausted(active[f])
  BY <1>3, <1>5 DEF ScheduleRetry
<1> QED BY <1>4, <1>5

-----------------------------------------------------------------------------
(* Every action preserves it.  Main thread.                                 *)

LEMMA InitInv == AloneInit => IndInv
<1> SUFFICES ASSUME AloneInit PROVE IndInv
  OBVIOUS
<1>1. 0 \in 0..MaxRequests /\ 0 \in 0..MaxManualRetries
  BY ClientAssumption
<1> QED BY <1>1 DEF AloneInit, Init, IndInv

LEMMA RequestFileInv ==
  ASSUME IndInv, NEW f \in Files, NEW want \in Contents, RequestFile(f, want)
  PROVE  IndInv'
<1> DEFINE cb == requests + 1
<1>1. cb \in 1..MaxRequests /\ cb \in 0..MaxRequests
  BY ClientAssumption DEF IndInv, RequestFile
<1>2. requests' = cb /\ sent' = <<>>
  BY DEF RequestFile
<1>3. <<cb>> \in Seq(1..MaxRequests) /\ <<>> \in Seq(1..MaxRequests)
  BY <1>1
<1> HIDE DEF cb
<1>4. CASE stored[f] = want
  <2>1. Call(<<cb>>, TRUE) /\ UNCHANGED <<active, stored, mainQueue>>
    BY <1>4 DEF RequestFile, cb
  <2>2. calls' \in Seq(Calls)
    BY <1>3, <2>1, CallType
  <2> QED BY <1>1, <1>2, <2>1, <2>2 DEF RequestFile, IndInv
<1>5. CASE stored[f] # want
  <2>1. /\ stored' = [stored EXCEPT ![f] = NoContent]
        /\ Call(<<>>, FALSE)
    BY <1>5 DEF RequestFile
  <2>2. calls' \in Seq(Calls)
    BY <1>3, <2>1, CallType
  <2>3. stored' \in [Files -> Contents \cup {NoContent}]
    BY <2>1 DEF IndInv
  <2>4. CASE active[f] = None
    <3>1. /\ active' = [active EXCEPT ![f] = NewEntry(cb)]
          /\ Push(SendTask(f))
      BY <1>5, <2>4 DEF RequestFile, cb
    <3>2. active' \in [Files -> Entry \cup {None}]
      BY <1>1, <3>1, NewEntryOK, UpdateType DEF IndInv
    <3>3. mainQueue' \in Seq(Tasks)
      BY <3>1, SendTaskType, PushType DEF IndInv
    <3> QED BY <1>1, <1>2, <2>2, <2>3, <3>2, <3>3 DEF RequestFile, IndInv
  <2>5. CASE active[f] # None
    <3>1. UNCHANGED <<active, mainQueue>>
      BY <1>5, <2>5 DEF RequestFile
    <3> QED BY <1>1, <1>2, <2>2, <2>3, <3>1 DEF RequestFile, IndInv
  <2> QED BY <2>4, <2>5
<1> QED BY <1>4, <1>5

LEMMA ManualRetryInv ==
  ASSUME IndInv, NEW f \in Files, ManualRetry(f)
  PROVE  IndInv'
<1> DEFINE x == [active[f] EXCEPT !.attempts = 1, !.armed = FALSE,
                                  !.failed = FALSE, !.status = "manual",
                                  !.asked = 1]
<1>1. active[f] \in Entry /\ active[f] \in InFlight
  BY DEF IndInv, ManualRetry, Entry
<1>2. /\ x \in InFlight
      /\ x.attempts = 1 /\ x.asked = 1 /\ x.armed = FALSE
      /\ x.status = "manual"
  BY <1>1, StatusText DEF InFlight
<1>3. active' = [active EXCEPT ![f] = Cleared(x)]
  BY DEF ManualRetry
<1> HIDE DEF x
<1>4. Cleared(x) \in Entry
  BY <1>2, ClearedType, ClientAssumption DEF Entry, EntryOK
<1>5. active' \in [Files -> Entry \cup {None}]
  BY <1>3, <1>4, UpdateType DEF IndInv
<1>6. mainQueue' \in Seq(Tasks)
  BY SendTaskType, PushType DEF IndInv, ManualRetry
<1>7. manualRetries' \in 0..MaxManualRetries
  BY ClientAssumption DEF IndInv, ManualRetry
<1> QED BY <1>5, <1>6, <1>7, SilentType DEF IndInv, ManualRetry

LEMMA RunTaskInv ==
  ASSUME IndInv, RunTask
  PROVE  IndInv'
<1> DEFINE t == Head(mainQueue)
           f == t.file
<1>1. t \in Tasks /\ mainQueue' \in Seq(Tasks)
  BY HeadTailProperties DEF IndInv, RunTask
<1>2. f \in Files /\ t.cbs \in Seq(1..MaxRequests)
  BY <1>1 DEF Tasks
<1>3. <<>> \in Seq(1..MaxRequests)
  OBVIOUS
<1>4. calls' \in Seq(Calls)
  <2>1. \/ Call(<<>>, FALSE) \/ Call(t.cbs, TRUE) \/ Call(t.cbs, FALSE)
    BY DEF RunTask
  <2> QED BY <1>2, <1>3, <2>1, CallType
<1>5. sent' \in Seq(Answers)
  <2>1. sent' = <<>> \/ sent' = <<Request(f)>> \/ sent' = <<Ready(f)>>
    BY DEF RunTask
  <2>2. Request(f) \in Answers /\ Ready(f) \in Answers
    BY <1>2 DEF Request, Ready, Answers
  <2> HIDE DEF f
  <2>3. CASE sent' = <<>>
    BY <2>3
  <2>4. CASE sent' = <<Request(f)>>
    BY <2>2, <2>4
  <2>5. CASE sent' = <<Ready(f)>>
    BY <2>2, <2>5
  <2> QED BY <2>1, <2>3, <2>4, <2>5
<1>6. active' \in [Files -> Entry \cup {None}]
  <2>1. \/ active' = active
        \/ active' = [active EXCEPT ![f] = None]
        \/ active[f] # None /\ active' = [active EXCEPT ![f] = Failed(active[f])]
    BY DEF RunTask
  <2> QED BY <1>2, <2>1, FailedOK, UpdateType DEF IndInv
<1> QED BY <1>1, <1>4, <1>5, <1>6 DEF IndInv, RunTask, counters

-----------------------------------------------------------------------------
(* Network thread.                                                          *)

LEMMA OnTransferBeginInv ==
  ASSUME IndInv, NEW f \in Files, NEW c \in Contents,
         NEW m, m.file = f, m.content = c, OnTransferBegin(m)
  PROVE  IndInv'
<1> DEFINE e == active[f]
           resized == [i \in 1..ChunkCount(c) |->
                          IF i \in DOMAIN e.buffer THEN e.buffer[i]
                          ELSE Garbage]
           x == [e EXCEPT !.announced = c, !.status = "downloading",
                          !.armed = FALSE, !.received = {},
                          !.buffer = resized]
           y == [e EXCEPT !.status = "rejected", !.armed = TRUE,
                          !.attempts = @ + 1]
<1>1. active' \in [Files -> Entry \cup {None}]
  <2>1. CASE e = None
    BY <2>1 DEF OnTransferBegin, IndInv
  <2>2. CASE e # None /\ c \notin ClientOversized
    <3>1. active' = [active EXCEPT ![f] = x]
      BY <2>2 DEF OnTransferBegin
    <3>2. e \in Entry /\ e \in InFlight /\ EntryOK(e)
      BY <2>2 DEF IndInv, Entry
    <3>3. resized \in Buffers
      <4>1. e.buffer \in Seq(Contents \cup {Garbage})
        BY <3>2 DEF InFlight, Buffers
      <4>2. \A i \in DOMAIN e.buffer : e.buffer[i] \in Contents \cup {Garbage}
        BY <4>1, ElementOfSeq
      <4>3. ChunkCount(c) \in Nat
        BY ChunkCountType
      <4>4. \A i \in 1..ChunkCount(c) : resized[i] \in Contents \cup {Garbage}
        BY <4>2
      <4> QED BY <4>3, <4>4 DEF Buffers
    <3> HIDE DEF resized
    <3>4. x \in InFlight
      BY <3>2, <3>3, StatusText DEF InFlight
    <3>5. /\ x.announced = c /\ x.status = "downloading" /\ x.armed = FALSE
          /\ x.asked = e.asked /\ x.attempts = e.attempts
      BY <3>2 DEF InFlight
    <3> HIDE DEF x
    <3>6. EntryOK(x)
      BY <3>2, <3>5, Paid DEF EntryOK
    <3> QED BY <3>1, <3>4, <3>6, UpdateType DEF IndInv, Entry
  <2>3. CASE e # None /\ c \in ClientOversized
    <3>1. active' = [active EXCEPT ![f] = y]
      BY <2>3 DEF OnTransferBegin
    <3>2. e \in Entry /\ e \in InFlight /\ EntryOK(e)
      BY <2>3 DEF IndInv, Entry
    <3>3. y \in InFlight
      BY <3>2, Counts, StatusText DEF InFlight
    <3>4. /\ y.announced = e.announced /\ y.status = "rejected"
          /\ y.armed = TRUE /\ y.buffer = e.buffer
          /\ y.asked = e.asked /\ y.attempts = e.attempts + 1
      BY <3>2 DEF InFlight
    <3>5. EntryOK(y)
      <4> HIDE DEF y
      <4>1. /\ y.attempts >= 1
            /\ y.asked + (IF y.armed THEN 1 ELSE 0) <= 2 * y.attempts - 1
        BY <3>2, <3>4, Paid
      <4> QED BY <3>2, <3>4, <4>1 DEF EntryOK
    <3> HIDE DEF y
    <3> QED BY <3>1, <3>3, <3>5, UpdateType DEF IndInv, Entry
  <2> QED BY <2>1, <2>2, <2>3
<1> QED BY <1>1, SilentType DEF IndInv, OnTransferBegin, netUnchanged, counters

LEMMA OnTransferChunkInv ==
  ASSUME IndInv, NEW m, m.file \in Files, m.index \in Nat, m.len \in Nat,
         m.content \in Contents \cup {Garbage}, OnTransferChunk(m)
  PROVE  IndInv'
<1> DEFINE f == m.file
           e == active[f]
           b == [e.buffer EXCEPT ![m.index + 1] =
                    IF m.len = 0 THEN @ ELSE m.content]
           x == [e EXCEPT !.buffer[m.index + 1] =
                              IF m.len = 0 THEN @ ELSE m.content,
                          !.received = @ \cup {m.index},
                          !.bytes = @ + m.len,
                          !.armed = FALSE]
<1>1. /\ active' \in [Files -> Entry \cup {None}]
      /\ mainQueue' \in Seq(Tasks)
  <2>1. CASE UNCHANGED <<active, mainQueue>>
    BY <2>1 DEF IndInv
  <2>2. CASE Buffering(e) /\ ScheduleRetry(f)
    BY <2>2, ScheduleRetryType DEF IndInv, Buffering
  <2>3. CASE /\ Buffering(e) /\ UNCHANGED mainQueue
             /\ active' = [active EXCEPT ![f] = x]
    <3>1. e \in Entry /\ e \in InFlight /\ EntryOK(e) /\ e.buffer # <<>>
      BY <2>3 DEF IndInv, Entry, Buffering
    <3>2. e.buffer \in Seq(Contents \cup {Garbage})
      BY <3>1 DEF InFlight, Buffers
    <3>3. b \in Buffers
      <4>1. /\ Len(e.buffer) \in Nat /\ DOMAIN e.buffer = 1..Len(e.buffer)
            /\ DOMAIN b = 1..Len(e.buffer)
        BY <3>2
      <4>2. \A i \in 1..Len(e.buffer) : b[i] \in Contents \cup {Garbage}
        BY <3>2, <4>1, ElementOfSeq
      <4>3. b = [i \in 1..Len(e.buffer) |-> b[i]]
        BY <4>1
      <4> HIDE DEF b
      <4>4. b \in [1..Len(e.buffer) -> Contents \cup {Garbage}]
        BY <4>2, <4>3
      <4> QED BY <4>1, <4>4 DEF Buffers
    <3>4. x = [e EXCEPT !.buffer = b, !.received = @ \cup {m.index},
                        !.bytes = @ + m.len, !.armed = FALSE]
      BY <3>1 DEF InFlight
    <3>5. /\ e.received \cup {m.index} \in SUBSET Nat
          /\ e.bytes + m.len \in Nat
      BY <3>1 DEF InFlight
    <3> HIDE DEF b
    <3>6. x \in InFlight
      BY <3>1, <3>3, <3>4, <3>5 DEF InFlight
    <3>7. /\ x.announced = e.announced /\ x.status = e.status
          /\ x.failed = e.failed /\ x.armed = FALSE
          /\ x.asked = e.asked /\ x.attempts = e.attempts
      BY <3>1, <3>4 DEF InFlight
    <3> HIDE DEF x
    <3>8. EntryOK(x)
      BY <3>1, <3>7, Paid DEF EntryOK
    <3> QED BY <2>3, <3>6, <3>8, UpdateType DEF IndInv, Entry
  <2> QED BY <2>1, <2>2, <2>3 DEF OnTransferChunk
<1> QED BY <1>1, SilentType DEF IndInv, OnTransferChunk, netUnchanged, counters

LEMMA OnTransferEndTakeInv ==
  ASSUME IndInv, NEW m, m.file \in Files, OnTransferEndTake(m)
  PROVE  IndInv'
<1> DEFINE f == m.file
           e == active[f]
           x == [e EXCEPT !.buffer = <<>>]
<1>1. CASE UNCHANGED <<active, mainQueue, receiving>>
  BY <1>1, SilentType DEF IndInv, OnTransferEndTake, netUnchanged, counters
<1>2. CASE Buffering(e) /\ ScheduleRetry(f) /\ UNCHANGED receiving
  <2>1. /\ active' \in [Files -> Entry \cup {None}]
        /\ mainQueue' \in Seq(Tasks)
    BY <1>2, ScheduleRetryType DEF IndInv, Buffering
  <2> QED BY <1>2, <2>1, SilentType
      DEF IndInv, OnTransferEndTake, netUnchanged, counters
<1>3. CASE /\ Buffering(e) /\ UNCHANGED mainQueue
           /\ active' = [active EXCEPT ![f].buffer = <<>>]
           /\ receiving' = [file |-> f, buffer |-> e.buffer,
                            expected |-> e.announced, onReady |-> e.onReady]
  <2>1. e \in Entry /\ e \in InFlight /\ EntryOK(e) /\ e.buffer # <<>>
    BY <1>3 DEF IndInv, Entry, Buffering
  <2>2. active' = [active EXCEPT ![f] = x]
    BY <1>3 DEF IndInv
  <2>3. x \in InFlight
    BY <2>1, EmptyBuffer DEF InFlight
  <2>4. /\ x.announced = e.announced /\ x.status = e.status
        /\ x.failed = e.failed /\ x.armed = e.armed /\ x.buffer = <<>>
        /\ x.asked = e.asked /\ x.attempts = e.attempts
    BY <2>1 DEF InFlight
  <2> HIDE DEF x
  <2>5. x \in Entry
    BY <2>1, <2>3, <2>4, Paid DEF Entry, EntryOK
  <2>6. active' \in [Files -> Entry \cup {None}]
    BY <2>2, <2>5, UpdateType DEF IndInv
  <2>7. receiving' \in Received
    BY <1>3, <2>1 DEF Received, InFlight, EntryOK
  <2> QED BY <1>3, <2>6, <2>7, SilentType
      DEF IndInv, OnTransferEndTake, netUnchanged, counters
<1> QED BY <1>1, <1>2, <1>3 DEF OnTransferEndTake

LEMMA OnTransferEndFinishInv ==
  ASSUME IndInv, OnTransferEndFinish
  PROVE  IndInv'
<1> DEFINE r == receiving
<1>1. /\ r.file \in Files /\ r.expected \in Contents
      /\ r.onReady \in 1..MaxRequests
  BY DEF IndInv, OnTransferEndFinish, Received
<1>2. receiving' = None
  BY DEF OnTransferEndFinish
<1>3. CASE /\ HashMatches(r) /\ UNCHANGED active
           /\ stored' = [stored EXCEPT ![r.file] = Assembled(r.buffer)]
           /\ Push(Task("done", r.file, <<r.onReady>>))
  <2>1. stored' = [stored EXCEPT ![r.file] = r.expected]
    BY <1>3 DEF HashMatches
  <2>2. stored' \in [Files -> Contents \cup {NoContent}]
    BY <1>1, <2>1 DEF IndInv
  <2>3. mainQueue' \in Seq(Tasks)
    BY <1>1, <1>3, TaskType, PushType DEF IndInv
  <2> QED BY <1>2, <1>3, <2>2, <2>3, SilentType
      DEF IndInv, OnTransferEndFinish, counters
<1>4. CASE /\ UNCHANGED stored
           /\ IF active[r.file] = None THEN UNCHANGED <<active, mainQueue>>
              ELSE ScheduleRetry(r.file)
  <2>1. /\ active' \in [Files -> Entry \cup {None}]
        /\ mainQueue' \in Seq(Tasks)
    BY <1>1, <1>4, ScheduleRetryType DEF IndInv
  <2> QED BY <1>2, <1>4, <2>1, SilentType
      DEF IndInv, OnTransferEndFinish, counters
<1> QED BY <1>3, <1>4 DEF OnTransferEndFinish

LEMMA OnTransferCancelInv ==
  ASSUME IndInv, NEW m, m.file \in Files, OnTransferCancel(m)
  PROVE  IndInv'
<1> DEFINE f == m.file
           e == active[f]
           tasks == <<Task("erase", f, <<e.onReady>>),
                      Task("call", f, <<e.onReady>>)>>
<1>1. CASE e = None
  BY <1>1, SilentType
  DEF IndInv, OnTransferCancel, netUnchanged, counters
<1>2. CASE e # None
  <2>1. /\ active' = [active EXCEPT ![f] = Failed(e)]
        /\ mainQueue' = mainQueue \o tasks
    BY <1>2 DEF OnTransferCancel
  <2>2. e \in Entry
    BY <1>2 DEF IndInv
  <2>3. active' \in [Files -> Entry \cup {None}]
    BY <2>1, <2>2, FailedOK, UpdateType DEF IndInv
  <2>4. /\ Task("erase", f, <<e.onReady>>) \in Tasks
        /\ Task("call", f, <<e.onReady>>) \in Tasks
    BY <2>2, OnReadyType, TaskType
  <2>5. tasks \in Seq(Tasks)
    BY <2>4
  <2> HIDE DEF tasks
  <2>6. mainQueue' \in Seq(Tasks)
    BY <2>1, <2>5, ConcatProperties DEF IndInv
  <2> QED BY <2>3, <2>6, SilentType
      DEF IndInv, OnTransferCancel, netUnchanged, counters
<1> QED BY <1>1, <1>2

LEMMA CancelEntriesInv ==
  ASSUME IndInv, NEW F \in SUBSET Files, CancelEntries(F)
  PROVE  IndInv'
<1> DEFINE gone == {f \in F : active[f] # None}
<1>1. active' \in [Files -> Entry \cup {None}]
  BY DEF CancelEntries, IndInv
<1>2. Cardinality(gone) \in Nat
  <2>1. IsFiniteSet(Files) /\ gone \subseteq Files
    BY ClientAssumption
  <2> QED BY <2>1, FS_Subset, FS_CardinalityType
<1>3. PICK order \in [1..Cardinality(gone) -> gone] :
        /\ \A f \in gone : \E i \in DOMAIN order : order[i] = f
        /\ LET cbs == [i \in DOMAIN order |-> active[order[i]].onReady]
           IN IF gone = {} THEN UNCHANGED mainQueue
              ELSE Push(Task("call", order[1], cbs))
  BY DEF CancelEntries
<1>4. mainQueue' \in Seq(Tasks)
  <2> DEFINE cbs == [i \in DOMAIN order |-> active[order[i]].onReady]
  <2>1. CASE gone = {}
    BY <1>3, <2>1 DEF IndInv
  <2>2. CASE gone # {}
    <3>1. \A i \in DOMAIN order : order[i] \in gone
      OBVIOUS
    <3>2. \A f \in gone : f \in Files /\ active[f].onReady \in 1..MaxRequests
      BY OnReadyType DEF IndInv
    <3>3. cbs \in Seq(1..MaxRequests)
      <4> DEFINE n == Cardinality(gone)
                 R == 1..MaxRequests
      <4>1. n \in Nat /\ DOMAIN order = 1..n
        BY <1>2
      <4>2. \A i \in 1..n : active[order[i]].onReady \in R
        BY <3>1, <3>2, <4>1
      <4> HIDE DEF n, R
      <4>3. cbs \in [1..n -> R]
        BY <4>1, <4>2
      <4>4. cbs \in Seq(R)
        BY <4>1, <4>3
      <4> QED BY <4>4 DEF R
    <3>4. order[1] \in Files
      BY <1>3, <2>2, <3>1, <3>2, <1>2
    <3> HIDE DEF cbs
    <3>5. Task("call", order[1], cbs) \in Tasks
      BY <3>3, <3>4, TaskType
    <3>6. Push(Task("call", order[1], cbs))
      BY <1>3, <2>2 DEF cbs
    <3> QED BY <3>5, <3>6, PushType DEF IndInv
  <2> QED BY <2>1, <2>2
<1> QED BY <1>1, <1>4, SilentType
    DEF IndInv, CancelEntries, netUnchanged, counters

\* Whatever packet of the protocol arrives.
LEMMA HandleInv ==
  ASSUME IndInv, NEW m \in Packets, Handle(m)
  PROVE  IndInv'
<1>1. CASE m \in [type : {"begin"}, file : Files, content : Contents]
  <2>1. m.type = "begin" /\ m.file \in Files /\ m.content \in Contents
    BY <1>1
  <2>2. m = [type |-> "begin", file |-> m.file, content |-> m.content]
    BY <1>1
  <2>3. OnTransferBegin(m)
    BY <2>1 DEF Handle
  <2> QED BY <2>1, <2>2, <2>3, OnTransferBeginInv
<1>2. CASE m \in Chunks
  <2>1. PICK c \in Contents : m.index \in 0..(ChunkCount(c) + 1)
    BY <1>2 DEF Chunks
  <2>2. m.index \in Nat
    BY <2>1, ChunkCountType
  <2>3. /\ m.type = "chunk" /\ m.file \in Files
        /\ m.content \in Contents \cup {Garbage} /\ m.len \in Nat
    BY <1>2, ClientAssumption DEF Chunks
  <2>4. OnTransferChunk(m)
    BY <2>3 DEF Handle
  <2> QED BY <2>2, <2>3, <2>4, OnTransferChunkInv
<1>3. CASE m \in [type : {"end", "cancel"}, file : Files]
  <2>1. m.file \in Files /\ m.type \in {"end", "cancel"}
    BY <1>3
  <2>2. OnTransferEndTake(m) \/ OnTransferCancel(m)
    BY <2>1 DEF Handle
  <2> QED BY <2>1, <2>2, OnTransferEndTakeInv, OnTransferCancelInv
<1> QED BY <1>1, <1>2, <1>3 DEF Packets

-----------------------------------------------------------------------------
(* Worker.                                                                  *)

LEMMA WorkerInv ==
  ASSUME IndInv, Worker
  PROVE  IndInv'
<1>1. ASSUME NEW late \in SUBSET Files, WorkerScan(late) PROVE IndInv'
  <2>1. active' = [f \in Files |-> Visited(active[f], f \in late)]
    BY <1>1 DEF WorkerScan
  <2>2. \A f \in Files : Visited(active[f], f \in late) \in Entry \cup {None}
    <3> TAKE f \in Files
    <3>1. active[f] \in Entry \cup {None} /\ (f \in late) \in BOOLEAN
      BY DEF IndInv
    <3> QED BY <3>1, VisitedOK
  <2>3. active' \in [Files -> Entry \cup {None}]
    BY <2>1, <2>2
  <2>4. workerSends' \subseteq Files
    BY <1>1 DEF WorkerScan
  <2> QED BY <1>1, <2>3, <2>4, SilentType DEF IndInv, WorkerScan, counters
<1>2. ASSUME NEW f \in Files, WorkerPush(f) PROVE IndInv'
  <2>1. mainQueue' \in Seq(Tasks)
    BY <1>2, SendTaskType, PushType DEF IndInv, WorkerPush
  <2> QED BY <1>2, <2>1, SilentType DEF IndInv, WorkerPush, counters
<1> QED BY <1>1, <1>2 DEF Worker

-----------------------------------------------------------------------------
(* The specification.                                                       *)

LEMMA NextInv == IndInv /\ [AloneNext]_AloneVars => IndInv'
<1> SUFFICES ASSUME IndInv, [AloneNext]_AloneVars PROVE IndInv'
  OBVIOUS
<1>1. CASE Receive
  <2>1. ASSUME NEW m \in Models, CancelModelTransfers(m) PROVE IndInv'
    BY <2>1, CancelEntriesInv DEF CancelModelTransfers
  <2>2. ASSUME CancelAll PROVE IndInv'
    BY <2>2, CancelEntriesInv DEF CancelAll
  <2> QED BY <1>1, <2>1, <2>2, HandleInv DEF Receive
<1>2. CASE Threads
  BY <1>2, RequestFileInv, ManualRetryInv, RunTaskInv, OnTransferEndFinishInv,
     WorkerInv DEF Threads
<1>3. CASE UNCHANGED AloneVars
  BY <1>3 DEF AloneVars, vars, IndInv
<1> QED BY <1>1, <1>2, <1>3 DEF AloneNext

LEMMA Invariance == AloneSpec => []IndInv
BY InitInv, NextInv, PTL DEF AloneSpec

\* Every variable of the client keeps its type, whatever the server sends:
\* m_active, the cache, the tasks, what the END handler has in hand.
THEOREM TypeCorrect == AloneSpec => []TypeOK
BY Invariance, Consequences, PTL

\* OnTransferEnd only ever stores versions that the server announced: no
\* order, repetition or loss of packets gets other bytes into the cache.
THEOREM WholeVersionsOnly == AloneSpec => []StoreIntegrity
BY Invariance, Consequences, PTL

\* WorkerMain asks for a file at most twice per attempt, however its passes
\* interleave with retries, answers and cancellations.
THEOREM BoundedRequests == AloneSpec => []SendBudget
BY Invariance, Consequences, PTL

\* Every download that is not over has a retry or a timeout in WorkerMain,
\* except after a manual retry or a rejected announcement.
THEOREM NeverForgotten == AloneSpec => []Watched
BY Invariance, Consequences, PTL

-----------------------------------------------------------------------------
(* With the server's transfer manager (AssetTransfer).  What the server does *)
(* counts only as far as it keeps the promise of ChunkStreams.               *)

SP == INSTANCE ServerTransfersProofs WITH Players <- {Player}

\* What ServerTransfers assumes.
LEMMA ServerConstants ==
  /\ ModelOf \in [Files -> Models]
  /\ CompressedSize \in [Contents -> Nat \ {0}]
  /\ FileChunkSize \in Nat \ {0}
  /\ Oversized \subseteq Contents
  /\ NoContent \notin Contents
  /\ Garbage \notin Contents
  /\ ChunksPerPlayerPerTick \in Nat \ {0}
  /\ MaxActiveTransfersPerPlayer \in Nat \ {0}
BY ClientAssumption, AssetAssumption

\* The stream of f on the player's channel, as the server has it.
Promised(f) == SP!Stream[<<Player, f>>]
Closed == [next |-> 0, total |-> 0]

Cursor == [next : Nat, total : Nat]

\* The server's first state has no streams.
LEMMA ServerInit ==
  ASSUME SP!Init
  PROVE  SP!IndInv /\ \A f \in Files : Promised(f) = Closed
<1>1. SP!IndInv
  BY ServerConstants, SP!InitInv
<1>2. \A f \in Files : Promised(f) = SP!NoStream
  BY ServerConstants, SP!NoStreams DEF Promised
<1> QED BY <1>1, <1>2 DEF SP!NoStream, Closed

\* The server's own invariant, whatever the client does.
LEMMA ServerKeeps ==
  ASSUME SP!IndInv, [SP!Next]_(SP!vars)
  PROVE  SP!IndInv'
BY ServerConstants, SP!StepInv

\* A stream is a position in a file of so many chunks.
LEMMA PromisedType ==
  ASSUME SP!IndInv, NEW f \in Files
  PROVE  Promised(f) \in Cursor
BY ServerConstants, SP!StreamType DEF Promised, Cursor

Answer == out'[Player]

\* What the server sends the player in a step is what ChunkStreams allows.
LEMMA ServerSees ==
  ASSUME SP!IndInv, SP!IndInv', SP!Next, NEW f \in Files
  PROVE  SP!Seen(f, Promised(f), [i \in DOMAIN Answer |-> SP!Shape(Answer[i])],
                 Promised(f)')
<1>1. SP!Seen(f, SP!Stream[<<Player, f>>], SP!Packs'[Player], SP!Stream'[<<Player, f>>])
  BY ServerConstants, SP!PlayerSees
<1>2. SP!Packs'[Player] = [i \in DOMAIN Answer |-> SP!Shape(Answer[i])]
  BY DEF SP!Packs, Answer
<1> QED BY <1>1, <1>2 DEF Promised

\* A BEGIN announces the chunks of the version it names.
LEMMA ServerAnnounces ==
  ASSUME SP!IndInv, SP!IndInv', SP!Next
  PROVE  /\ Answer \in Seq(SP!Message)
         /\ \A i \in DOMAIN Answer : SP!Announces(Answer[i])
<1>1. Answer \in Seq(SP!Message)
  BY DEF SP!IndInv, SP!TypeOK, Answer
<1>2. \A i \in DOMAIN Answer : SP!Announces(Answer[i])
  BY ServerConstants, SP!BeginsAnnounce DEF Answer
<1> QED BY <1>1, <1>2

\* The two names of the server's steps.
LEMMA ServerIs ==
  /\ Server!Init => SP!Init
  /\ Server!IncomingConnection(Player) => SP!Next
  /\ Server!PlayerConnect(Player) => SP!Next
  /\ Server!PlayerInit(Player) => SP!Next
  /\ Server!PlayerDisconnect(Player) => SP!Next
  /\ Server!Tick => SP!Next
  /\ \A f \in Files : Server!OnRequestFile(Player, f) => SP!Next
  /\ \A m \in Models : Server!CancelTransfersForModel(m) => SP!Next
  /\ \A f \in Files : Server!InvalidateCache(f) => SP!Next
  /\ \A f \in Files, c \in Contents \cup {NoContent} :
        Server!ReplaceFile(f, c) => SP!Next
  /\ UNCHANGED serverVars => UNCHANGED SP!vars
<1>1. Server!Quiet = SP!Quiet
  BY DEF Server!Quiet, SP!Quiet
<1>2. ASSUME NEW q, NEW D PROVE Server!Without(q, D) = SP!Without(q, D)
  BY DEF Server!Without, SP!Without, Server!Key, SP!Key
<1>3. Server!Init => SP!Init
  BY <1>1 DEF Server!Init, SP!Init
<1>4. /\ Server!IncomingConnection(Player) => SP!Session(Player)
      /\ Server!PlayerConnect(Player) => SP!Session(Player)
      /\ Server!PlayerInit(Player) => SP!Session(Player)
  BY <1>1 DEF Server!IncomingConnection, SP!IncomingConnection,
     Server!PlayerConnect, SP!PlayerConnect, Server!PlayerInit, SP!PlayerInit,
     SP!Session, SP!tickVars, Server!tickVars
<1>5. Server!PlayerDisconnect(Player) => SP!Session(Player)
  BY <1>1, <1>2 DEF Server!PlayerDisconnect, SP!PlayerDisconnect, SP!Session,
     SP!tickVars, Server!tickVars
<1>6. Server!Tick => SP!Tick
  BY DEF Server!Tick, SP!Tick, Server!TickBegin, SP!TickBegin,
  Server!TickTransfer, SP!TickTransfer, Server!TickEnd, SP!TickEnd,
  Server!DropTransfer, SP!DropTransfer, Server!DeferTransfer, SP!DeferTransfer,
  Server!PumpTransfer, SP!PumpTransfer, Server!Loaded, SP!Loaded,
  Server!LoadCache, SP!LoadCache, Server!Affordable, SP!Affordable,
  Server!Packets, SP!Packets, Server!ChunkMsg, SP!ChunkMsg,
  Server!EndMsg, SP!EndMsg, Server!Send, SP!Send, Server!Quiet, SP!Quiet
<1>7. ASSUME NEW f \in Files
      PROVE  Server!OnRequestFile(Player, f) => SP!OnRequestFile(Player, f)
  <2>1. /\ Server!Without(activeTransfers, {<<Player, f>>})
             = SP!Without(activeTransfers, {<<Player, f>>})
        /\ \A S : Server!Cardinality(S) = SP!Cardinality(S)
    BY <1>2 DEF Server!Cardinality, SP!Cardinality
  <2> QED BY <2>1, <1>1 DEF Server!OnRequestFile, SP!OnRequestFile,
       Server!Owned, SP!Owned, Server!Loaded, SP!Loaded,
       Server!LoadCache, SP!LoadCache, Server!Send, SP!Send,
       Server!CancelMsg, SP!CancelMsg, Server!BeginMsg, SP!BeginMsg,
       Server!ChunkCount, SP!ChunkCount, SP!tickVars, Server!tickVars
<1>8. ASSUME NEW m \in Models
      PROVE  Server!CancelTransfersForModel(m) => SP!CancelTransfersForModel(m)
  BY <1>1, <1>2 DEF Server!CancelTransfersForModel, SP!CancelTransfersForModel,
  SP!tickVars, Server!tickVars
<1>9. ASSUME NEW f \in Files
      PROVE  Server!InvalidateCache(f) => SP!InvalidateCache(f)
  BY <1>1 DEF Server!InvalidateCache, SP!InvalidateCache, SP!tickVars, Server!tickVars
<1>10. ASSUME NEW f \in Files, NEW c
       PROVE  Server!ReplaceFile(f, c) => SP!ReplaceFile(f, c)
  BY <1>1 DEF Server!ReplaceFile, SP!ReplaceFile, SP!tickVars, Server!tickVars
<1>11. /\ SP!Session(Player) => SP!Next
       /\ SP!Tick => SP!Next
       /\ \A f \in Files : SP!OnRequestFile(Player, f) => SP!Next
       /\ \A m \in Models : SP!CancelTransfersForModel(m) => SP!Next
       /\ \A f \in Files : SP!InvalidateCache(f) => SP!Next
       /\ \A f \in Files, c \in Contents \cup {NoContent} :
             SP!ReplaceFile(f, c) => SP!Next
  BY DEF SP!Next, SP!ClientPacket, SP!Script
<1>12. UNCHANGED serverVars => UNCHANGED SP!vars
  BY DEF SP!vars, SP!tickVars, serverVars
<1> QED BY <1>3, <1>4, <1>5, <1>6, <1>7, <1>8, <1>9, <1>10, <1>11, <1>12

\* Steps of others leave the streams alone.
LEMMA PromisedStays ==
  ASSUME UNCHANGED serverVars, NEW f \in Files
  PROVE  Promised(f)' = Promised(f)
BY DEF serverVars, Promised, SP!Stream, SP!StreamOf, SP!Queue, SP!Key

\* A player who is not connected has no streams.
LEMMA PromisedNone ==
  ASSUME SP!IndInv', connected' = {}, NEW f \in Files
  PROVE  Promised(f)' = Closed
<1>1. SP!QueueOK(SP!Queue', connected')
  BY DEF SP!IndInv
<1>2. \A i \in DOMAIN SP!Queue' : FALSE
  BY <1>1 DEF SP!QueueOK
<1>3. {i \in DOMAIN SP!Queue' : SP!Key(SP!Queue'[i]) = <<Player, f>>} = {}
  BY <1>2
<1>4. SP!Stream'[<<Player, f>>] = SP!StreamIn(SP!Queue', <<Player, f>>)
  BY ServerConstants, SP!StreamIsIn
<1>5. SP!StreamIn(SP!Queue', <<Player, f>>) = Closed
  BY <1>3 DEF SP!StreamIn, Closed
<1> QED BY <1>4, <1>5 DEF Promised

\* A step that sends nothing can only end a stream.
LEMMA ServerQuiet ==
  ASSUME SP!IndInv, SP!IndInv', SP!Next, out' = SP!Quiet, NEW f \in Files
  PROVE  Promised(f)' \in {Promised(f), Closed}
<1>1. SP!Seen(f, Promised(f), [i \in DOMAIN Answer |-> SP!Shape(Answer[i])],
              Promised(f)')
  BY ServerSees
<1>2. [i \in DOMAIN Answer |-> SP!Shape(Answer[i])] = <<>>
  BY DEF Answer, SP!Quiet
<1> QED BY <1>1, <1>2 DEF SP!Seen, SP!NoStream, Closed, SP!NextChunks

-----------------------------------------------------------------------------
(* What the packets on the channel do to the stream of a file.              *)

\* m is a packet of the stream of f.
Of(f, m) == m.type \in {"begin", "chunk", "end"} /\ m.file = f

\* m takes the stream of f from a to b, and is the packet that comes at a.
Flows(f, a, m, b) ==
    \/ ~Of(f, m) /\ b = a
    \/ /\ Of(f, m) /\ m.type = "begin"
       /\ b = [next |-> 0, total |-> m.total]
    \/ /\ Of(f, m) /\ m.type = "chunk"
       /\ m.index = a.next
       /\ b = [next |-> a.next + 1, total |-> a.total]
    \/ /\ Of(f, m) /\ m.type = "end"
       /\ a.next = a.total
       /\ b = a

Along(f, w, tr) == \A i \in 1..Len(w) : Flows(f, tr[i - 1], w[i], tr[i])

\* The packets w take the stream of f from a to b.
Path(f, w, a, b) ==
    \E tr \in [0..Len(w) -> Cursor] :
        tr[0] = a /\ tr[Len(w)] = b /\ Along(f, w, tr)

\* Packets behind packets.
LEMMA PathConcat ==
  ASSUME NEW S, NEW w \in Seq(S), NEW v \in Seq(S), NEW f, NEW a, NEW b, NEW c,
         Path(f, w, a, b), Path(f, v, b, c)
  PROVE  Path(f, w \o v, a, c)
<1> DEFINE n == Len(w)
           k == Len(v)
<1>1. n \in Nat /\ k \in Nat /\ Len(w \o v) = n + k
      /\ \A i \in 1..(n + k) : (w \o v)[i] = IF i <= n THEN w[i] ELSE v[i - n]
  BY ConcatProperties
<1>2. PICK t \in [0..n -> Cursor] : t[0] = a /\ t[n] = b /\ Along(f, w, t)
  BY DEF Path
<1>3. PICK u \in [0..k -> Cursor] : u[0] = b /\ u[k] = c /\ Along(f, v, u)
  BY DEF Path
<1> DEFINE tr == [i \in 0..(n + k) |-> IF i <= n THEN t[i] ELSE u[i - n]]
<1> HIDE DEF n, k
<1>4. tr \in [0..(n + k) -> Cursor]
  <2>1. ASSUME NEW i \in 0..(n + k), ~(i <= n) PROVE i - n \in 0..k
    BY <1>1, <2>1
  <2>2. ASSUME NEW i \in 0..(n + k), i <= n PROVE i \in 0..n
    BY <1>1, <2>2
  <2> QED BY <2>1, <2>2
<1>5. tr[0] = a /\ tr[n + k] = c
  <2>1. tr[0] = a
    BY <1>1, <1>2
  <2>2. CASE k = 0
    <3>1. c = b /\ tr[n + k] = t[n]
      BY <1>1, <1>3, <2>2
    <3> QED BY <2>1, <3>1, <1>2
  <2>3. CASE k # 0
    BY <1>1, <1>3, <2>1, <2>3
  <2> QED BY <2>2, <2>3
<1>6. ASSUME NEW i \in 1..(n + k)
      PROVE  Flows(f, tr[i - 1], (w \o v)[i], tr[i])
  <2>1. CASE i <= n
    <3>1. i \in 1..n /\ tr[i - 1] = t[i - 1] /\ tr[i] = t[i]
          /\ (w \o v)[i] = w[i]
      BY <1>1, <2>1
    <3> QED BY <3>1, <1>2 DEF Along, n
  <2>2. CASE ~(i <= n)
    <3>1. i - n \in 1..k /\ tr[i] = u[i - n] /\ (w \o v)[i] = v[i - n]
      BY <1>1, <2>2
    <3>2. tr[i - 1] = u[(i - n) - 1]
      <4>1. CASE i = n + 1
        BY <4>1, <1>1, <1>2, <1>3
      <4>2. CASE i # n + 1
        BY <4>2, <1>1, <2>2
      <4> QED BY <4>1, <4>2
    <3> QED BY <3>1, <3>2, <1>3 DEF Along, k
  <2> QED BY <2>1, <2>2
<1> HIDE DEF tr
<1> QED BY <1>1, <1>4, <1>5, <1>6 DEF Path, Along

\* Packets that are none of the stream leave it alone.
LEMMA PathElse ==
  ASSUME NEW S, NEW w \in Seq(S), NEW f, NEW a \in Cursor,
         \A i \in DOMAIN w : ~Of(f, w[i])
  PROVE  Path(f, w, a, a)
<1> DEFINE tr == [i \in 0..Len(w) |-> a]
<1>1. Len(w) \in Nat /\ DOMAIN w = 1..Len(w)
  OBVIOUS
<1>2. tr \in [0..Len(w) -> Cursor] /\ tr[0] = a /\ tr[Len(w)] = a
  BY <1>1
<1>3. \A i \in 1..Len(w) : Flows(f, tr[i - 1], w[i], tr[i])
  BY <1>1 DEF Flows
<1> HIDE DEF tr
<1> QED BY <1>2, <1>3 DEF Path, Along

\* One packet.
LEMMA PathOne ==
  ASSUME NEW m, NEW f, NEW a \in Cursor, NEW b \in Cursor, Flows(f, a, m, b)
  PROVE  Path(f, <<m>>, a, b)
<1> DEFINE tr == [i \in 0..1 |-> IF i = 0 THEN a ELSE b]
<1>1. Len(<<m>>) = 1 /\ <<m>>[1] = m
  OBVIOUS
<1>2. tr \in [0..1 -> Cursor] /\ tr[0] = a /\ tr[1] = b
  OBVIOUS
<1>3. \A i \in 1..1 : Flows(f, tr[i - 1], <<m>>[i], tr[i])
  BY <1>1, <1>2
<1> HIDE DEF tr
<1> QED BY <1>1, <1>2, <1>3 DEF Path, Along

\* The receiver takes the first packet.
LEMMA PathTail ==
  ASSUME NEW S, NEW w \in Seq(S), w # <<>>, NEW f, NEW a, NEW b, Path(f, w, a, b)
  PROVE  \E c \in Cursor : Flows(f, a, Head(w), c) /\ Path(f, Tail(w), c, b)
<1> DEFINE n == Len(w)
<1>1. /\ n \in Nat \ {0} /\ Head(w) = w[1] /\ Len(Tail(w)) = n - 1
      /\ \A i \in 1..(n - 1) : Tail(w)[i] = w[i + 1]
  BY HeadTailProperties, EmptySeq
<1>2. PICK t \in [0..n -> Cursor] : t[0] = a /\ t[n] = b /\ Along(f, w, t)
  BY DEF Path
<1> DEFINE tr == [i \in 0..(n - 1) |-> t[i + 1]]
<1>3. \A i \in 1..n : Flows(f, t[i - 1], w[i], t[i])
  BY <1>2 DEF Along
<1> HIDE DEF n
<1>4. tr \in [0..(n - 1) -> Cursor] /\ tr[0] = t[1] /\ tr[n - 1] = b
  BY <1>1, <1>2
<1>5. t[1] \in Cursor /\ Flows(f, a, Head(w), t[1])
  <2>1. 1 \in 1..n /\ 1 \in 0..n /\ 1 - 1 = 0
    BY <1>1
  <2> QED BY <2>1, <1>1, <1>2, <1>3
<1>6. ASSUME NEW i \in 1..(n - 1)
      PROVE  Flows(f, tr[i - 1], Tail(w)[i], tr[i])
  <2>1. i + 1 \in 1..n /\ (i + 1) - 1 = i /\ tr[i - 1] = t[i] /\ tr[i] = t[i + 1]
    BY <1>1
  <2> QED BY <2>1, <1>1, <1>3
<1> HIDE DEF tr
<1> QED BY <1>1, <1>4, <1>5, <1>6 DEF Path, Along

\* The channel is cut.
LEMMA PathPrefix ==
  ASSUME NEW S, NEW w \in Seq(S), NEW f, NEW a, NEW b, Path(f, w, a, b),
         NEW n \in 0..Len(w)
  PROVE  \E c \in Cursor : Path(f, SubSeq(w, 1, n), a, c)
<1>1. /\ Len(w) \in Nat /\ n \in Nat /\ Len(SubSeq(w, 1, n)) = n
      /\ \A i \in 1..n : SubSeq(w, 1, n)[i] = w[i]
  BY SubSeqProperties
<1>2. PICK t \in [0..Len(w) -> Cursor] : t[0] = a /\ Along(f, w, t)
  BY DEF Path
<1> DEFINE tr == [i \in 0..n |-> t[i]]
<1>3. tr \in [0..n -> Cursor] /\ tr[0] = a /\ tr[n] \in Cursor
  BY <1>1, <1>2
<1>4. ASSUME NEW i \in 1..n
      PROVE  Flows(f, tr[i - 1], SubSeq(w, 1, n)[i], tr[i])
  <2>1. i \in 1..Len(w) /\ tr[i - 1] = t[i - 1] /\ tr[i] = t[i]
    BY <1>1
  <2> QED BY <2>1, <1>1, <1>2 DEF Along
<1> HIDE DEF tr
<1> QED BY <1>1, <1>3, <1>4 DEF Path, Along

\* What a step of the server sends of f takes the stream to where the server
\* has it, unless the server has given it up.
LEMMA SeenPath ==
  ASSUME NEW f, NEW v \in Seq(SP!Message), NEW s \in Cursor, NEW t,
         NEW a \in Cursor, s # Closed => a = s,
         SP!Seen(f, s, [i \in DOMAIN v |-> SP!Shape(v[i])], t)
  PROVE  \E b \in Cursor : Path(f, v, a, b) /\ (t # Closed => b = t)
<1> DEFINE w == [i \in DOMAIN v |-> SP!Shape(v[i])]
<1>1. /\ DOMAIN w = DOMAIN v
      /\ \A i \in DOMAIN v : w[i].type = v[i].type /\ w[i].file = v[i].file
      /\ \A i \in DOMAIN v :
            /\ v[i].type = "begin" => w[i].number = v[i].total
            /\ v[i].type = "chunk" => w[i].number = v[i].index
  BY DEF SP!Shape
<1>2. Len(v) \in Nat /\ DOMAIN v = 1..Len(v)
  OBVIOUS
<1> HIDE DEF w
<1>3. CASE w = <<>> /\ t \in {s, SP!NoStream}
  <2>1. \A i \in DOMAIN v : ~Of(f, v[i])
    BY <1>1, <1>2, <1>3
  <2>2. t # Closed => a = t
    BY <1>3 DEF SP!NoStream, Closed
  <2> QED BY <2>1, <2>2, PathElse
<1>4. CASE t = s /\ \A i \in DOMAIN w : w[i].file # f
  <2>1. \A i \in DOMAIN v : ~Of(f, v[i])
    BY <1>1, <1>4 DEF Of
  <2> QED BY <2>1, <1>4, PathElse
<1>5. ASSUME NEW n \in Nat, w = <<[type |-> "begin", file |-> f, number |-> n]>>,
             t = [next |-> 0, total |-> n]
      PROVE  \E b \in Cursor : Path(f, v, a, b) /\ (t # Closed => b = t)
  <2>1. DOMAIN v = 1..1 /\ w[1] = [type |-> "begin", file |-> f, number |-> n]
    BY <1>1, <1>5
  <2>2. v = <<v[1]>>
    BY <2>1, <1>2
  <2>3. v[1].type = "begin" /\ v[1].file = f /\ v[1].total = n
    BY <2>1, <1>1
  <2>4. Flows(f, a, v[1], t) /\ t \in Cursor
    BY <2>3, <1>5 DEF Flows, Of, Cursor
  <2>5. Path(f, <<v[1]>>, a, t)
    BY <2>4, PathOne
  <2> QED BY <2>2, <2>4, <2>5
<1>6. CASE w = <<[type |-> "cancel", file |-> f, number |-> 0]>> /\ t = SP!NoStream
  <2>1. DOMAIN v = 1..1 /\ w[1] = [type |-> "cancel", file |-> f, number |-> 0]
    BY <1>1, <1>6
  <2>2. \A i \in DOMAIN v : ~Of(f, v[i])
    BY <2>1, <1>1 DEF Of
  <2> QED BY <2>2, <1>6, PathElse DEF SP!NoStream, Closed
<1>7. s.next \in Nat /\ s.total \in Nat /\ s = [next |-> s.next, total |-> s.total]
  BY DEF Cursor
<1>8. ASSUME NEW k \in Nat \ {0}, s.next + k <= s.total
      PROVE  s # Closed /\ a = s
  BY <1>7, <1>8 DEF Closed
<1>9. ASSUME NEW k \in Nat \ {0}, NEW i \in 1..k
      PROVE  SP!NextChunks(f, s, k)[i] = [type |-> "chunk", file |-> f,
                                          number |-> s.next + i - 1]
  BY DEF SP!NextChunks
<1>10. ASSUME NEW k \in Nat \ {0}, s.next + k < s.total,
              w = SP!NextChunks(f, s, k),
              t = [next |-> s.next + k, total |-> s.total]
       PROVE  \E b \in Cursor : Path(f, v, a, b) /\ (t # Closed => b = t)
  <2> DEFINE tr == [i \in 0..k |-> [next |-> s.next + i, total |-> s.total]]
  <2>1. DOMAIN v = 1..k /\ Len(v) = k
    <3>1. DOMAIN v = 1..k
      BY <1>1, <1>10 DEF SP!NextChunks
    <3> QED BY <3>1, <1>2
  <2>2. /\ tr \in [0..k -> Cursor] /\ tr[k] = t /\ tr[0] = a
    <3>1. tr \in [0..k -> Cursor]
      BY <1>7 DEF Cursor
    <3>2. tr[0] = [next |-> s.next, total |-> s.total]
      BY <1>7
    <3> QED BY <3>1, <3>2, <1>7, <1>8, <1>10
  <2>3. ASSUME NEW i \in 1..k
        PROVE  Flows(f, tr[i - 1], v[i], tr[i])
    <3>1. v[i].type = "chunk" /\ v[i].file = f /\ v[i].index = s.next + i - 1
      <4>1. i \in DOMAIN v /\ w[i] = [type |-> "chunk", file |-> f,
                                     number |-> s.next + i - 1]
        BY <2>1, <1>9, <1>10
      <4>2. w[i].type = "chunk" /\ w[i].file = f /\ w[i].number = s.next + i - 1
        BY <4>1
      <4> QED BY <4>1, <4>2, <1>1
    <3>2. /\ tr[i - 1] = [next |-> s.next + (i - 1), total |-> s.total]
          /\ tr[i] = [next |-> s.next + i, total |-> s.total]
      OBVIOUS
    <3> HIDE DEF tr
    <3>3. tr[i - 1].next = s.next + i - 1 /\ tr[i - 1].total = s.total
          /\ tr[i] = [next |-> tr[i - 1].next + 1, total |-> tr[i - 1].total]
      BY <3>2, <1>7
    <3> QED BY <3>1, <3>3 DEF Flows, Of
  <2> HIDE DEF tr
  <2> QED BY <2>1, <2>2, <2>3 DEF Path, Along
<1> DEFINE last == [type |-> "end", file |-> f, number |-> 0]
<1>11. ASSUME NEW k \in Nat \ {0}, s.next + k = s.total,
              w = Append(SP!NextChunks(f, s, k), last),
              t = SP!NoStream
       PROVE  \E b \in Cursor : Path(f, v, a, b) /\ (t # Closed => b = t)
  <2> DEFINE at(i) == IF i <= k THEN s.next + i ELSE s.next + k
             tr == [i \in 0..(k + 1) |-> [next |-> at(i), total |-> s.total]]
             chunks == SP!NextChunks(f, s, k)
  <2>1. /\ DOMAIN w = 1..(k + 1) /\ w[k + 1] = last
        /\ \A i \in 1..k : w[i] = [type |-> "chunk", file |-> f,
                                   number |-> s.next + i - 1]
    <3>1. chunks = [i \in 1..k |-> chunks[i]]
      BY DEF SP!NextChunks
    <3>2. \A i \in 1..k : chunks[i] = [type |-> "chunk", file |-> f,
                                       number |-> s.next + i - 1]
      BY <1>9
    <3> HIDE DEF chunks
    <3>3. chunks \in Seq({chunks[i] : i \in 1..k}) /\ Len(chunks) = k
      <4>1. chunks \in [1..k -> {chunks[i] : i \in 1..k}]
        BY <3>1
      <4> QED BY <4>1
    <3>4. w = Append(chunks, last)
      BY <1>11 DEF chunks
    <3> QED BY <3>2, <3>3, <3>4
  <2>2. DOMAIN v = 1..(k + 1) /\ Len(v) = k + 1
    <3> DEFINE n == k + 1
    <3>1. DOMAIN v = 1..n /\ n \in Nat
      BY <2>1, <1>1
    <3> HIDE DEF n
    <3>2. Len(v) = n
      BY <3>1, <1>2
    <3> QED BY <3>1, <3>2 DEF n
  <2>3. tr \in [0..(k + 1) -> Cursor] /\ tr[k + 1] \in Cursor /\ tr[0] = a
    <3>1. tr \in [0..(k + 1) -> Cursor]
      BY <1>7 DEF Cursor
    <3>2. tr[0] = [next |-> s.next, total |-> s.total]
      BY <1>7
    <3> QED BY <3>1, <3>2, <1>7, <1>8, <1>11
  <2>4. ASSUME NEW i \in 1..(k + 1)
        PROVE  Flows(f, tr[i - 1], v[i], tr[i])
    <3>1. /\ tr[i - 1] = [next |-> s.next + (i - 1), total |-> s.total]
          /\ tr[i] = [next |-> at(i), total |-> s.total]
      OBVIOUS
    <3>2. tr[i - 1].next = s.next + i - 1 /\ tr[i - 1].total = s.total
      BY <3>1, <1>7
    <3> HIDE DEF tr
    <3>3. CASE i \in 1..k
      <4>1. v[i].type = "chunk" /\ v[i].file = f /\ v[i].index = s.next + i - 1
        <5>1. i \in DOMAIN v /\ w[i] = [type |-> "chunk", file |-> f,
                                       number |-> s.next + i - 1]
          BY <2>1, <2>2, <3>3
        <5>2. w[i].type = "chunk" /\ w[i].file = f /\ w[i].number = s.next + i - 1
          BY <5>1
        <5> QED BY <5>1, <5>2, <1>1
      <4>2. tr[i] = [next |-> tr[i - 1].next + 1, total |-> tr[i - 1].total]
        BY <3>1, <3>2, <3>3, <1>7
      <4> QED BY <4>1, <4>2, <3>2 DEF Flows, Of
    <3>4. CASE i = k + 1
      <4>1. v[i].type = "end" /\ v[i].file = f
        BY <2>1, <2>2, <1>1, <3>4
      <4>2. tr[i - 1].next = s.total
        BY <3>2, <3>4, <1>7, <1>11
      <4>3. tr[i] = tr[i - 1]
        BY <3>1, <3>4, <1>7
      <4> QED BY <4>1, <4>2, <4>3, <3>2 DEF Flows, Of
    <3> QED BY <3>3, <3>4
  <2> HIDE DEF tr
  <2>5. t = Closed
    BY <1>11 DEF SP!NoStream, Closed
  <2> QED BY <2>2, <2>3, <2>4, <2>5 DEF Path, Along
<1>12. SP!Seen(f, s, w, t)
  BY DEF w
<1> QED BY <1>3, <1>4, <1>5, <1>6, <1>10, <1>11, <1>12 DEF SP!Seen

-----------------------------------------------------------------------------
(* The entries, as far as they take chunks.                                 *)

\* No END that finds e can be taken for the end of a download.
Dead(e) == e = None \/ e.failed \/ e.buffer = <<>>

\* e has what the packets up to a have brought of its file.  An announcement
\* the client rejects makes the stream start again, but not the entry.
Tracks(e, a) ==
    \/ Dead(e)
    \/ /\ e.announced \in Contents \ ClientOversized
       /\ ChunkCount(e.announced) <= a.total
       /\ \E r \in Nat : /\ e.received = 0..(r - 1)
                         /\ a.next <= r
                         /\ r <= ChunkCount(e.announced)

\* A step that no packet of the stream causes.
Rests(e, x) ==
    \/ Dead(x)
    \/ /\ ~Dead(e)
       /\ x.announced = e.announced /\ x.received = e.received

\* What no packet of the stream causes leaves the client where it was in it.
LEMMA RestsTracks ==
  ASSUME NEW e, NEW x, NEW a, Tracks(e, a), Rests(e, x)
  PROVE  Tracks(x, a)
BY DEF Tracks, Rests

\* An entry that stays as it is.
LEMMA RestsSame ==
  ASSUME NEW e
  PROVE  Rests(e, e)
BY DEF Rests

\* Giving up, retrying and clearing all lose the buffer or the download.
LEMMA DeadEntries ==
  ASSUME NEW e \in Entry
  PROVE  Dead(Failed(e)) /\ Dead(Retried(e)) /\ Dead(Cleared(e))
<1>1. e \in InFlight
  BY DEF Entry
<1>2. Failed(e).failed = TRUE /\ Cleared(e).buffer = <<>>
  BY <1>1 DEF Failed, Cleared, InFlight
<1>3. CASE Exhausted(e)
  <2> DEFINE x == [e EXCEPT !.attempts = @ + 1]
  <2>1. Retried(e) = Failed(x)
    BY <1>3 DEF Retried
  <2>2. Failed(x).failed = TRUE
    BY <1>1 DEF Failed, InFlight
  <2> QED BY <2>1, <2>2, <1>2 DEF Dead
<1>4. CASE ~Exhausted(e)
  <2>1. Retried(e).buffer = <<>>
    BY <1>1, <1>4 DEF Retried, Cleared, InFlight
  <2> QED BY <2>1, <1>2 DEF Dead
<1> QED BY <1>3, <1>4

\* The worker's look at an entry.
LEMMA VisitedRests ==
  ASSUME NEW e \in Entry \cup {None}, NEW late \in BOOLEAN
  PROVE  Rests(e, Visited(e, late))
<1>1. CASE e = None \/ e.failed
  BY <1>1, RestsSame DEF Visited
<1>2. CASE e # None /\ ~e.failed
  <2>1. e \in InFlight /\ e \in Entry
    BY <1>2 DEF Entry
  <2>2. CASE e.attempts > RetryMaxAttempts
    BY <2>1, <2>2, <1>2, DeadEntries DEF Visited, Rests
  <2>3. CASE ~(e.attempts > RetryMaxAttempts) /\ late /\ e.armed
    <3> DEFINE x == [e EXCEPT !.armed = FALSE, !.status = "requesting",
                              !.asked = @ + 1]
    <3>1. Visited(e, late) = x
      BY <2>3, <1>2 DEF Visited
    <3>2. /\ x.announced = e.announced /\ x.received = e.received
          /\ x.buffer = e.buffer /\ x.failed = e.failed
      BY <2>1 DEF InFlight
    <3> HIDE DEF x
    <3> QED BY <3>1, <3>2, <1>2 DEF Rests, Dead
  <2>4. CASE ~(e.attempts > RetryMaxAttempts) /\ late /\ ~e.armed /\ Waiting(e)
    <3> DEFINE x == [e EXCEPT !.attempts = @ + 1, !.status = "retrying",
                              !.armed = TRUE, !.asked = @ + 1]
    <3>1. Visited(e, late) = Cleared(x)
      BY <2>4, <1>2 DEF Visited
    <3>2. Cleared(x).buffer = <<>>
      BY <2>1 DEF Cleared, InFlight
    <3> QED BY <3>1, <3>2 DEF Rests, Dead
  <2>5. CASE ~(e.attempts > RetryMaxAttempts) /\ ~(late /\ (e.armed \/ Waiting(e)))
    <3>1. Visited(e, late) = e
      BY <2>5, <1>2 DEF Visited
    <3> QED BY <3>1, RestsSame
  <2> QED BY <2>2, <2>3, <2>4, <2>5
<1> QED BY <1>1, <1>2

AllRest == \A f \in Files : Rests(active[f], active'[f])

\* A step that changes one entry.
LEMMA UpdateRests ==
  ASSUME active \in [Files -> Entry \cup {None}], NEW g \in Files, NEW x,
         Rests(active[g], x), active' = [active EXCEPT ![g] = x]
  PROVE  AllRest
BY RestsSame DEF AllRest

\* A step that changes none.
LEMMA SameRests ==
  ASSUME active' = active
  PROVE  AllRest
BY RestsSame DEF AllRest

\* A retry is put off.
LEMMA ScheduleRetryRests ==
  ASSUME IndInv, NEW g \in Files, active[g] # None, ScheduleRetry(g)
  PROVE  AllRest
<1>1. active[g] \in Entry /\ active \in [Files -> Entry \cup {None}]
  BY DEF IndInv
<1>2. active' = [active EXCEPT ![g] = Retried(active[g])]
  BY <1>1 DEF ScheduleRetry
<1> QED BY <1>1, <1>2, DeadEntries, UpdateRests DEF Rests

\* The main thread, the worker and the second half of an END.
LEMMA MainRests ==
  ASSUME IndInv,
         \/ \E f \in Files, want \in Contents : RequestFile(f, want)
         \/ \E f \in Files : ManualRetry(f)
         \/ RunTask
         \/ Worker
         \/ OnTransferEndFinish
  PROVE  AllRest
<1>0. active \in [Files -> Entry \cup {None}] /\ mainQueue \in Seq(Tasks)
  BY DEF IndInv
<1>1. ASSUME NEW f \in Files, NEW want \in Contents, RequestFile(f, want)
      PROVE  AllRest
  <2>1. CASE active' = active
    BY <2>1, SameRests
  <2>2. CASE active' = [active EXCEPT ![f] = NewEntry(requests + 1)]
    <3>1. NewEntry(requests + 1).buffer = <<>>
      BY DEF NewEntry
    <3> QED BY <2>2, <3>1, <1>0, UpdateRests DEF Rests, Dead
  <2> QED BY <1>1, <2>1, <2>2 DEF RequestFile
<1>2. ASSUME NEW f \in Files, ManualRetry(f)
      PROVE  AllRest
  <2> DEFINE e == active[f]
             x == [e EXCEPT !.attempts = 1, !.armed = FALSE,
                            !.failed = FALSE, !.status = "manual", !.asked = 1]
  <2>1. active' = [active EXCEPT ![f] = Cleared(x)] /\ e # None
    BY <1>2, <1>0 DEF ManualRetry
  <2>2. e \in InFlight
    BY <2>1, <1>0 DEF Entry
  <2>3. Cleared(x).buffer = <<>>
    BY <2>2 DEF Cleared, InFlight
  <2> HIDE DEF x
  <2> QED BY <2>1, <2>3, <1>0, UpdateRests DEF Rests, Dead
<1>3. CASE RunTask
  <2> DEFINE f == Head(mainQueue).file
  <2>1. f \in Files
    <3>1. Head(mainQueue) \in Tasks
      BY <1>0, <1>3, HeadTailProperties DEF RunTask
    <3> QED BY <3>1 DEF Tasks
  <2>2. \/ active' = active
        \/ active' = [active EXCEPT ![f] = None]
        \/ active[f] # None /\ active' = [active EXCEPT ![f] = Failed(active[f])]
    BY <1>3, <1>0, <2>1 DEF RunTask
  <2>3. active[f] # None => Dead(Failed(active[f]))
    BY <2>1, <1>0, DeadEntries
  <2> HIDE DEF f
  <2> QED BY <1>0, <2>1, <2>2, <2>3, SameRests, UpdateRests DEF Rests, Dead
<1>4. CASE Worker
  <2>1. ASSUME NEW late \in SUBSET Files, WorkerScan(late) PROVE AllRest
    <3>1. active' = [f \in Files |-> Visited(active[f], f \in late)]
      BY <2>1 DEF WorkerScan
    <3>2. ASSUME NEW f \in Files PROVE Rests(active[f], active'[f])
      <4>1. active[f] \in Entry \cup {None} /\ (f \in late) \in BOOLEAN
        BY <1>0
      <4>2. Rests(active[f], Visited(active[f], f \in late))
        BY <4>1, VisitedRests
      <4> QED BY <4>2, <3>1
    <3> QED BY <3>2 DEF AllRest
  <2>2. ASSUME NEW f \in Files, WorkerPush(f) PROVE AllRest
    BY <2>2, SameRests DEF WorkerPush
  <2> QED BY <1>4, <2>1, <2>2 DEF Worker
<1>5. CASE OnTransferEndFinish
  <2>1. receiving.file \in Files
    BY <1>5 DEF OnTransferEndFinish, IndInv, Received
  <2>2. \/ active' = active
        \/ active[receiving.file] # None /\ ScheduleRetry(receiving.file)
    BY <1>5 DEF OnTransferEndFinish
  <2> QED BY <2>1, <2>2, SameRests, ScheduleRetryRests
<1> QED BY <1>1, <1>2, <1>3, <1>4, <1>5

-----------------------------------------------------------------------------
(* The packets.                                                             *)

\* Packets that are none of a stream.
LEMMA CancelRests ==
  ASSUME IndInv,
         \/ \E m : m.file \in Files /\ OnTransferCancel(m)
         \/ CancelAll
         \/ \E m \in Models : CancelModelTransfers(m)
  PROVE  AllRest
<1>0. active \in [Files -> Entry \cup {None}]
  BY DEF IndInv
<1>1. ASSUME NEW m, m.file \in Files, OnTransferCancel(m)
      PROVE  AllRest
  <2>1. \/ active' = active
        \/ /\ active[m.file] # None
           /\ active' = [active EXCEPT ![m.file] = Failed(active[m.file])]
    BY <1>0, <1>1 DEF OnTransferCancel
  <2>2. active[m.file] # None => Dead(Failed(active[m.file]))
    BY <1>1, <1>0, DeadEntries
  <2> QED BY <1>0, <1>1, <2>1, <2>2, SameRests, UpdateRests DEF Rests
<1>2. ASSUME NEW F \in SUBSET Files, CancelEntries(F)
      PROVE  AllRest
  <2>1. active' = [f \in Files |-> IF f \in F THEN None ELSE active[f]]
    BY <1>2 DEF CancelEntries
  <2>2. ASSUME NEW f \in Files PROVE Rests(active[f], active'[f])
    <3>1. active'[f] = None \/ active'[f] = active[f]
      BY <2>1
    <3> QED BY <3>1, RestsSame DEF Rests, Dead
  <2> QED BY <2>2 DEF AllRest
<1>3. CASE CancelAll
  BY <1>2, <1>3 DEF CancelAll
<1>4. ASSUME NEW m \in Models, CancelModelTransfers(m)
      PROVE  AllRest
  BY <1>2, <1>4 DEF CancelModelTransfers
<1> QED BY <1>1, <1>3, <1>4

\* The client's limits let a version with fewer chunks through, if they let
\* one with more chunks through.
LargeRejected ==
    \A c \in ClientOversized, d \in Contents \ ClientOversized :
        ChunkCount(d) <= ChunkCount(c)

\* An announcement: the entry starts again, or the client rejects it and
\* keeps what it has, which then is of no more chunks.
LEMMA BeginTracks ==
  ASSUME LargeRejected, IndInv, NEW m, m.file \in Files, m.content \in Contents,
         m.type = "begin", m.total = ChunkCount(m.content), OnTransferBegin(m),
         NEW f \in Files, NEW a \in Cursor, NEW b, Tracks(active[f], a),
         Flows(f, a, m, b)
  PROVE  Tracks(active'[f], b)
<1> DEFINE e == active[m.file]
           c == m.content
           resized == [i \in 1..ChunkCount(c) |->
                          IF i \in DOMAIN e.buffer THEN e.buffer[i]
                          ELSE Garbage]
           x == [e EXCEPT !.announced = c, !.status = "downloading",
                          !.armed = FALSE, !.received = {},
                          !.buffer = resized]
           y == [e EXCEPT !.status = "rejected", !.armed = TRUE,
                          !.attempts = @ + 1]
<1>1. active \in [Files -> Entry \cup {None}]
  BY DEF IndInv
<1>2. active' = IF e = None THEN active
                ELSE IF c \notin ClientOversized
                THEN [active EXCEPT ![m.file] = x]
                ELSE [active EXCEPT ![m.file] = y]
  BY <1>1 DEF OnTransferBegin
<1> HIDE DEF resized
<1>3. CASE f # m.file
  <2>1. active'[f] = active[f]
    BY <1>1, <1>2, <1>3
  <2>2. b = a
    BY <1>3 DEF Flows, Of
  <2> QED BY <2>1, <2>2
<1>4. CASE f = m.file
  <2>1. b = [next |-> 0, total |-> ChunkCount(c)] /\ ChunkCount(c) \in Nat
    BY <1>4, ChunkCountType DEF Flows, Of
  <2>2. CASE e = None
    BY <1>2, <1>4, <2>2 DEF Tracks, Dead
  <2>3. CASE e # None /\ c \notin ClientOversized
    <3>1. e \in InFlight
      BY <2>3, <1>1 DEF Entry
    <3>2. x.announced = c /\ x.received = {}
      BY <3>1 DEF InFlight
    <3>3. x.received = 0..(0 - 1)
      BY <3>2
    <3>4. active'[f] = x
      BY <1>1, <1>2, <1>4, <2>3
    <3> HIDE DEF x
    <3>5. /\ x.announced \in Contents \ ClientOversized
          /\ ChunkCount(x.announced) <= b.total
          /\ b.next <= 0 /\ 0 <= ChunkCount(x.announced)
      BY <3>2, <2>1, <2>3
    <3> QED BY <3>3, <3>4, <3>5 DEF Tracks
  <2>4. CASE e # None /\ c \in ClientOversized
    <3>1. e \in InFlight
      BY <2>4, <1>1 DEF Entry
    <3>2. /\ y.announced = e.announced /\ y.received = e.received
          /\ y.failed = e.failed /\ y.buffer = e.buffer
      BY <3>1 DEF InFlight
    <3>3. active'[f] = y
      BY <1>1, <1>2, <1>4, <2>4
    <3> HIDE DEF y
    <3>4. CASE Dead(e)
      BY <3>2, <3>3, <3>4, <2>4 DEF Dead, Tracks
    <3>5. CASE ~Dead(e)
      <4>1. /\ e.announced \in Contents \ ClientOversized
            /\ \E r \in Nat : /\ e.received = 0..(r - 1)
                              /\ r <= ChunkCount(e.announced)
        BY <3>5, <1>4 DEF Tracks
      <4>2. ChunkCount(e.announced) <= b.total /\ b.next = 0
        BY <4>1, <2>1, <2>4 DEF LargeRejected
      <4> QED BY <3>2, <3>3, <4>1, <4>2 DEF Tracks
    <3> QED BY <3>4, <3>5
  <2> QED BY <2>2, <2>3, <2>4
<1> QED BY <1>3, <1>4

\* A chunk: the next one of the stream is one the entry has or the next one
\* it needs.
LEMMA ChunkTracks ==
  ASSUME IndInv, NEW m, m.file \in Files, m.index \in Nat, m.type = "chunk",
         OnTransferChunk(m),
         NEW f \in Files, NEW a \in Cursor, NEW b, Tracks(active[f], a),
         Flows(f, a, m, b)
  PROVE  Tracks(active'[f], b)
<1> DEFINE e == active[m.file]
           x == [e EXCEPT !.buffer[m.index + 1] =
                              IF m.len = 0 THEN @ ELSE m.content,
                          !.received = @ \cup {m.index},
                          !.bytes = @ + m.len,
                          !.armed = FALSE]
<1>1. active \in [Files -> Entry \cup {None}]
  BY DEF IndInv
<1>2. \/ ~(Buffering(e) /\ m.index \notin e.received) /\ active' = active
      \/ Buffering(e) /\ ScheduleRetry(m.file)
      \/ /\ Buffering(e) /\ m.index \notin e.received
         /\ m.index < ChunkCount(e.announced)
         /\ active' = [active EXCEPT ![m.file] = x]
  BY <1>1 DEF OnTransferChunk
<1>3. CASE f # m.file
  <2>1. active'[f] = active[f]
    BY <1>1, <1>2, <1>3 DEF ScheduleRetry
  <2>2. b = a
    BY <1>3 DEF Flows, Of
  <2> QED BY <2>1, <2>2
<1>4. CASE f = m.file
  <2>1. /\ m.index = a.next /\ a.next \in Nat
        /\ b = [next |-> a.next + 1, total |-> a.total]
    BY <1>4 DEF Flows, Of, Cursor
  <2>2. CASE Dead(e) /\ active' = active
    BY <2>2, <1>4 DEF Tracks
  <2>3. CASE Buffering(e) /\ ScheduleRetry(m.file)
    <3>1. Dead(Retried(e)) /\ active'[f] = Retried(e)
      BY <1>1, <1>4, <2>3, DeadEntries DEF ScheduleRetry, Buffering
    <3> QED BY <3>1 DEF Tracks
  <2>4. CASE Dead(e) /\ Buffering(e) /\ active' = [active EXCEPT ![m.file] = x]
    <3>1. e \in InFlight
      BY <2>4, <1>1 DEF Entry, Buffering
    <3>2. x.failed = e.failed
      BY <3>1 DEF InFlight
    <3>3. active'[f] = x
      BY <1>1, <1>4, <2>4
    <3> HIDE DEF x
    <3> QED BY <2>4, <3>2, <3>3 DEF Dead, Tracks, Buffering
  <2>5. CASE ~Dead(e)
    <3>1. e \in InFlight /\ Buffering(e)
      BY <2>5, <1>1 DEF Entry, Buffering, Dead
    <3>2. /\ e.announced \in Contents \ ClientOversized
          /\ ChunkCount(e.announced) <= a.total
      BY <2>5, <1>4 DEF Tracks
    <3>3. PICK r \in Nat : /\ e.received = 0..(r - 1)
                           /\ a.next <= r
                           /\ r <= ChunkCount(e.announced)
      BY <2>5, <1>4 DEF Tracks
    <3>4. ChunkCount(e.announced) \in Nat
      BY <3>2, ChunkCountType
    <3>5. CASE m.index \in e.received /\ active' = active
      <4>1. b.next <= r /\ b.total = a.total
        BY <2>1, <3>3, <3>5
      <4> QED BY <4>1, <3>2, <3>3, <3>5, <1>4 DEF Tracks
    <3>6. CASE /\ m.index \notin e.received
               /\ m.index < ChunkCount(e.announced)
               /\ active' = [active EXCEPT ![m.file] = x]
      <4>1. x.announced = e.announced /\ x.received = e.received \cup {m.index}
        BY <3>1 DEF InFlight
      <4>2. active'[f] = x
        BY <1>1, <1>4, <3>6
      <4> HIDE DEF x
      <4>3. a.next = r
        BY <2>1, <3>3, <3>6
      <4>4. x.received = 0..((r + 1) - 1)
        BY <4>1, <4>3, <2>1, <3>3
      <4>5. r + 1 \in Nat /\ r + 1 <= ChunkCount(x.announced)
            /\ b.next <= r + 1 /\ b.total = a.total
        BY <4>1, <4>3, <2>1, <3>4, <3>6
      <4> QED BY <3>2, <4>1, <4>2, <4>4, <4>5 DEF Tracks
    <3> QED BY <3>1, <3>5, <3>6, <2>3, <1>2
  <2> QED BY <2>2, <2>3, <2>4, <2>5, <1>2
<1> QED BY <1>3, <1>4

\* An END takes the buffer.
LEMMA EndTracks ==
  ASSUME IndInv, NEW m, m.file \in Files, m.type = "end", OnTransferEndTake(m),
         NEW f \in Files, NEW a, NEW b, Tracks(active[f], a), Flows(f, a, m, b)
  PROVE  Tracks(active'[f], b)
<1> DEFINE e == active[m.file]
           x == [e EXCEPT !.buffer = <<>>]
<1>1. active \in [Files -> Entry \cup {None}]
  BY DEF IndInv
<1>2. AllRest
  <2>1. CASE active' = active
    BY <2>1, SameRests
  <2>2. CASE Buffering(e) /\ ScheduleRetry(m.file)
    BY <2>2, ScheduleRetryRests DEF Buffering
  <2>3. CASE Buffering(e) /\ active' = [active EXCEPT ![m.file].buffer = <<>>]
    <3>1. e \in InFlight
      BY <2>3, <1>1 DEF Entry, Buffering
    <3>2. x.buffer = <<>> /\ active' = [active EXCEPT ![m.file] = x]
      BY <3>1, <1>1, <2>3 DEF InFlight
    <3> HIDE DEF x
    <3> QED BY <3>2, <1>1, UpdateRests DEF Rests, Dead
  <2> QED BY <2>1, <2>2, <2>3 DEF OnTransferEndTake
<1>3. b = a
  BY DEF Flows
<1> QED BY <1>2, <1>3, RestsTracks DEF AllRest

-----------------------------------------------------------------------------
(* The channels.                                                            *)

Wire == {m \in Server!Message : SP!Announces(m)}
            \cup {Lost} \cup {Destroy(m) : m \in Models}

\* What is known of the packets of each type.
LEMMA WireTypes ==
  ASSUME NEW m \in Wire
  PROVE  /\ m.type = "begin" => /\ m.file \in Files /\ m.content \in Contents
                                /\ m.total = ChunkCount(m.content)
         /\ m.type = "chunk" => /\ m.file \in Files /\ m.index \in Nat
                                /\ m.len \in Nat
                                /\ m.content \in Contents \cup {Garbage}
         /\ m.type \in {"end", "cancel"} => m.file \in Files
         /\ m.type = "destroy" => m.model \in Models
<1>1. CASE m \in Server!Message /\ SP!Announces(m)
  <2>1. m.type = "begin" => m.total = ChunkCount(m.content)
    BY <1>1 DEF SP!Announces, SP!ChunkCount, ChunkCount
  <2>2. CASE m \in [type : {"begin"}, file : Files, content : Contents,
                    total : Nat \ {0}]
    BY <2>1, <2>2
  <2>3. CASE m \in [type : {"chunk"}, file : Files,
                    content : Contents \cup {Garbage},
                    index : Nat, len : 0..FileChunkSize]
    BY <2>3, ClientAssumption
  <2>4. CASE m \in [type : {"end", "cancel"}, file : Files]
    BY <2>4
  <2> QED BY <1>1, <2>2, <2>3, <2>4 DEF Server!Message
<1>2. CASE m = Lost
  BY <1>2 DEF Lost
<1>3. CASE \E d \in Models : m = Destroy(d)
  BY <1>3 DEF Destroy
<1> QED BY <1>1, <1>2, <1>3 DEF Wire

\* The client, the packets on their way to it and the server agree on how far
\* the stream of f has come.
Aligned(f) ==
    \E a, b \in Cursor :
        /\ Path(f, toClient, a, b)
        /\ Tracks(active[f], a)
        /\ Promised(f) # Closed => b = Promised(f)

AssetInv ==
    /\ IndInv
    /\ SP!IndInv
    /\ toServer \in Seq(Answers)
    /\ toClient \in Seq(Wire)
    /\ \A f \in Files : Aligned(f)

\* Nothing is asked for, nothing is on its way.
LEMMA AssetInitInv == AssetInit => AssetInv
<1> SUFFICES ASSUME AssetInit PROVE AssetInv
  OBVIOUS
<1>1. IndInv
  <2>1. /\ active = [f \in Files |-> None] /\ stored = [f \in Files |-> NoContent]
        /\ mainQueue = <<>> /\ workerSends = {} /\ receiving = None
        /\ requests = 0 /\ manualRetries = 0 /\ calls = <<>> /\ sent = <<>>
    BY DEF AssetInit, Init
  <2>2. MaxRequests \in Nat /\ MaxManualRetries \in Nat
    BY ClientAssumption
  <2> QED BY <2>1, <2>2 DEF IndInv
<1>2. SP!IndInv /\ \A f \in Files : Promised(f) = Closed
  BY ServerIs, ServerInit DEF AssetInit
<1>3. toServer = <<>> /\ toClient = <<>>
  BY DEF AssetInit
<1>4. ASSUME NEW f \in Files PROVE Aligned(f)
  <2>1. Closed \in Cursor
    BY DEF Closed, Cursor
  <2>2. Path(f, <<>>, Closed, Closed)
    <3>1. <<>> \in Seq(Wire) /\ DOMAIN <<>> = {}
      OBVIOUS
    <3> QED BY <2>1, <3>1, PathElse
  <2>3. Tracks(active[f], Closed)
    BY DEF AssetInit, Init, Tracks, Dead
  <2> QED BY <1>2, <1>3, <2>1, <2>2, <2>3 DEF Aligned
<1> QED BY <1>1, <1>2, <1>3, <1>4 DEF AssetInv

\* A step of the server whose packets go on the channel.
LEMMA ServerStepInv ==
  ASSUME AssetInv, SP!Next, UNCHANGED vars, toServer' \in Seq(Answers),
         ServerSends
  PROVE  AssetInv'
<1>1. SP!IndInv' /\ SP!IndInv
  BY ServerKeeps DEF AssetInv
<1>2. IndInv'
  BY DEF AssetInv, vars, IndInv
<1>3. /\ Answer \in Seq(SP!Message)
      /\ \A i \in DOMAIN Answer : SP!Announces(Answer[i])
  BY <1>1, ServerAnnounces
<1>4. Answer \in Seq(Wire)
  <2>1. SP!Message = Server!Message
    BY DEF SP!Message, Server!Message
  <2>2. \A i \in 1..Len(Answer) : Answer[i] \in Wire
    BY <1>3, <2>1, ElementOfSeq DEF Wire
  <2> QED BY <1>3, <2>2
<1>5. toClient \in Seq(Wire) /\ toClient' = toClient \o Answer
  BY DEF AssetInv, ServerSends, Answer
<1>6. toClient' \in Seq(Wire)
  BY <1>4, <1>5, ConcatProperties
<1>7. ASSUME NEW f \in Files PROVE Aligned(f)'
  <2>1. PICK a, b \in Cursor :
          /\ Path(f, toClient, a, b)
          /\ Tracks(active[f], a)
          /\ Promised(f) # Closed => b = Promised(f)
    BY DEF AssetInv, Aligned
  <2>2. Promised(f) \in Cursor
    BY <1>1, PromisedType
  <2>3. PICK c \in Cursor :
          Path(f, Answer, b, c) /\ (Promised(f)' # Closed => c = Promised(f)')
    <3>1. SP!Seen(f, Promised(f), [i \in DOMAIN Answer |-> SP!Shape(Answer[i])],
                  Promised(f)')
      BY <1>1, ServerSees
    <3> DEFINE s == Promised(f)
               t == Promised(f)'
               v == Answer
    <3>2. v \in Seq(SP!Message) /\ s \in Cursor /\ b \in Cursor
          /\ (s # Closed => b = s)
          /\ SP!Seen(f, s, [i \in DOMAIN v |-> SP!Shape(v[i])], t)
      BY <3>1, <1>3, <2>1, <2>2
    <3> HIDE DEF s, t, v
    <3>3. \E c \in Cursor : Path(f, v, b, c) /\ (t # Closed => c = t)
      BY <3>2, SeenPath
    <3> QED BY <3>3 DEF s, t, v
  <2>4. Path(f, toClient', a, c)
    BY <1>4, <1>5, <2>1, <2>3, PathConcat
  <2>5. Tracks(active[f], a)'
    BY <2>1 DEF vars
  <2> QED BY <2>1, <2>3, <2>4, <2>5 DEF Aligned
<1> QED BY <1>1, <1>2, <1>6, <1>7 DEF AssetInv

\* A step of the client that no packet causes.
LEMMA ClientStepInv ==
  ASSUME AssetInv, IndInv', AllRest, UNCHANGED serverVars,
         toServer' \in Seq(Answers), UNCHANGED toClient
  PROVE  AssetInv'
<1>1. SP!IndInv'
  BY ServerIs, ServerKeeps DEF AssetInv
<1>2. ASSUME NEW f \in Files PROVE Aligned(f)'
  <2>1. PICK a, b \in Cursor :
          /\ Path(f, toClient, a, b)
          /\ Tracks(active[f], a)
          /\ Promised(f) # Closed => b = Promised(f)
    BY DEF AssetInv, Aligned
  <2>2. Tracks(active'[f], a)
    BY <2>1, RestsTracks DEF AllRest
  <2>3. Promised(f)' = Promised(f)
    BY PromisedStays
  <2> QED BY <2>1, <2>2, <2>3 DEF Aligned
<1> QED BY <1>1, <1>2 DEF AssetInv

\* The network thread takes a packet.
LEMMA ClientReceiveInv ==
  ASSUME LargeRejected, AssetInv, ClientReceive
  PROVE  AssetInv'
<1> DEFINE m == Head(toClient)
<1>1. /\ toClient \in Seq(Wire) /\ toClient # <<>> /\ toClient' = Tail(toClient)
      /\ UNCHANGED serverVars /\ UNCHANGED toServer
      /\ IndInv
  BY DEF AssetInv, ClientReceive
<1>2. m \in Wire /\ Tail(toClient) \in Seq(Wire)
  BY <1>1, HeadTailProperties
<1>3. SP!IndInv'
  BY <1>1, ServerIs, ServerKeeps DEF AssetInv
<1>4. \/ m.type = "begin" /\ OnTransferBegin(m)
      \/ m.type = "chunk" /\ OnTransferChunk(m)
      \/ m.type = "end" /\ OnTransferEndTake(m)
      \/ m.type = "cancel" /\ OnTransferCancel(m)
      \/ m.type = "lost" /\ CancelAll
      \/ m.type = "destroy" /\ CancelModelTransfers(m.model)
  BY DEF ClientReceive, Handle
<1> HIDE DEF m
<1>5. IndInv'
  <2>1. ASSUME m.type = "destroy", CancelModelTransfers(m.model) PROVE IndInv'
    BY <2>1, <1>1, CancelEntriesInv DEF CancelModelTransfers
  <2>2. ASSUME CancelAll PROVE IndInv'
    BY <2>2, <1>1, CancelEntriesInv DEF CancelAll
  <2>3. ASSUME m.type = "begin", OnTransferBegin(m) PROVE IndInv'
    BY <2>3, <1>1, <1>2, WireTypes, OnTransferBeginInv
  <2>4. ASSUME m.type = "chunk", OnTransferChunk(m) PROVE IndInv'
    BY <2>4, <1>1, <1>2, WireTypes, OnTransferChunkInv
  <2>5. ASSUME m.type = "end", OnTransferEndTake(m) PROVE IndInv'
    BY <2>5, <1>1, <1>2, WireTypes, OnTransferEndTakeInv
  <2>6. ASSUME m.type = "cancel", OnTransferCancel(m) PROVE IndInv'
    BY <2>6, <1>1, <1>2, WireTypes, OnTransferCancelInv
  <2> QED BY <1>4, <2>1, <2>2, <2>3, <2>4, <2>5, <2>6
<1>6. ASSUME NEW f \in Files PROVE Aligned(f)'
  <2>1. PICK a, b \in Cursor :
          /\ Path(f, toClient, a, b)
          /\ Tracks(active[f], a)
          /\ Promised(f) # Closed => b = Promised(f)
    BY DEF AssetInv, Aligned
  <2>2. PICK c \in Cursor : Flows(f, a, m, c) /\ Path(f, toClient', c, b)
    BY <1>1, <2>1, PathTail DEF m
  <2>3. Tracks(active'[f], c)
    <3>1. ASSUME AllRest, ~Of(f, m) PROVE Tracks(active'[f], c)
      <4>1. c = a
        BY <2>2, <3>1 DEF Flows
      <4> QED BY <4>1, <3>1, <2>1, RestsTracks DEF AllRest
    <3>2. CASE m.type = "begin" /\ OnTransferBegin(m)
      BY <3>2, <1>1, <1>2, <2>1, <2>2, WireTypes, BeginTracks
    <3>3. CASE m.type = "chunk" /\ OnTransferChunk(m)
      BY <3>3, <1>1, <1>2, <2>1, <2>2, WireTypes, ChunkTracks
    <3>4. CASE m.type = "end" /\ OnTransferEndTake(m)
      BY <3>4, <1>1, <1>2, <2>1, <2>2, WireTypes, EndTracks
    <3>5. CASE m.type = "cancel" /\ OnTransferCancel(m)
      BY <3>5, <3>1, <1>1, <1>2, WireTypes, CancelRests DEF Of
    <3>6. CASE m.type = "lost" /\ CancelAll
      BY <3>6, <3>1, <1>1, CancelRests DEF Of
    <3>7. CASE m.type = "destroy" /\ CancelModelTransfers(m.model)
      BY <3>7, <3>1, <1>1, <1>2, WireTypes, CancelRests DEF Of
    <3> QED BY <1>4, <3>2, <3>3, <3>4, <3>5, <3>6, <3>7
  <2>4. Promised(f)' = Promised(f)
    BY <1>1, PromisedStays
  <2> QED BY <2>1, <2>2, <2>3, <2>4 DEF Aligned
<1> QED BY <1>1, <1>2, <1>3, <1>5, <1>6 DEF AssetInv

\* A model is destroyed: the server sends nothing on the streams.
LEMMA DestroyModelInv ==
  ASSUME AssetInv, NEW d \in Models, DestroyModel(d)
  PROVE  AssetInv'
<1>1. SP!Next /\ SP!IndInv /\ SP!IndInv' /\ out' = SP!Quiet
  <2>1. SP!Next /\ out' = SP!Quiet
    BY ServerIs DEF DestroyModel, Server!CancelTransfersForModel, Server!Quiet,
       SP!Quiet
  <2> QED BY <2>1, ServerKeeps DEF AssetInv
<1>2. IndInv' /\ toServer' \in Seq(Answers)
  BY DEF AssetInv, DestroyModel, vars, IndInv
<1>3. Answer = <<>>
  BY <1>1 DEF Answer, SP!Quiet
<1>4. /\ toClient \in Seq(Wire) /\ Destroy(d) \in Wire
      /\ toClient' = toClient \o <<Destroy(d)>> /\ toClient' \in Seq(Wire)
  BY DEF AssetInv, DestroyModel, Wire
<1>5. ASSUME NEW f \in Files PROVE Aligned(f)'
  <2>1. PICK a, b \in Cursor :
          /\ Path(f, toClient, a, b)
          /\ Tracks(active[f], a)
          /\ Promised(f) # Closed => b = Promised(f)
    BY DEF AssetInv, Aligned
  <2>2. Promised(f)' \in {Promised(f), Closed}
    BY <1>1, ServerQuiet
  <2>3. Path(f, toClient', a, b)
    <3>1. Path(f, <<Destroy(d)>>, b, b)
      BY <2>1, PathOne DEF Flows, Of, Destroy
    <3>2. <<Destroy(d)>> \in Seq(Wire)
      BY <1>4
    <3> QED BY <3>1, <3>2, <2>1, <1>4, PathConcat
  <2>4. Tracks(active[f], a)'
    BY <2>1 DEF DestroyModel, vars
  <2> QED BY <2>1, <2>2, <2>3, <2>4 DEF Aligned
<1> QED BY <1>1, <1>2, <1>4, <1>5 DEF AssetInv

\* The connection is lost: the streams end where the loss cuts the channel.
LEMMA DisconnectInv ==
  ASSUME AssetInv, Disconnect
  PROVE  AssetInv'
<1>1. SP!Next /\ SP!IndInv'
  BY ServerIs, ServerKeeps DEF AssetInv, Disconnect
<1>2. connected' = {}
  <2>1. connected \subseteq {Player}
    BY DEF AssetInv, SP!IndInv, SP!TypeOK
  <2> QED BY <2>1 DEF Disconnect, Server!PlayerDisconnect
<1>3. IndInv' /\ toServer' \in Seq(Answers)
  BY DEF AssetInv, Disconnect, vars, IndInv
<1>4. PICK n \in 0..Len(toClient) :
        toClient' = Append(SubSeq(toClient, 1, n), Lost)
  BY DEF Disconnect
<1>5. /\ toClient \in Seq(Wire) /\ SubSeq(toClient, 1, n) \in Seq(Wire)
      /\ Lost \in Wire /\ <<Lost>> \in Seq(Wire)
      /\ toClient' = SubSeq(toClient, 1, n) \o <<Lost>>
      /\ toClient' \in Seq(Wire)
  <2>1. toClient \in Seq(Wire) /\ Lost \in Wire
    BY DEF AssetInv, Wire
  <2>2. SubSeq(toClient, 1, n) \in Seq(Wire)
    BY <2>1, SubSeqProperties
  <2> QED BY <2>1, <2>2, <1>4
<1>6. ASSUME NEW f \in Files PROVE Aligned(f)'
  <2>1. PICK a, b \in Cursor : Path(f, toClient, a, b) /\ Tracks(active[f], a)
    BY DEF AssetInv, Aligned
  <2>2. PICK c \in Cursor : Path(f, SubSeq(toClient, 1, n), a, c)
    BY <1>5, <2>1, PathPrefix
  <2>3. Path(f, <<Lost>>, c, c)
    BY PathOne DEF Flows, Of, Lost
  <2>4. Path(f, toClient', a, c)
    BY <1>5, <2>2, <2>3, PathConcat
  <2>5. Tracks(active[f], a)'
    BY <2>1 DEF Disconnect, vars
  <2>6. Promised(f)' = Closed
    BY <1>1, <1>2, PromisedNone
  <2> QED BY <2>1, <2>4, <2>5, <2>6 DEF Aligned
<1> QED BY <1>1, <1>3, <1>5, <1>6 DEF AssetInv

-----------------------------------------------------------------------------
(* The specification.                                                       *)

\* What the client sends.
LEMMA AnswersKept ==
  ASSUME AssetInv, IndInv', ClientSends
  PROVE  toServer' \in Seq(Answers)
<1>1. toServer \in Seq(Answers) /\ sent' \in Seq(Answers)
  BY DEF AssetInv, IndInv
<1>2. toServer \o sent' \in Seq(Answers)
  BY <1>1, ConcatProperties
<1> QED BY <1>1, <1>2 DEF ClientSends

\* Every step of the composition.
LEMMA AssetStepInv ==
  ASSUME LargeRejected, AssetInv, [AssetNext]_assetVars
  PROVE  AssetInv'
<1>0. IndInv /\ toServer \in Seq(Answers)
  BY DEF AssetInv
<1>1. CASE Join
  BY <1>1, <1>0, ServerIs, ServerStepInv DEF Join
<1>2. CASE ServerTick
  BY <1>2, <1>0, ServerIs, ServerStepInv DEF ServerTick
<1>3. CASE ServerReceive
  <2>1. /\ toServer # <<>> /\ toServer' = Tail(toServer)
        /\ UNCHANGED vars
    BY <1>3 DEF ServerReceive
  <2>2. Head(toServer) \in Answers /\ Tail(toServer) \in Seq(Answers)
    BY <2>1, <1>0, HeadTailProperties
  <2>3. CASE UNCHANGED <<serverVars, toClient>>
    <3>1. IndInv' /\ AllRest
      BY <2>1, <1>0, SameRests DEF vars, IndInv
    <3> QED BY <3>1, <2>1, <2>2, <2>3, ClientStepInv
  <2>4. CASE Server!OnRequestFile(Player, Head(toServer).file) /\ ServerSends
    <3>1. Head(toServer).file \in Files
      BY <2>2 DEF Answers
    <3>2. SP!Next
      BY <3>1, <2>4, ServerIs
    <3> QED BY <3>2, <2>1, <2>2, <2>4, ServerStepInv
  <2> QED BY <1>3, <2>3, <2>4 DEF ServerReceive
<1>4. CASE ReplaceFile
  BY <1>4, <1>0, ServerIs, ServerStepInv DEF ReplaceFile
<1>5. CASE \E d \in Models : DestroyModel(d)
  BY <1>5, DestroyModelInv
<1>6. CASE Disconnect
  BY <1>6, DisconnectInv
<1>7. CASE ClientMain
  <2>1. \/ \E f \in Files, want \in Contents : RequestFile(f, want)
        \/ \E f \in Files : ManualRetry(f)
        \/ RunTask
    BY <1>7 DEF ClientMain
  <2>2. IndInv'
    BY <2>1, <1>0, RequestFileInv, ManualRetryInv, RunTaskInv
  <2>3. AllRest
    BY <2>1, <1>0, MainRests
  <2>4. toServer' \in Seq(Answers)
    BY <1>7, <2>2, AnswersKept DEF ClientMain
  <2> QED BY <1>7, <2>2, <2>3, <2>4, ClientStepInv DEF ClientMain
<1>8. CASE ClientWorker
  BY <1>8, <1>0, WorkerInv, MainRests, ClientStepInv DEF ClientWorker
<1>9. CASE ClientReceive
  BY <1>9, ClientReceiveInv
<1>10. CASE ClientFinish
  BY <1>10, <1>0, OnTransferEndFinishInv, MainRests, ClientStepInv DEF ClientFinish
<1>11. CASE UNCHANGED assetVars
  <2>1. IndInv' /\ AllRest
    BY <1>11, <1>0, SameRests DEF assetVars, vars, IndInv
  <2> QED BY <2>1, <1>0, <1>11, ClientStepInv DEF assetVars
<1> QED BY <1>1, <1>2, <1>3, <1>4, <1>5, <1>6, <1>7, <1>8, <1>9, <1>10, <1>11
    DEF AssetNext

\* At an END the stream has come to its total, and the entry is not behind.
LEMMA AlignedIsComplete ==
  ASSUME AssetInv
  PROVE  CompleteAtEnd
<1> SUFFICES ASSUME NEW f \in Files, EndMeetsBuffer(f)
             PROVE  active[f].received = 0..(ChunkCount(active[f].announced) - 1)
  BY DEF CompleteAtEnd
<1>1. toClient # <<>> /\ Head(toClient) = Server!EndMsg(f) /\ ~Dead(active[f])
  BY DEF EndMeetsBuffer, Downloading, Buffering, Dead
<1>2. PICK a, b \in Cursor : Path(f, toClient, a, b) /\ Tracks(active[f], a)
  BY DEF AssetInv, Aligned
<1>3. PICK c \in Cursor : Flows(f, a, Head(toClient), c)
  BY <1>1, <1>2, PathTail DEF AssetInv
<1>4. a.next = a.total
  BY <1>1, <1>3 DEF Flows, Of, Server!EndMsg
<1>5. /\ active[f].announced \in Contents
      /\ ChunkCount(active[f].announced) <= a.total
  BY <1>1, <1>2 DEF Tracks
<1>6. PICK r \in Nat : /\ active[f].received = 0..(r - 1) /\ a.next <= r
                       /\ r <= ChunkCount(active[f].announced)
  BY <1>1, <1>2 DEF Tracks
<1>7. r = ChunkCount(active[f].announced)
  BY <1>4, <1>5, <1>6, ChunkCountType DEF Cursor
<1> QED BY <1>6, <1>7

\* From end to end: if the client's limits reject no version smaller than one
\* they accept, the handlers of BEGIN, CHUNK and END never take the END of one
\* attempt for the END of another, whatever is lost, asked for twice, given up
\* or replaced on the server in between.
THEOREM WholeFilesArrive ==
  ASSUME LargeRejected
  PROVE  AssetSpec => []CompleteAtEnd
<1>1. AssetInv /\ [AssetNext]_assetVars => AssetInv'
  BY AssetStepInv
<1>2. AssetInv => CompleteAtEnd
  BY AlignedIsComplete
<1> QED BY <1>1, <1>2, AssetInitInv, PTL DEF AssetSpec
=============================================================================
