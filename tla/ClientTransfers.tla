--------------------------- MODULE ClientTransfers ---------------------------
(***************************************************************************)
(* The client's side of the file transfers: ModelTransferClient and the    *)
(* MainThreadQueue it hands its work to (src/Client/ModelTransferClient,   *)
(* src/Client/MainThreadQueue.h).                                          *)
(*                                                                         *)
(* Three threads share m_active under m_mutex.  RakNet's network thread    *)
(* runs the packet handlers, the worker scans for retries and timeouts,    *)
(* the game's main thread asks for files, runs the tasks the other two     *)
(* queue for it and sends the requests.  One action is one section under   *)
(* the mutex; OnTransferEnd has two, with the decompression, the hash and  *)
(* the file system in between, and so has a pass of the worker.            *)
(*                                                                         *)
(* Time is left out: a retry that is armed may be due, and a server that   *)
(* has not answered may count as timed out, whenever the worker looks.     *)
(***************************************************************************)
EXTENDS Naturals, Sequences, FiniteSets

CONSTANTS
    Files, Models, ModelOf,      \* as for the server
    Contents, CompressedSize, FileChunkSize, NoContent, Garbage,
    ClientOversized,             \* versions over the client's own size limits
    RetryMaxAttempts,
    MaxRequests,                 \* bound: calls of RequestFile
    MaxManualRetries,            \* bound: clicks on a Retry button
    None                         \* no entry, no announcement, nothing in hand

ASSUME ClientAssumption ==
    /\ IsFiniteSet(Files)
    /\ ModelOf \in [Files -> Models]
    /\ CompressedSize \in [Contents -> Nat \ {0}]
    /\ FileChunkSize \in Nat \ {0}
    /\ ClientOversized \subseteq Contents
    /\ NoContent \notin Contents /\ Garbage \notin Contents
    /\ RetryMaxAttempts \in Nat \ {0}
    /\ MaxRequests \in Nat /\ MaxManualRetries \in Nat

VARIABLES
    active,              \* m_active
    stored,              \* what ModelCache has for a file
    mainQueue,           \* MainThreadQueue
    workerSends,         \* the worker's sendTasks, not yet queued
    receiving,           \* OnTransferEnd between its locked sections
    requests,            \* number of calls of RequestFile so far
    manualRetries,       \* number of manual retries so far
    calls,               \* onReady calls made by the last step
    sent                 \* packets to the server sent by the last step

vars == <<active, stored, mainQueue, workerSends, receiving, requests,
          manualRetries, calls, sent>>
counters == <<requests, manualRetries>>

-----------------------------------------------------------------------------
ChunkCount(c) == (CompressedSize[c] + FileChunkSize - 1) \div FileChunkSize

\* An InFlight.  "asked" counts the AssetRequests queued for it since its
\* attempts were last set to 1 (history only); onReady is the number of the
\* RequestFile call it came with.  nextRetryTime matters as armed or not.
NewEntry(cb) ==
    [status |-> "requesting", failed |-> FALSE, attempts |-> 1,
     armed |-> FALSE, announced |-> None, buffer |-> <<>>, received |-> {},
     bytes |-> 0, onReady |-> cb, asked |-> 1]

Failed(e) == [e EXCEPT !.failed = TRUE, !.status = "failed"]

\* Wrong on purpose: the buffer is kept.
ClearedButBuffer(e) == [e EXCEPT !.received = {}, !.bytes = 0]

\* What every retry resets.
Cleared(e) == [e EXCEPT !.buffer = <<>>, !.received = {}, !.bytes = 0]

Request(f) == [type |-> "request", file |-> f]
Ready(f)   == [type |-> "ready", file |-> f]

\* Tasks for the main thread, and the onReady calls they make.
Task(do, f, cbs) == [do |-> do, file |-> f, cbs |-> cbs]
SendTask(f)      == Task("send", f, <<>>)

Push(t)  == mainQueue' = Append(mainQueue, t)
Call(cbs, ok) ==
    calls' = [i \in DOMAIN cbs |-> [onReady |-> cbs[i], ok |-> ok]]
Silent == calls' = <<>> /\ sent' = <<>>

\* ScheduleRetry, under the mutex: the next attempt with backoff, or the
\* permanent failure, which keeps the entry and even its buffer.
Exhausted(e) == e.attempts >= RetryMaxAttempts
RetriedNever(e) ==                   \* wrong on purpose: no retry time
    IF Exhausted(e)
    THEN Failed([e EXCEPT !.attempts = @ + 1])
    ELSE Cleared([e EXCEPT !.attempts = @ + 1, !.status = "retrying"])
Retried(e) ==
    IF Exhausted(e)
    THEN Failed([e EXCEPT !.attempts = @ + 1])
    ELSE Cleared([e EXCEPT !.attempts = @ + 1, !.status = "retrying",
                           !.armed = TRUE])
ScheduleRetry(f) ==
    /\ active' = [active EXCEPT ![f] = Retried(@)]
    /\ IF Exhausted(active[f])
       THEN Push(Task("fail", f, <<active[f].onReady>>))
       ELSE UNCHANGED mainQueue

-----------------------------------------------------------------------------
Init ==
    /\ active = [f \in Files |-> None]
    /\ stored = [f \in Files |-> NoContent]
    /\ mainQueue = <<>>
    /\ workerSends = {}
    /\ receiving = None
    /\ requests = 0
    /\ manualRetries = 0
    /\ calls = <<>>
    /\ sent = <<>>

-----------------------------------------------------------------------------
(* Main thread *)

\* RequestFile; want is the version whose hash the definition gives.  TryGet
\* deletes a file with another hash.  A request for a file in flight is
\* dropped, and its onReady with it.
RequestFile(f, want) ==
    LET cb == requests + 1 IN
    /\ requests < MaxRequests
    /\ requests' = cb
    /\ sent' = <<>>
    /\ \/ /\ stored[f] = want
          /\ Call(<<cb>>, TRUE)
          /\ UNCHANGED <<active, stored, mainQueue>>
       \/ /\ stored[f] # want
          /\ stored' = [stored EXCEPT ![f] = NoContent]
          /\ Call(<<>>, FALSE)
          /\ IF active[f] = None
             THEN /\ active' = [active EXCEPT ![f] = NewEntry(cb)]
                  /\ Push(SendTask(f))
             ELSE UNCHANGED <<active, mainQueue>>
    /\ UNCHANGED <<workerSends, receiving, manualRetries>>

\* ManualRetry, from the Retry buttons the overlay shows for failed entries.
ManualRetry(f) ==
    /\ manualRetries < MaxManualRetries
    /\ manualRetries' = manualRetries + 1
    /\ active[f] # None /\ active[f].failed
    /\ active' = [active EXCEPT ![f] =
                    Cleared([@ EXCEPT !.attempts = 1, !.armed = FALSE,
                                      !.failed = FALSE, !.status = "manual",
                                      !.asked = 1])]
    /\ Push(SendTask(f))
    /\ Silent
    /\ UNCHANGED <<stored, workerSends, receiving, requests>>

\* DrainOnMainThread, one task at a time.
RunTask ==
    LET t == Head(mainQueue)
        f == t.file
    IN
    /\ mainQueue # <<>>
    /\ mainQueue' = Tail(mainQueue)
    /\ \/ /\ t.do = "send"
          /\ sent' = <<Request(f)>>
          /\ Call(<<>>, FALSE)
          /\ UNCHANGED active
       \/ /\ t.do = "done"          \* of OnTransferEnd
          /\ active' = [active EXCEPT ![f] = None]
          /\ sent' = <<Ready(f)>>
          /\ Call(t.cbs, TRUE)
       \/ /\ t.do = "fail"          \* of ScheduleRetry
          /\ active' = IF active[f] = None THEN active
                       ELSE [active EXCEPT ![f] = Failed(@)]
          /\ sent' = <<>>
          /\ Call(t.cbs, FALSE)
       \/ /\ t.do = "erase"         \* of FailImmediately
          /\ active' = [active EXCEPT ![f] = None]
          /\ sent' = <<>>
          /\ Call(t.cbs, FALSE)
       \/ /\ t.do = "call"          \* of OnTransferCancel, CancelAll, ...
          /\ sent' = <<>>
          /\ Call(t.cbs, FALSE)
          /\ UNCHANGED active
    /\ UNCHANGED <<stored, workerSends, receiving, counters>>

-----------------------------------------------------------------------------
(* Network thread *)

netUnchanged == <<stored, workerSends, counters>>

\* An entry that expects chunks: there is one, and its buffer is not empty.
Buffering(e) == e # None /\ e.buffer # <<>>

\* OnTransferBegin.  An accepted announcement starts the bitmap again, but
\* not the byte count; an oversized one arms a retry and touches no buffer.
OnTransferBegin(m) ==
    LET f == m.file
        e == active[f]
        fits == m.content \notin ClientOversized
        resized == [i \in 1..ChunkCount(m.content) |->
                       IF i \in DOMAIN e.buffer THEN e.buffer[i] ELSE Garbage]
        size == [e EXCEPT !.announced = m.content, !.status = "downloading",
                          !.armed = FALSE, !.received = {},
                          !.buffer = resized]
    IN
    /\ receiving = None
    /\ active' =
          IF e = None THEN active
          ELSE IF fits THEN [active EXCEPT ![f] = size]
          ELSE [active EXCEPT ![f] = [e EXCEPT !.status = "rejected",
                                               !.armed = TRUE,
                                               !.attempts = @ + 1]]
    /\ Silent
    /\ UNCHANGED <<mainQueue, receiving, netUnchanged>>

\* OnTransferChunk: dropped without a buffer or when it is there already,
\* a failed attempt when it does not fit, else written to its place.
OnTransferChunk(m) ==
    LET f == m.file
        e == active[f]
        awaited == Buffering(e) /\ m.index \notin e.received
        fits  == /\ m.index < ChunkCount(e.announced)
                 /\ m.index * FileChunkSize + m.len
                       <= CompressedSize[e.announced]
    IN
    /\ receiving = None
    /\ \/ /\ ~awaited
          /\ UNCHANGED <<active, mainQueue>>
       \/ /\ awaited /\ ~fits
          /\ ScheduleRetry(f)
       \/ /\ awaited /\ fits
          /\ active' = [active EXCEPT ![f] =
                [e EXCEPT !.buffer[m.index + 1] =
                              IF m.len = 0 THEN @ ELSE m.content,
                          !.received = @ \cup {m.index},
                          !.bytes = @ + m.len,
                          !.armed = FALSE]]
          /\ UNCHANGED mainQueue
    /\ Silent
    /\ UNCHANGED <<receiving, netUnchanged>>

\* OnTransferEnd, first section: the buffer is moved out if it is complete.
Complete(e) ==
    /\ e.received = 0..(ChunkCount(e.announced) - 1)
    /\ e.bytes = CompressedSize[e.announced]

OnTransferEndTake(m) ==
    LET f == m.file
        e == active[f]
    IN
    /\ receiving = None
    /\ \/ /\ ~Buffering(e)
          /\ UNCHANGED <<active, mainQueue, receiving>>
       \/ /\ Buffering(e) /\ ~Complete(e)
          /\ ScheduleRetry(f)
          /\ UNCHANGED receiving
       \/ /\ Buffering(e) /\ Complete(e)
          /\ active' = [active EXCEPT ![f].buffer = <<>>]
          /\ receiving' = [file |-> f, buffer |-> e.buffer,
                           expected |-> e.announced, onReady |-> e.onReady]
          /\ UNCHANGED mainQueue
    /\ Silent
    /\ UNCHANGED netUnchanged

\* What uncompress makes of the chunks: a version, if all are of that one.
Assembled(buffer) ==
    IF \E c \in Contents : /\ Len(buffer) = ChunkCount(c)
                           /\ \A i \in DOMAIN buffer : buffer[i] = c
    THEN buffer[1] ELSE Garbage

HashIgnored(r) == TRUE               \* wrong on purpose
HashMatches(r) == Assembled(r.buffer) = r.expected

\* OnTransferEnd, the rest: decompression, hash, the cache, which may fail
\* to write the file, and the entry, which may be gone or another by now.
OnTransferEndFinish ==
    LET r == receiving IN
    /\ receiving # None
    /\ receiving' = None
    /\ \/ /\ HashMatches(r)
          /\ stored' = [stored EXCEPT ![r.file] = Assembled(r.buffer)]
          /\ Push(Task("done", r.file, <<r.onReady>>))
          /\ UNCHANGED active
       \/ /\ IF active[r.file] = None
             THEN UNCHANGED <<active, mainQueue>>
             ELSE ScheduleRetry(r.file)
          /\ UNCHANGED stored
    /\ Silent
    /\ UNCHANGED <<workerSends, counters>>

\* OnTransferCancel: FailImmediately, and onReady a second time.
OnTransferCancel(m) ==
    LET f == m.file
        e == active[f]
    IN
    /\ receiving = None
    /\ IF e = None
       THEN UNCHANGED <<active, mainQueue>>
       ELSE /\ active' = [active EXCEPT ![f] = Failed(@)]
            /\ mainQueue' = mainQueue \o
                 <<Task("erase", f, <<e.onReady>>),
                   Task("call", f, <<e.onReady>>)>>
    /\ Silent
    /\ UNCHANGED <<receiving, netUnchanged>>

\* CancelModelTransfers for a destroyed vehicle, CancelAll for a lost
\* connection (F is what they remove); the order of the calls is open.
CancelEntries(F) ==
    LET gone == {f \in F : active[f] # None} IN
    /\ receiving = None
    /\ active' = [f \in Files |-> IF f \in F THEN None ELSE active[f]]
    /\ \E order \in [1..Cardinality(gone) -> gone] :
          /\ \A f \in gone : \E i \in DOMAIN order : order[i] = f
          /\ LET cbs == [i \in DOMAIN order |-> active[order[i]].onReady]
             IN IF gone = {} THEN UNCHANGED mainQueue
                ELSE Push(Task("call", order[1], cbs))
    /\ Silent
    /\ UNCHANGED <<receiving, netUnchanged>>

CancelModelTransfers(m) == CancelEntries({f \in Files : ModelOf[f] = m})
CancelAll == CancelEntries(Files)

-----------------------------------------------------------------------------
(* Worker *)

Waiting(e) == e.status \in {"requesting", "downloading"}

\* Wrong on purpose: timeouts do not count as attempts.
VisitedForFree(e, late) ==
    IF e = None \/ e.failed THEN e
    ELSE IF late /\ (e.armed \/ Waiting(e))
    THEN [e EXCEPT !.armed = FALSE, !.status = "requesting",
                   !.asked = @ + 1]
    ELSE e

\* Wrong on purpose: only retries are due, nothing times out.
VisitedWithoutTimeout(e, late) ==
    IF e = None \/ e.failed THEN e
    ELSE IF e.attempts > RetryMaxAttempts THEN Failed(e)
    ELSE IF late /\ e.armed
    THEN [e EXCEPT !.armed = FALSE, !.status = "requesting",
                   !.asked = @ + 1]
    ELSE e

\* What one pass of WorkerMain does to an entry; late: its time has come.
Visited(e, late) ==
    IF e = None \/ e.failed THEN e
    ELSE IF e.attempts > RetryMaxAttempts
    THEN Failed(e)
    ELSE IF late /\ e.armed
    THEN [e EXCEPT !.armed = FALSE, !.status = "requesting",
                   !.asked = @ + 1]
    ELSE IF late /\ Waiting(e)
    THEN Cleared([e EXCEPT !.attempts = @ + 1, !.status = "retrying",
                           !.armed = TRUE, !.asked = @ + 1])
    ELSE e

WorkerScan(late) ==
    /\ workerSends = {}
    /\ active' = [f \in Files |-> Visited(active[f], f \in late)]
    /\ workerSends' = {f \in Files : /\ active[f] # None
                                     /\ active'[f].asked > active[f].asked}
    /\ Silent
    /\ UNCHANGED <<stored, mainQueue, receiving, counters>>

WorkerPush(f) ==
    /\ f \in workerSends
    /\ workerSends' = workerSends \ {f}
    /\ Push(SendTask(f))
    /\ Silent
    /\ UNCHANGED <<active, stored, receiving, counters>>

-----------------------------------------------------------------------------
Handle(m) ==
    \/ m.type = "begin" /\ OnTransferBegin(m)
    \/ m.type = "chunk" /\ OnTransferChunk(m)
    \/ m.type = "end" /\ OnTransferEndTake(m)
    \/ m.type = "cancel" /\ OnTransferCancel(m)

Worker ==
    \/ \E late \in SUBSET Files : WorkerScan(late)
    \/ \E f \in Files : WorkerPush(f)

-----------------------------------------------------------------------------
Status == {"requesting", "downloading", "retrying", "rejected", "manual",
           "failed"}
Buffers == Seq(Contents \cup {Garbage})

InFlight ==
    [status : Status, failed : BOOLEAN, attempts : Nat, armed : BOOLEAN,
     announced : Contents \cup {None}, buffer : Buffers, received : SUBSET Nat,
     bytes : Nat, onReady : 1..MaxRequests, asked : Nat]

\* The types of the client's transfers.
TypeOK ==
    /\ active \in [Files -> InFlight \cup {None}]
    /\ stored \in [Files -> Contents \cup {NoContent, Garbage}]
    /\ mainQueue \in Seq([do : {"send", "done", "fail", "erase", "call"},
                          file : Files, cbs : Seq(1..MaxRequests)])
    /\ workerSends \subseteq Files
    /\ receiving \in {None} \cup
          [file : Files, buffer : Buffers, expected : Contents,
           onReady : 1..MaxRequests]
    /\ requests \in 0..MaxRequests
    /\ manualRetries \in 0..MaxManualRetries
    /\ calls \in Seq([onReady : 1..MaxRequests, ok : BOOLEAN])
    /\ sent \in Seq([type : {"request", "ready"}, file : Files])

-----------------------------------------------------------------------------
Downloading(f) == active[f] # None /\ ~active[f].failed

\* The worker does something about an entry when its time has come.
Supervised(e) == Visited(e, TRUE) # e

\* What the cache keeps is a version the server has had, never bytes of two
\* versions and never bytes read past a buffer, whatever arrives in whatever
\* order: OnTransferEnd compares the hash with the announced one.
StoreIntegrity == \A f \in Files : stored[f] \in Contents \cup {NoContent}

\* The load on the server is bounded: an entry asks for its file at most
\* twice per attempt (a timeout asks at once and arms another retry), until
\* the player clicks Retry.
SendBudget ==
    \A f \in Files :
        active[f] # None => active[f].asked <= 2 * RetryMaxAttempts

\* No download is forgotten: until it has failed, the worker has a retry or
\* a timeout for it, whatever the other threads did in between.  (A manual
\* retry has no timeout at all, and an announcement rejected for its size loses
\* its retry to a chunk of an earlier attempt that still fits the buffer.)
Watched ==
    \A f \in Files :
        (Downloading(f) /\ active[f].status \notin {"manual", "rejected"})
        => Supervised(active[f])
=============================================================================
