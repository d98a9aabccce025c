------------------------------ MODULE ModelLoad ------------------------------
(***************************************************************************)
(* How the client turns the definitions it is told of into models          *)
(* (src/Client/Plugin.cpp, HandleCustomVehicleDef to                       *)
(* ProcessPendingClearAll), composed with the server's definitions.        *)
(*                                                                         *)
(* A definition starts one job for each model and session: TXD, DFF, COL   *)
(* and sounds are requested one after the other, each from the answer to   *)
(* the one before; the job then goes to the queue of completed downloads,  *)
(* is put off until the player has spawned, and becomes the model.         *)
(*                                                                         *)
(* The network thread receives packets, answers and the RPCs that reset    *)
(* the session.  The main thread runs frames: the tasks pushed until the   *)
(* frame began, then the phases, each a swap of its queue and its items.   *)
(* A transfer (ClientTransfers) is here what it comes to: an entry of      *)
(* m_active that is answered, refused or fails.                            *)
(***************************************************************************)
EXTENDS Integers, ModelDefinitions

CONSTANTS
    Faults,               \* what may be wrong with a model's files
    Unreliable,           \* kinds of files the server may CANCEL, and whose
                          \*   transfers may fail
    RpcsOvertake,         \* RPCs and packets have separate orders
    Hurried,              \* a session begins, and the game mode restarts, while
                          \*   the client still works for the one before
    EarlyRetries,         \* a file is retried by hand before the player spawns
    MaxJobs,              \* bound: definitions that start a job
    MaxSessions,          \* bound: connections
    MaxRestarts,          \* bound: game mode restarts
    MaxFailures           \* bound: transfers that fail

\* A COL or a sound that is answered twice has its sounds counted by two
\* counters; here a job has one.
ASSUME LoadAssumption ==
    /\ Faults \subseteq SUBSET {"txd", "dff", "clump", "col"}
    /\ Unreliable \subseteq {"txd", "dff"}
    /\ {RpcsOvertake, Hurried, EarlyRetries} \subseteq BOOLEAN
    /\ {MaxJobs, MaxSessions, MaxRestarts, MaxFailures} \subseteq Nat
    /\ None \notin [job : Nat, text : Values, audio : SUBSET AudioKinds,
                    col : BOOLEAN]
    /\ None \notin [job : Nat, state : {"requested", "sent", "waiting", "answered",
                                       "failed"}]

VARIABLES
    authorized,           \* m_isServerAuthorized
    spawned,              \* IsLocalPlayerSpawned()
    initGame,             \* RPC_InitGame is on its way
    corrupt,              \* what is wrong with a model's files
    activeIds,            \* m_activeModelIds
    jobs,                 \* the PendingCustomVehicles, oldest first
    defQueue, completedQueue, finalizeQueue,   \* m_pendingDefQueue ...
    destroyQueue,         \* m_destructionQueue, without repetitions
    clearAll,             \* m_pendingClearAll
    mainQueue, tasks,     \* tasks pushed, and those of this frame
    pc,                   \* where the main thread is
    transfers,            \* ModelTransferClient::m_active
    stored,               \* the files ModelCache has
    loaded,               \* s_customModels
    inUse,                \* models that a binding counts (m_modelUseCount)
    modelConfig,          \* offsets, plate settings and default plate text
    modelHandling,        \* m_modelHandlings: the modifications
    gone,                 \* models the server destroyed in this session, and those
                          \*   whose destruction an earlier one left in the queue
    spawnRun,             \* the phases run for RPC_Spawn, within the tasks
    sessions, restarts, failures

jobVars     == <<activeIds, jobs, defQueue, completedQueue, finalizeQueue>>
taskVars    == <<mainQueue, tasks, pc, spawnRun>>
fileVars    == <<transfers, stored>>
modelVars   == <<loaded, destroyQueue, clearAll>>
sessionVars == <<authorized, spawned, initGame, gone, sessions, restarts>>
vars == <<serverVars, sessionVars, corrupt, jobVars, taskVars, fileVars,
          modelVars, inUse, modelConfig, modelHandling, failures>>

-----------------------------------------------------------------------------
Files  == Models \X Kinds
States == {"pending", "ready", "failed"}
NewJob(m, d) ==
    [model |-> m, def |-> d, txd |-> "pending", dff |-> "pending",
     col |-> "pending", audio |-> {}, refused |-> {}, remaining |-> 0,
     queued |-> FALSE, finalized |-> FALSE]
Task(type, j, kind) == [type |-> type, job |-> j, kind |-> kind]
NoConfig  == [x \in OffsetFields \cup PlateFields \cup {"text"} |-> 0]
NoHandling == [a \in Attributes |-> None]

Init ==
    /\ ServerInit
    /\ authorized = FALSE /\ spawned \in BOOLEAN /\ initGame = FALSE
    /\ corrupt \in [Models -> Faults]
    /\ activeIds = {} /\ jobs = <<>> /\ defQueue = <<>>
    /\ completedQueue = <<>> /\ finalizeQueue = <<>> /\ destroyQueue = {}
    /\ clearAll = FALSE /\ mainQueue = <<>> /\ tasks = <<>> /\ pc = "idle"
    /\ transfers = [f \in Files |-> None] /\ stored = {}
    /\ loaded = [m \in Models |-> None] /\ inUse = {}
    /\ modelConfig = [m \in Models |-> NoConfig]
    /\ modelHandling = [m \in Models |-> NoHandling]
    /\ gone = {} /\ spawnRun = FALSE /\ sessions = 0 /\ restarts = 0 /\ failures = 0

-----------------------------------------------------------------------------
(***************************************************************************)
(* A job and the files it asks for.  A step of it works on s: the job, its *)
(* number, the transfers, the files stored, and whether it was queued.  A  *)
(* file in the cache is answered at once, within the request.              *)
(***************************************************************************)
Working(j) == [job |-> jobs[j], id |-> j, transfers |-> transfers,
               stored |-> stored, push |-> FALSE]

\* Wrong on purpose: whoever ends a job queues it.
PushTwice(s) == [s EXCEPT !.push = TRUE]
PushToQueue(s) ==
    IF s.job.queued THEN s
    ELSE [s EXCEPT !.job.queued = TRUE, !.push = TRUE]

\* RequestFile of files that are not stored; when one is already in flight,
\* who asked second is not answered.  The request is sent by a task of the
\* next frame.
FileOf(s, k) == <<s.job.model, k>>
Stored(s, k) == FileOf(s, k) \in s.stored
RequestFiles(s, kinds) ==
    [s EXCEPT !.transfers =
        [f \in Files |->
            IF @[f] = None /\ \E k \in kinds : f = FileOf(s, k)
            THEN [job |-> s.id, state |-> "requested"] ELSE @[f]]]
RequestFile(s, k) == RequestFiles(s, {k})

\* The sounds, all of them at once; the last answer counted ends the job.  Each
\* call counts for itself: a second one, of which no request is kept, counts in
\* vain.
RemainingShort(s) == Cardinality(s.job.def.assets \cap AudioKinds) - 1
Remaining(s) == Cardinality(s.job.def.assets \cap AudioKinds)
BeginAudio(s) ==
    LET sounds == s.job.def.assets \cap AudioKinds
        hits   == {k \in sounds : Stored(s, k)}
        t      == RequestFiles([s EXCEPT !.job.audio = hits], sounds \ hits)
        left   == Remaining(s) - Cardinality(hits)
    IN IF left = 0 THEN PushToQueue(t)
       ELSE IF t.transfers = s.transfers THEN t
            ELSE [t EXCEPT !.job.remaining = left]

\* The COL, if the definition has one.
BeginCol(s) ==
    CASE "col" \notin s.job.def.assets -> BeginAudio([s EXCEPT !.job.col = "ready"])
      [] Stored(s, "col")                -> BeginAudio([s EXCEPT !.job.col = "ready"])
      [] OTHER                         -> RequestFile(s, "col")

\* A DFF without a clump is dropped from the cache.
DffReady(s) ==
    IF "dff" \in corrupt[s.job.model]
    THEN PushToQueue([s EXCEPT !.job.dff = "failed",
                               !.stored = @ \ {FileOf(s, "dff")}])
    ELSE BeginCol([s EXCEPT !.job.dff = "ready"])
TxdReady(s) ==
    LET t == [s EXCEPT !.job.txd = "ready"] IN
    IF Stored(t, "dff") THEN DffReady(t) ELSE RequestFile(t, "dff")

\* CreateModelAndBeginTransfers.
BeginTransfers(s) == IF Stored(s, "txd") THEN TxdReady(s) ELSE RequestFile(s, "txd")

\* The answers to each kind.
Answered(s, k) ==
    LET t == [s EXCEPT !.job.audio = @ \cup {k}, !.job.remaining = @ - 1] IN
    CASE k = "txd" -> TxdReady(s)
      [] k = "dff" -> DffReady(s)
      [] k = "col" -> BeginAudio([s EXCEPT !.job.col = "ready"])
      [] OTHER -> IF t.job.remaining = 0 THEN PushToQueue(t) ELSE t
Unanswered(s, k) ==
    LET t == [s EXCEPT !.job.refused = @ \cup {k}, !.job.remaining = @ - 1] IN
    CASE k = "txd" -> PushToQueue([s EXCEPT !.job.txd = "failed",
                                            !.job.dff = "failed",
                                            !.job.col = "failed"])
      [] k = "dff" -> PushToQueue([s EXCEPT !.job.dff = "failed"])
      [] k = "col" -> BeginAudio([s EXCEPT !.job.col = "failed"])
      [] OTHER -> IF t.job.remaining = 0 THEN PushToQueue(t) ELSE t

-----------------------------------------------------------------------------
(* The network thread: packets. *)

\* What a definition changes at once, a text only when there is one.
ConfigOf(m, d, S) ==
    [modelConfig EXCEPT ![m] =
        [x \in DOMAIN @ |->
            IF x \in S /\ (x # "text" \/ d.fields[x] # 0)
            THEN d.fields[x] ELSE @[x]]]

\* HandleCustomVehicleDef.  A definition of a model that has a job in this
\* session starts no other.  Variant: it is ignored altogether.
StartJob(p) ==
    IF p.model \in activeIds
    THEN UNCHANGED <<activeIds, jobs, defQueue, mainQueue>>
    ELSE /\ Len(jobs) < MaxJobs
         /\ activeIds' = activeIds \cup {p.model}
         /\ jobs' = Append(jobs, NewJob(p.model, p.def))
         /\ IF spawned
            THEN /\ mainQueue' =
                     Append(mainQueue, Task("start", Len(jobs) + 1, "txd"))
                 /\ UNCHANGED defQueue
            ELSE /\ defQueue' = Append(defQueue, Len(jobs) + 1)
                 /\ UNCHANGED mainQueue
ReceiveDefineOnce(p) ==
    /\ p.type = "define"
    /\ modelConfig' = IF p.model \in activeIds THEN modelConfig
                      ELSE ConfigOf(p.model, p.def, DOMAIN NoConfig)
    /\ StartJob(p)
    /\ UNCHANGED <<authorized, gone, transfers, destroyQueue, modelHandling>>
ReceiveDefine(p) ==
    /\ p.type = "define"
    /\ modelConfig' = ConfigOf(p.model, p.def, DOMAIN NoConfig)
    /\ StartJob(p)
    /\ UNCHANGED <<authorized, gone, transfers, destroyQueue, modelHandling>>

\* CancelModelTransfers and PushDestructionCommand: who waits for a file of
\* the model is told that it fails.
Waiting(S) == {f \in S \cap Files : transfers[f] # None}
ToldTasks(S) ==
    LET files == SetToSeq(Waiting(S)) IN
    [i \in DOMAIN files |->
        Task("told", transfers[files[i]].job, files[i][2])]
Without(S) == [f \in Files |-> IF f \in S THEN None ELSE transfers[f]]
ReceiveDestroy(p) ==
    /\ p.type = "destroy"
    /\ mainQueue' = mainQueue \o ToldTasks({p.model} \X Kinds)
    /\ transfers' = Without({p.model} \X Kinds)
    /\ destroyQueue' = destroyQueue \cup {p.model}
    /\ gone' = gone \cup {p.model}
    /\ UNCHANGED <<authorized, activeIds, jobs, defQueue, modelConfig,
                   modelHandling>>

ReceivePlate(p) ==
    /\ p.type = "plate"
    /\ modelConfig' = ConfigOf(p.model, p.def, PlateFields)
    /\ UNCHANGED <<authorized, gone, activeIds, jobs, defQueue, mainQueue,
                   transfers, destroyQueue, modelHandling>>

\* ProcessModelMods, here on the network thread: a model that does not exist
\* has no model info to apply it to.
ReceiveHandling(p) ==
    /\ p.type = "handling"
    /\ modelHandling' =
        IF authorized /\ loaded[p.model] # None
        THEN [modelHandling EXCEPT ![p.model] =
                [a \in Attributes |->
                    IF p.mods[a] # None THEN p.mods[a] ELSE @[a]]]
        ELSE modelHandling
    /\ UNCHANGED <<authorized, gone, activeIds, jobs, defQueue, mainQueue,
                   transfers, destroyQueue, modelConfig>>

ReceiveAuthorized(p) ==
    /\ p.type = "authorized"
    /\ authorized' = TRUE
    /\ UNCHANGED <<gone, activeIds, jobs, defQueue, mainQueue, transfers,
                   destroyQueue, modelConfig, modelHandling>>

Receive ==
    /\ wire # <<>> /\ (RpcsOvertake \/ ~initGame)
    /\ wire' = Tail(wire)
    /\ LET p == Head(wire) IN
        \/ ReceiveDefine(p) \/ ReceiveDestroy(p) \/ ReceivePlate(p)
        \/ ReceiveHandling(p) \/ ReceiveAuthorized(p)
    /\ UNCHANGED <<staged, defs, registered, handling, configs, outgoing,
                   directory, ini, connected, extended, serverCalls, spawned,
                   initGame, sessions, restarts, corrupt, completedQueue,
                   finalizeQueue, tasks, pc, spawnRun, stored, loaded, clearAll,
                   inUse, failures>>

-----------------------------------------------------------------------------
(* Transfers: what becomes of an entry of m_active. *)

Answer(f, type, state) ==
    /\ transfers[f] # None /\ transfers[f].state = "waiting"
    /\ mainQueue' = Append(mainQueue, Task(type, transfers[f].job, f[2]))
    /\ transfers' = [transfers EXCEPT ![f].state = state]
    /\ UNCHANGED <<serverVars, sessionVars, corrupt, jobVars, tasks, pc,
                   spawnRun, modelVars, inUse, modelConfig, modelHandling>>

\* OnTransferEnd: stored, and a task for the rest.
TransferEnds(f) ==
    /\ Answer(f, "done", "answered")
    /\ stored' = stored \cup {f}
    /\ UNCHANGED failures

\* OnTransferCancel: FailImmediately's task, and one more.
TransferRefused(f) ==
    /\ f[2] \in Unreliable /\ failures < MaxFailures
    /\ failures' = failures + 1
    /\ transfers[f] # None /\ transfers[f].state = "waiting"
    /\ mainQueue' = mainQueue \o <<Task("refused", transfers[f].job, f[2]),
                                   Task("told", transfers[f].job, f[2])>>
    /\ transfers' = [transfers EXCEPT ![f].state = "failed"]
    /\ UNCHANGED <<serverVars, sessionVars, corrupt, jobVars, tasks, pc,
                   spawnRun, stored, modelVars, inUse, modelConfig, modelHandling>>

\* The last retry fails, and the entry is kept for a manual one.
TransferFails(f) ==
    /\ f[2] \in Unreliable /\ failures < MaxFailures /\ failures' = failures + 1
    /\ Answer(f, "failed", "failed")
    /\ UNCHANGED stored
ManualRetry(f) ==
    /\ EarlyRetries \/ (spawned /\ ~initGame)
    /\ transfers[f] # None /\ transfers[f].state = "failed"
    /\ transfers' = [transfers EXCEPT ![f].state = "requested"]
    /\ UNCHANGED <<serverVars, sessionVars, corrupt, jobVars, taskVars, stored,
                   modelVars, inUse, modelConfig, modelHandling, failures>>

-----------------------------------------------------------------------------
(* The main thread: the tasks of a frame. *)

\* A phase with nothing to do takes no step of its own, nor does such a frame.
Phases == <<"clear", "definitions", "completed", "finalizations",
            "destructions">>
Busy(i) ==
    CASE i = 1 -> clearAll'
      [] i = 2 -> spawned' /\ defQueue' # <<>>
      [] i = 3 -> completedQueue' # <<>>
      [] i = 4 -> spawned' /\ finalizeQueue' # <<>>
      [] i = 5 -> spawned' /\ destroyQueue' # {}

\* Where the main thread goes from phase i; "run" is the one for RPC_Spawn,
\* which stops before the last phase and returns to the tasks.
Continue(i, run) ==
    LET next  == {k \in (i + 1)..(IF run THEN 4 ELSE 5) : Busy(k)}
        frame == {k \in 1..5 : run /\ Busy(k)}
    IN /\ spawnRun' = (run /\ next # {})
       /\ pc' = IF next # {} THEN Phases[Min(next)]
                ELSE IF run /\ tasks' # <<>> THEN "tasks"
                ELSE IF frame # {} THEN Phases[Min(frame)] ELSE "idle"

HasWork ==
    \/ mainQueue # <<>> \/ clearAll \/ completedQueue # <<>>
    \/ spawned /\ (defQueue # <<>> \/ finalizeQueue # <<>> \/ destroyQueue # {})
    \/ \E f \in Files : transfers[f] # None /\ transfers[f].state = "requested"

\* The transfers of one state pass to another: the requests made before the
\* frame are sent in its tasks, and not answered before those are done.
Passing(t, from, to) ==
    [f \in Files |-> IF t[f] # None /\ t[f].state = from
                     THEN [t[f] EXCEPT !.state = to] ELSE t[f]]
BeginFrame ==
    /\ pc = "idle" /\ HasWork
    /\ tasks' = mainQueue /\ mainQueue' = <<>>
    /\ transfers' = Passing(transfers, "requested",
                            IF mainQueue = <<>> THEN "waiting" ELSE "sent")
    /\ UNCHANGED <<serverVars, sessionVars, corrupt, jobVars, stored,
                   modelVars, inUse, modelConfig, modelHandling, failures>>
    /\ IF mainQueue = <<>> THEN Continue(0, FALSE)
       ELSE pc' = "tasks" /\ UNCHANGED spawnRun

\* What the job does in a task, and the entry of the file afterwards: one that
\* failed stays.
ErasedBefore(t) == [Working(t.job) EXCEPT
                      !.transfers[<<jobs[t.job].model, t.kind>>] = None]
ErasedAfter(s, k) == [s EXCEPT !.transfers[FileOf(s, k)] = None]
Outcome(t) ==
    CASE t.type = "start"   -> BeginTransfers(Working(t.job))
      [] t.type = "done"    -> Answered(ErasedBefore(t), t.kind)
      [] t.type = "refused" -> ErasedAfter(Unanswered(Working(t.job), t.kind),
                                           t.kind)
      [] OTHER              -> Unanswered(Working(t.job), t.kind)

\* RPC_Spawn's task runs the phases of a frame, all but the last.
RunTask ==
    LET t == Head(tasks)
        s == Outcome(t)
    IN
    /\ pc = "tasks" /\ t.type # "spawn"
    /\ tasks' = Tail(tasks)
    /\ jobs' = [jobs EXCEPT ![t.job] = s.job]
    /\ transfers' = IF Len(tasks) = 1 THEN Passing(s.transfers, "sent", "waiting")
                    ELSE s.transfers
    /\ stored' = s.stored
    /\ completedQueue' = IF s.push THEN Append(completedQueue, t.job)
                         ELSE completedQueue
    /\ UNCHANGED <<serverVars, sessionVars, corrupt, activeIds, defQueue,
                   finalizeQueue, mainQueue, modelVars, inUse, modelConfig,
                   modelHandling, failures>>
    /\ IF Len(tasks) = 1 THEN Continue(0, FALSE)
       ELSE pc' = "tasks" /\ UNCHANGED spawnRun
RunSpawnTask ==
    /\ pc = "tasks" /\ Head(tasks).type = "spawn"
    /\ tasks' = Tail(tasks)
    /\ transfers' = IF Len(tasks) = 1 THEN Passing(transfers, "sent", "waiting")
                    ELSE transfers
    /\ UNCHANGED <<serverVars, sessionVars, corrupt, jobVars, mainQueue, stored,
                   modelVars, inUse, modelConfig, modelHandling, failures>>
    /\ Continue(0, TRUE)

-----------------------------------------------------------------------------
(* The main thread: the phases. *)

\* ProcessPendingClearAll drops the bindings, and then every model: none is
\* counted any more, and none of GTA's vehicles has its slot as model index.
ProcessPendingClearAll ==
    /\ pc = "clear"
    /\ clearAll' = FALSE
    /\ IF clearAll THEN loaded' = [m \in Models |-> None] /\ inUse' = {}
                   ELSE UNCHANGED <<loaded, inUse>>
    /\ UNCHANGED <<serverVars, sessionVars, corrupt, jobVars, mainQueue, tasks,
                   fileVars, destroyQueue, modelConfig, modelHandling,
                   failures>>
    /\ Continue(1, spawnRun)

\* ProcessPendingDefinitions: the jobs put off until the player spawned.
BegunJob(r, j) ==
    LET s == BeginTransfers([job |-> r.jobs[j], id |-> j, push |-> FALSE,
                             transfers |-> r.transfers, stored |-> r.stored])
    IN IF loaded[r.jobs[j].model] # None THEN r
       ELSE [jobs |-> [r.jobs EXCEPT ![j] = s.job], transfers |-> s.transfers,
             stored |-> s.stored,
             completed |-> IF s.push THEN Append(r.completed, j)
                           ELSE r.completed]
AllBegun ==
    LET r[i \in 0..Len(defQueue)] ==
            IF i = 0 THEN [jobs |-> jobs, transfers |-> transfers,
                           stored |-> stored, completed |-> completedQueue]
            ELSE BegunJob(r[i - 1], defQueue[i])
    IN r[Len(defQueue)]
ProcessPendingDefinitions ==
    LET r == AllBegun
    IN /\ pc = "definitions"
       /\ IF spawned
          THEN /\ jobs' = r.jobs /\ transfers' = r.transfers
               /\ stored' = r.stored /\ completedQueue' = r.completed
               /\ defQueue' = <<>>
          ELSE UNCHANGED <<jobs, fileVars, completedQueue, defQueue>>
       /\ UNCHANGED <<serverVars, sessionVars, corrupt, activeIds,
                      finalizeQueue, mainQueue, tasks, modelVars, inUse,
                      modelConfig, modelHandling, failures>>
       /\ Continue(2, spawnRun)

\* IsCustomModelCurrentlyInUse, by which StreamingExtender::DestroyCustomModel
\* puts off what a vehicle has.  Variant: nothing is in use.
NoneInUse == {}
CurrentlyInUse == inUse
Destroyed(r, m) ==
    CASE r.loaded[m] = None    -> r
      [] m \in CurrentlyInUse -> [r EXCEPT !.destroy = @ \cup {m}]
      [] OTHER                 -> [r EXCEPT !.loaded[m] = None]
Invalidated(r, m, k) == [r EXCEPT !.stored = @ \ {<<m, k>>}]

\* What becomes of a finished job.  The text of a definition is the model's,
\* and so is one that an earlier definition gave.
TextOf(r, job) == IF job.def.fields["text"] # 0 THEN job.def.fields["text"]
                  ELSE r.config[job.model]["text"]
Created(r, j) ==
    LET job == r.jobs[j]
        own == "col" \in job.def.assets /\ job.col = "ready"
    IN [r EXCEPT
          !.loaded[job.model] =
              [job |-> j, text |-> TextOf(r, job), audio |-> job.audio,
               col |-> own /\ "col" \notin corrupt[job.model]],
          !.config[job.model]["text"] = TextOf(r, job),
          !.stored = IF own /\ "col" \in corrupt[job.model]
                     THEN @ \ {<<job.model, "col">>} ELSE @]

\* FinalizeCustomVehicle: put off, dropped, or created.
FinalizeCustomVehicle(r, j) ==
    LET job  == r.jobs[j]
        m    == job.model
        done == [r EXCEPT !.jobs[j].finalized = TRUE]
    IN CASE ~spawned -> [r EXCEPT !.deferred = Append(@, j)]
         [] spawned /\ (job.dff # "ready" \/ job.txd # "ready") ->
              Destroyed(done, m)
         [] spawned /\ job.dff = "ready" /\ job.txd = "ready" ->
              CASE "txd" \in corrupt[m]   -> Invalidated(Destroyed(done, m), m, "txd")
                [] "clump" \in corrupt[m] -> Invalidated(Destroyed(done, m), m, "dff")
                [] OTHER                  -> Created(done, j)
Finalization(queue, deferred) ==
    LET r[i \in 0..Len(queue)] ==
            IF i = 0 THEN [jobs |-> jobs, loaded |-> loaded, stored |-> stored,
                           config |-> modelConfig, destroy |-> destroyQueue,
                           deferred |-> deferred]
            ELSE FinalizeCustomVehicle(r[i - 1], queue[i])
    IN r[Len(queue)]
TakeOver(r) ==
    /\ jobs' = r.jobs /\ loaded' = r.loaded /\ stored' = r.stored
    /\ modelConfig' = r.config /\ destroyQueue' = r.destroy
    /\ finalizeQueue' = r.deferred

ProcessCompletedDownloads ==
    /\ pc = "completed"
    /\ TakeOver(Finalization(completedQueue, finalizeQueue))
    /\ completedQueue' = <<>>
    /\ UNCHANGED <<serverVars, sessionVars, corrupt, activeIds, defQueue,
                   mainQueue, tasks, transfers, clearAll, inUse, modelHandling,
                   failures>>
    /\ Continue(3, spawnRun)
ProcessPendingFinalizations ==
    /\ pc = "finalizations"
    /\ IF spawned THEN TakeOver(Finalization(finalizeQueue, <<>>))
       ELSE UNCHANGED <<jobs, loaded, stored, modelConfig, destroyQueue,
                        finalizeQueue>>
    /\ UNCHANGED <<serverVars, sessionVars, corrupt, activeIds, defQueue,
                   completedQueue, mainQueue, tasks, transfers, clearAll, inUse,
                   modelHandling, failures>>
    /\ Continue(4, spawnRun)
ProcessPendingDestructions ==
    /\ pc = "destructions"
    /\ IF spawned
       THEN /\ destroyQueue' = destroyQueue \cap CurrentlyInUse
            /\ loaded' = [m \in Models |->
                             IF m \in destroyQueue \ CurrentlyInUse
                             THEN None ELSE loaded[m]]
       ELSE UNCHANGED <<destroyQueue, loaded>>
    /\ UNCHANGED <<serverVars, sessionVars, corrupt, jobVars, mainQueue, tasks,
                   fileVars, clearAll, inUse, modelConfig, modelHandling,
                   failures>>
    /\ pc' = "idle" /\ UNCHANGED spawnRun

-----------------------------------------------------------------------------
(* The session. *)

\* RequestClearAllCustomModels leaves m_destructionQueue as it is: what waits
\* there destroys a model that the next session defines.  Variant: the ids stay.
RequestClearAllButIds ==
    /\ defQueue' = <<>> /\ completedQueue' = <<>> /\ finalizeQueue' = <<>>
    /\ clearAll' = TRUE
    /\ UNCHANGED activeIds
RequestClearAll ==
    /\ defQueue' = <<>> /\ completedQueue' = <<>> /\ finalizeQueue' = <<>>
    /\ clearAll' = TRUE
    /\ activeIds' = {}

\* CancelAll, and ACTION_RESET_ALL as far as it matters here.
CancelAll ==
    /\ mainQueue' = mainQueue \o ToldTasks(Files)
    /\ transfers' = Without(Files)
ResetAll == modelHandling' = [m \in Models |-> NoHandling]

\* GTA may have a player all the same, or not.
NotSpawned == spawned' \in {FALSE} \cup {spawned}
Idle == Hurried \/ (pc = "idle" /\ mainQueue = <<>> /\ Waiting(Files) = {})
ServerUnchanged ==
    UNCHANGED <<staged, defs, registered, handling, configs, outgoing,
                directory, ini, serverCalls>>
ClientUnchanged == UNCHANGED <<corrupt, jobs, tasks, pc, spawnRun, stored,
                               loaded, destroyQueue, inUse, modelConfig,
                               failures>>

\* The server accepts the connection and has the player join.
Join ==
    /\ ~connected /\ Idle
    /\ sessions < MaxSessions /\ sessions' = sessions + 1
    /\ connected' = TRUE /\ initGame' = TRUE
    /\ NotSpawned /\ RequestClearAll /\ ResetAll
    /\ gone' = destroyQueue
    /\ UNCHANGED <<extended, wire, authorized, restarts, mainQueue, transfers>>
    /\ ServerUnchanged /\ ClientUnchanged

\* RPC_InitGame: nothing is cancelled, and nothing cleared once authorized.
InitGame ==
    /\ initGame /\ initGame' = FALSE
    /\ NotSpawned /\ ResetAll
    /\ IF authorized
       THEN UNCHANGED <<defQueue, completedQueue, finalizeQueue, clearAll,
                        activeIds>>
       ELSE RequestClearAll
    /\ UNCHANGED <<connected, extended, wire, authorized, gone, sessions,
                   restarts, mainQueue, transfers>>
    /\ ServerUnchanged /\ ClientUnchanged

\* RPC_GameModeRestart, and the answer to the handshake it begins: the server
\* still has the player as one it told everything (see Session).
GameModeRestart ==
    /\ connected /\ extended /\ ~initGame /\ Idle
    /\ restarts < MaxRestarts /\ restarts' = restarts + 1
    /\ wire' = Append(wire, [type |-> "authorized", model |-> None])
    /\ authorized' = FALSE /\ gone' = destroyQueue
    /\ NotSpawned /\ CancelAll /\ RequestClearAll /\ ResetAll
    /\ UNCHANGED <<connected, extended, initGame, sessions>>
    /\ ServerUnchanged /\ ClientUnchanged

\* The connection ends; the server takes notice at once.
Leave ==
    /\ connected /\ Idle
    /\ connected' = FALSE /\ extended' = FALSE /\ wire' = <<>>
    /\ authorized' = FALSE /\ initGame' = FALSE /\ gone' = destroyQueue
    /\ NotSpawned /\ CancelAll /\ RequestClearAll /\ ResetAll
    /\ UNCHANGED <<sessions, restarts>>
    /\ ServerUnchanged /\ ClientUnchanged

\* RPC_Spawn.
Spawn ==
    /\ connected /\ ~initGame /\ ~spawned
    /\ spawned' = TRUE
    /\ mainQueue' = Append(mainQueue, Task("spawn", 0, "txd"))
    /\ UNCHANGED <<serverVars, authorized, initGame, gone, sessions, restarts,
                   corrupt, jobVars, tasks, pc, spawnRun, fileVars, modelVars,
                   inUse, modelConfig, modelHandling, failures>>

\* A vehicle takes the model (VehicleVisuals), or the last one goes.
Use(m) ==
    /\ IF m \in inUse THEN inUse' = inUse \ {m}
                      ELSE loaded[m] # None /\ inUse' = inUse \cup {m}
    /\ pc = "idle"
    /\ UNCHANGED <<serverVars, sessionVars, corrupt, jobVars, taskVars,
                   fileVars, modelVars, modelConfig, modelHandling, failures>>

-----------------------------------------------------------------------------
OnServer == /\ ServerNext
            /\ UNCHANGED <<sessionVars, corrupt, jobVars, taskVars, fileVars,
                           modelVars, inUse, modelConfig, modelHandling,
                           failures>>
MainThread ==
    \/ BeginFrame \/ RunTask \/ RunSpawnTask
    \/ ProcessPendingClearAll \/ ProcessPendingDefinitions
    \/ ProcessCompletedDownloads \/ ProcessPendingFinalizations
    \/ ProcessPendingDestructions
Next ==
    \/ OnServer
    \/ Receive
    \/ \E f \in Files : \/ TransferEnds(f) \/ TransferRefused(f)
                        \/ TransferFails(f) \/ ManualRetry(f)
    \/ MainThread
    \/ Join \/ InitGame \/ GameModeRestart \/ Leave \/ Spawn
    \/ \E m \in Models : Use(m)

Spec == Init /\ [][Next]_vars

-----------------------------------------------------------------------------
JobRecords ==
    [model : Models, def : DefRecords, txd : States, dff : States,
     col : States, audio : SUBSET AudioKinds, refused : SUBSET AudioKinds,
     remaining : Int, queued : BOOLEAN, finalized : BOOLEAN]
TasksOf(J) == [type : {"start", "done", "refused", "failed", "told"},
               job : J, kind : Kinds] \cup {Task("spawn", 0, "txd")}
EntriesOf(J) ==
    [job : J, state : {"requested", "sent", "waiting", "answered", "failed"}]
LoadedRecords == [job : 1..MaxJobs, text : Values, audio : SUBSET AudioKinds,
                  col : BOOLEAN]

\* Every variable has its type; the main thread carries out tasks when there
\* are any, and has none left over when it is idle.
TypeOK ==
    /\ ServerTypeOK
    /\ authorized \in BOOLEAN /\ spawned \in BOOLEAN /\ initGame \in BOOLEAN
    /\ spawnRun \in BOOLEAN /\ corrupt \in [Models -> Faults]
    /\ activeIds \subseteq Models /\ gone \subseteq Models
    /\ jobs \in Seq(JobRecords) /\ Len(jobs) <= MaxJobs
    /\ \A q \in {defQueue, completedQueue, finalizeQueue} :
          q \in Seq(DOMAIN jobs)
    /\ destroyQueue \subseteq Models /\ clearAll \in BOOLEAN
    /\ \A q \in {mainQueue, tasks} : q \in Seq(TasksOf(DOMAIN jobs))
    /\ pc \in {"idle", "tasks", "clear", "definitions", "completed",
               "finalizations", "destructions"}
    /\ tasks # <<>> => pc = "tasks" \/ spawnRun
    /\ pc = "tasks" => tasks # <<>>
    /\ transfers \in [Files -> {None} \cup EntriesOf(DOMAIN jobs)]
    /\ stored \subseteq Files
    /\ loaded \in [Models -> LoadedRecords \cup {None}]
    /\ inUse \subseteq Models
    /\ modelConfig \in [Models -> [DOMAIN NoConfig -> Values]]
    /\ modelHandling \in [Models -> [Attributes -> Values \cup {None}]]

\* Nothing is under way, and the player is there.
Rest ==
    /\ connected /\ extended /\ authorized /\ ~initGame /\ spawned
    /\ wire = <<>> /\ outgoing = {}
    /\ pc = "idle" /\ ~HasWork
    /\ \A f \in Waiting(Files) : transfers[f].state = "failed"

\* "Sends" of every native that changes a committed definition: once all has
\* arrived, the client has the offsets and the plate settings that the getters
\* of the server return.
Told(m) == defs[m] # None
ConfigAgrees ==
    Rest => \A m \in Models : Told(m) =>
        \A x \in OffsetFields \cup PlateFields :
            modelConfig[m][x] = GetField(m, x)

\* Queued once, finalized once: however many callbacks a cancelled transfer
\* makes, nothing finalizes a job again, whose modelInfo may be gone by then
\* (pushToQueue, queuedForFinalize).
Queued(j) == {i \in DOMAIN completedQueue : completedQueue[i] = j} \cup
             {Len(completedQueue) + i : i \in {k \in DOMAIN finalizeQueue :
                                                 finalizeQueue[k] = j}}
FinalizedOnce ==
    \A j \in DOMAIN jobs :
        Cardinality(Queued(j)) <= IF jobs[j].finalized THEN 0 ELSE 1

\* A model that the client was told of and has the files for is there when all
\* is quiet: no job of an earlier session, no put-off queue, no clearing of all
\* models and no destruction of another leaves it unloaded for good.  What a
\* session leaves in m_destructionQueue does (see gone).
Whole(m) == corrupt[m] \cap {"txd", "dff", "clump"} = {}
DefinedIsLoaded ==
    Rest /\ failures = 0 =>
        \A m \in activeIds \ gone : Whole(m) => loaded[m] # None

\* A model is not created before each of its sounds has arrived or been
\* refused: RegisterCustomAudio, which runs once, misses none.
SoundsAreThere ==
    \A m \in Models : loaded[m] # None =>
        LET job == jobs[loaded[m].job] IN
        job.def.assets \cap AudioKinds \subseteq loaded[m].audio \cup job.refused

\* A model that a binding counts is never freed under it, however its files
\* fail and whenever the server destroys it: GTA would draw what is gone.  (The
\* end of a session frees the models of vehicles that GTA still has:
\* VehicleVisuals, ShownIsNotFreed.)
UsedIsKept == \A m \in inUse : loaded[m] # None
=============================================================================
