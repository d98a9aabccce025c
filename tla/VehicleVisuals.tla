---------------------------- MODULE VehicleVisuals ----------------------------
(***************************************************************************)
(* What the client shows: the bindings of SA-MP vehicle ids to custom      *)
(* models, the game's vehicles they are applied to, the maps that lead     *)
(* from a vehicle's address back to its binding, and the models that may   *)
(* be destroyed when no binding uses them.                                 *)
(* src/Client/CustomVehicleBindingManager.cpp, the frame of Plugin.cpp     *)
(* (OnGameProcess), streamingextender.hpp, handling_manager.cpp.           *)
(*                                                                         *)
(* A frame takes several steps, since packets may be handled on the        *)
(* network thread meanwhile; SA-MP and the game's hooks run between        *)
(* frames.                                                                 *)
(***************************************************************************)
EXTENDS Naturals, Sequences, FiniteSets

CONSTANTS
    Ids,                   \* SA-MP vehicle ids
    Cars,                  \* addresses of the game's vehicles
    Models,                \* custom models
    OwnsCollision,         \* those that bring a collision with lines
    Own,                   \* the clump of the vehicle's own model
    None,
    NetworkThread,         \* packets are handled while a frame runs
    SameFrame,             \* between two frames a vehicle comes and goes, or
                           \*   one goes and another takes its address, or
                           \*   the player is moved away and back
    DeletedFar,            \* SA-MP deletes a vehicle 300 m away from the player
    MaxTasks               \* bound: binds and unbinds that wait

ASSUME VisualsAssumption ==
    /\ IsFiniteSet(Ids)
    /\ OwnsCollision \subseteq Models
    /\ None \notin Models \cup Cars \cup Ids \cup {Own} /\ Own \notin Models
    /\ NetworkThread \in BOOLEAN /\ SameFrame \in BOOLEAN
    /\ DeletedFar \in BOOLEAN /\ MaxTasks \in Nat

VARIABLES
    \* the game and SA-MP
    pool,                  \* GetGameVehicleFromPool: the vehicle of an id
    near,                  \* IsVehicleStreamedForLocalPlayer
    clump,                 \* what a vehicle's RwObject was cloned from
    \* CustomVehicleBindingManager and HandlingManager
    binding,               \* m_bindings
    index,                 \* m_gameVehicleToSampId
    fastCol,               \* s_fastVehicleColMap: whose collision
    cache,                 \* m_vehicleToSAMPIdCache
    useCount,              \* m_modelUseCount of the custom models
    \* StreamingExtender and the frame
    ready,                 \* s_customModels with their clump
    downloaded,            \* models that wait to be finalized
    destructionQueue,      \* m_destructionQueue
    pendingClearAll,       \* m_pendingClearAll
    tasks, draining,       \* MainThreadQueue, and the batch that runs
    previousVehicles,      \* what the last frame saw in the pool
    step,                  \* where the frame is
    \* history
    changed,               \* addresses taken, freed or approached since
                           \*   the last frame
    orphaned               \* vehicles that show a model their binding was
                           \*   cleared or bound away from, or while far away

gameVars    == <<pool, near>>
bindingVars == <<binding, index, fastCol, useCount>>
modelVars   == <<ready, downloaded, destructionQueue, pendingClearAll>>
frameVars   == <<tasks, draining, previousVehicles, step, changed>>
vars == <<gameVars, clump, bindingVars, cache, modelVars, frameVars, orphaned>>

-----------------------------------------------------------------------------
NoBinding == [present |-> FALSE, model |-> None, applied |-> None,
              modelApplied |-> FALSE]

\* IsVehiclePointerValid: vehicles are in the world as long as in the pool.
Valid(c) == \E v \in Ids : pool[v] = c
IdOf(c)  == CHOOSE v \in Ids : pool[v] = c

\* Maps without the entries of some keys, or with those of others.
Erase(f, S)  == [x \in DOMAIN f |-> IF x \in S THEN None ELSE f[x]]
Put(f, x, y) == [f EXCEPT ![x] = y]

\* IncrementModelUse and DecrementModelUse, of None (the model id 0 of an
\* entry that has attributes only) without effect.
IncrementModelUse(count, m) ==
    [n \in Models |-> IF n = m THEN count[n] + 1 ELSE count[n]]
DecrementModelUse(count, m) ==
    [n \in Models |-> IF n = m /\ count[n] > 0 THEN count[n] - 1 ELSE count[n]]

Idle == step = "idle"
NetworkMayRun == NetworkThread \/ Idle

Init ==
    /\ pool = [v \in Ids |-> None] /\ near = {}
    /\ clump = [c \in Cars |-> None]
    /\ binding = [v \in Ids |-> NoBinding]
    /\ index = [c \in Cars |-> None]
    /\ fastCol = [c \in Cars |-> None]
    /\ cache = [c \in Cars |-> None]
    /\ useCount = [m \in Models |-> 0]
    /\ ready = {} /\ downloaded = {} /\ destructionQueue = {}
    /\ pendingClearAll = FALSE
    /\ tasks = <<>> /\ draining = <<>> /\ previousVehicles = {}
    /\ step = "idle" /\ changed = {} /\ orphaned = {}

-----------------------------------------------------------------------------
(***************************************************************************)
(* SA-MP creates and deletes vehicles, the game's hooks ask for bindings.  *)
(***************************************************************************)
CreateVehicle(v, c) ==
    /\ Idle /\ pool[v] = None /\ ~Valid(c)
    /\ SameFrame \/ c \notin changed
    /\ changed' = changed \cup {c}
    /\ pool' = Put(pool, v, c)
    /\ near' = near \cup {c}
    /\ clump' = Put(clump, c, Own)
    /\ UNCHANGED <<bindingVars, cache, modelVars, tasks, draining,
                   previousVehicles, step, orphaned>>

DeleteVehicle(v) ==
    /\ Idle /\ pool[v] # None
    /\ SameFrame \/ pool[v] \notin changed
    /\ DeletedFar \/ pool[v] \in near
    /\ changed' = changed \cup {pool[v]}
    /\ pool' = Put(pool, v, None)
    /\ near' = near \ {pool[v]}
    /\ clump' = Put(clump, pool[v], None)
    /\ orphaned' = orphaned \ {pool[v]}
    /\ UNCHANGED <<bindingVars, cache, modelVars, tasks, draining,
                   previousVehicles, step>>

\* The player is moved 300 m away from a vehicle, or back.
PlayerMoves(c) ==
    /\ Idle /\ Valid(c)
    /\ SameFrame \/ c \notin changed
    /\ changed' = changed \cup {c}
    /\ near' = IF c \in near THEN near \ {c} ELSE near \cup {c}
    /\ UNCHANGED <<pool, clump, bindingVars, cache, modelVars, tasks, draining,
                   previousVehicles, step, orphaned>>

GetVehicleSAMPId(c) == IF cache[c] # None THEN cache[c] ELSE IdOf(c)

IndexHit(c) == index[c] # None /\ binding[index[c]].present

\* FindByVehicle: the id whose binding is returned.
Found(c) ==
    IF IndexHit(c) THEN index[c]
    ELSE IF binding[GetVehicleSAMPId(c)].present THEN GetVehicleSAMPId(c)
    ELSE None

\* PreRender, SetupRender, AddExhaust, ... of a vehicle.
FindByVehicle(c) ==
    /\ Idle /\ Valid(c)
    /\ ~IndexHit(c)
    /\ LET v == GetVehicleSAMPId(c)
           old == binding[v].applied IN
       /\ cache' = Put(cache, c, v)
       /\ IF binding[v].present
          THEN /\ index' = Put(Erase(index, {old} \ {c}), c, v)
               /\ binding' = [binding EXCEPT
                      ![v].applied = c,
                      ![v].modelApplied = @ /\ old = c]
          ELSE /\ index' = Put(index, c, None)
               /\ UNCHANGED binding
    /\ UNCHANGED <<gameVars, clump, fastCol, useCount, modelVars, frameVars,
                   orphaned>>

-----------------------------------------------------------------------------
(***************************************************************************)
(* Packets: what their handlers do at once.                                *)
(***************************************************************************)
ReceiveBind(v, m) ==
    /\ NetworkMayRun
    /\ Len(tasks) + Len(draining) < MaxTasks
    /\ tasks' = Append(tasks, [type |-> "Bind", vehicle |-> v, model |-> m])
    /\ UNCHANGED <<gameVars, clump, bindingVars, cache, modelVars, draining,
                   previousVehicles, step, changed, orphaned>>
ReceiveUnbind(v) ==
    /\ NetworkMayRun
    /\ Len(tasks) + Len(draining) < MaxTasks
    /\ tasks' = Append(tasks, [type |-> "Unbind", vehicle |-> v])
    /\ UNCHANGED <<gameVars, clump, bindingVars, cache, modelVars, draining,
                   previousVehicles, step, changed, orphaned>>

\* An attribute of a vehicle without a binding makes one without a model.
ReceiveAttribute(v) ==
    /\ NetworkMayRun
    /\ ~binding[v].present
    /\ binding' = [binding EXCEPT ![v].present = TRUE]
    /\ UNCHANGED <<gameVars, clump, index, fastCol, useCount, cache, modelVars,
                   frameVars, orphaned>>

\* The files of a model are there; ACTION_CUSTOM_VEHICLE_DESTROY.
Downloaded(m) ==
    /\ NetworkMayRun
    /\ m \notin ready \cup downloaded
    /\ downloaded' = downloaded \cup {m}
    /\ UNCHANGED <<gameVars, clump, bindingVars, cache, ready, destructionQueue,
                   pendingClearAll, frameVars, orphaned>>
PushDestructionCommand(m) ==
    /\ NetworkMayRun
    /\ destructionQueue' = destructionQueue \cup {m}
    /\ UNCHANGED <<gameVars, clump, bindingVars, cache, ready, downloaded,
                   pendingClearAll, frameVars, orphaned>>

\* CustomVehicleBindingManager::Clear: no vehicle gets its clump back.
Clear ==
    /\ binding' = [v \in Ids |-> NoBinding]
    /\ index' = [c \in Cars |-> None]
    /\ fastCol' = [c \in Cars |-> None]
    /\ useCount' = [m \in Models |->
           useCount[m] - Cardinality({v \in Ids : binding[v].model = m})]
    /\ orphaned' = orphaned \cup {c \in Cars : clump[c] \in Models}

\* ACTION_RESET_ALL, with RequestClearAllCustomModels when a session begins
\* or ends.  The tasks that wait stay.
ResetAll(session) ==
    /\ NetworkMayRun
    /\ Clear
    /\ IF session THEN downloaded' = {} /\ pendingClearAll' = TRUE
                  ELSE UNCHANGED <<downloaded, pendingClearAll>>
    /\ UNCHANGED <<gameVars, clump, cache, ready, destructionQueue, frameVars>>

-----------------------------------------------------------------------------
(***************************************************************************)
(* Bind and Unbind, when their tasks run.                                  *)
(***************************************************************************)
\* The binding of a vehicle that had a model before: not applied yet.
\* Variant: taken for applied.
ReboundAsApplied(b, m) == [b EXCEPT !.model = m]
Rebound(b, m) == [NoBinding EXCEPT !.present = TRUE, !.model = m]

\* Variant: the model that was bound before keeps its use.
UsesAfterBindKept(old, m) == IncrementModelUse(useCount, m)
UsesAfterBind(old, m) ==
    IncrementModelUse(DecrementModelUse(useCount, old), m)

CollisionsAfterBind(b, m) ==
    IF b.model \in {m, None} THEN fastCol ELSE Erase(fastCol, {b.applied})

Bind(v, m) ==
    LET b == binding[v] IN
    /\ binding' = [binding EXCEPT ![v] =
           IF b.model \in {m, None} THEN [b EXCEPT !.present = TRUE, !.model = m]
                                    ELSE Rebound(b, m)]
    /\ fastCol' = CollisionsAfterBind(b, m)
    /\ useCount' = IF b.model = m THEN useCount ELSE UsesAfterBind(b.model, m)
    /\ orphaned' = orphaned \cup
           {c \in Cars : c = pool[v] /\ clump[c] \in Models
                         /\ b.model \notin {m, None}}
    /\ UNCHANGED <<index, clump>>

\* Variant: the vehicle keeps the custom clump.
UnbindInPlace(v) ==
    /\ binding' = Put(binding, v, NoBinding)
    /\ useCount' = DecrementModelUse(useCount, binding[v].model)
    /\ index' = Erase(index, {binding[v].applied})
    /\ fastCol' = Erase(fastCol, {binding[v].applied})
    /\ UNCHANGED <<clump, orphaned>>
Unbind(v) ==
    LET b == binding[v] IN
    /\ binding' = Put(binding, v, NoBinding)
    /\ useCount' = DecrementModelUse(useCount, b.model)
    /\ clump' = IF b.modelApplied /\ pool[v] # None /\ pool[v] = b.applied
                THEN Put(clump, b.applied, Own) ELSE clump
    /\ index' = Erase(index, {b.applied})
    /\ fastCol' = Erase(fastCol, {b.applied})
    /\ UNCHANGED orphaned

-----------------------------------------------------------------------------
(***************************************************************************)
(* OnGameProcess.                                                          *)
(***************************************************************************)
\* DrainOnMainThread takes the tasks there are, and runs them in order.
BeginFrame ==
    /\ Idle
    /\ step' = "drain"
    /\ draining' = tasks /\ tasks' = <<>>
    /\ UNCHANGED <<gameVars, clump, bindingVars, cache, modelVars,
                   previousVehicles, changed, orphaned>>

RunTask ==
    /\ step = "drain" /\ draining # <<>>
    /\ draining' = Tail(draining)
    /\ LET task == Head(draining) IN
       IF task.type = "Bind" THEN Bind(task.vehicle, task.model)
                             ELSE Unbind(task.vehicle)
    /\ UNCHANGED <<gameVars, cache, modelVars, tasks, previousVehicles, step,
                   changed>>

\* Variant: without waiting for the tasks.
DrainedAlways == TRUE
Drained == draining = <<>>

\* ProcessPendingClearAll, then ProcessCompletedDownloads and
\* ProcessPendingFinalizations, which wait until the player has spawned.
ClearAndFinalize(spawned) ==
    /\ step = "drain" /\ Drained
    /\ step' = "process"
    /\ pendingClearAll' = FALSE
    /\ IF pendingClearAll THEN Clear
                          ELSE UNCHANGED <<bindingVars, orphaned>>
    /\ ready' = (IF pendingClearAll THEN {} ELSE ready)
                \cup (IF spawned THEN downloaded ELSE {})
    /\ downloaded' = IF spawned THEN {} ELSE downloaded
    /\ UNCHANGED <<gameVars, clump, cache, destructionQueue, tasks, draining,
                   previousVehicles, changed>>

\* Process: a binding whose model is ready is applied to its vehicle, unless
\* it already is; one whose vehicle is gone gives it up.
Lost    == {v \in Ids : binding[v].model \in ready /\ pool[v] = None}
Applied == {v \in Ids : /\ binding[v].model \in ready /\ pool[v] # None
                        /\ \/ ~binding[v].modelApplied
                           \/ binding[v].applied # pool[v]}
ToApply(c) == \E v \in Applied : pool[v] = c
GivenUp == {binding[v].applied : v \in Lost}
           \cup {binding[v].applied :
                    v \in {w \in Applied : binding[w].applied # pool[w]}}

Process ==
    /\ step = "process"
    /\ step' = "end"
    /\ binding' = [v \in Ids |->
           IF v \in Lost
           THEN [binding[v] EXCEPT !.applied = None, !.modelApplied = FALSE]
           ELSE IF v \in Applied
           THEN [binding[v] EXCEPT !.applied = pool[v], !.modelApplied = TRUE]
           ELSE binding[v]]
    /\ clump' = [c \in Cars |-> IF ToApply(c) THEN binding[IdOf(c)].model
                                              ELSE clump[c]]
    /\ index' = [c \in Cars |-> IF ToApply(c) THEN IdOf(c)
                                ELSE IF c \in GivenUp THEN None ELSE index[c]]
    /\ fastCol' = [c \in Cars |->
           IF ToApply(c) /\ binding[IdOf(c)].model \in OwnsCollision
           THEN binding[IdOf(c)].model
           ELSE IF c \in GivenUp THEN None ELSE fastCol[c]]
    /\ orphaned' = {c \in orphaned : ~ToApply(c)}
    /\ UNCHANGED <<gameVars, useCount, cache, modelVars, tasks, draining,
                   previousVehicles, changed>>

\* ProcessPendingDestructions: a model in use is queued again.
\* Variant: a model goes whoever uses it.
InUseNever(m) == FALSE
InUse(m) == useCount[m] > 0

\* The end of the frame: destructions, a clear-all asked for meanwhile, and
\* the vehicles that came and went.
CurrentVehicles == {c \in Cars : Valid(c) /\ c \in near}
Arrived  == CurrentVehicles \ previousVehicles
\* Variant: nobody looks for vehicles that have gone.
DepartedNone == {}
Departed == previousVehicles \ CurrentVehicles

EndFrame(spawned) ==
    LET gone == IF spawned THEN {m \in destructionQueue : ~InUse(m)} ELSE {}
        left(b) == b.applied \in Departed /\ index[b.applied] # None IN
    /\ step = "end"
    /\ step' = "idle"
    /\ destructionQueue' = destructionQueue \ gone
    /\ ready' = IF pendingClearAll THEN {} ELSE ready \ gone
    /\ pendingClearAll' = FALSE
    /\ IF pendingClearAll THEN Clear
       ELSE /\ binding' = [v \in Ids |->
                   IF left(binding[v]) /\ index[binding[v].applied] = v
                   THEN [binding[v] EXCEPT !.applied = None,
                                           !.modelApplied = FALSE]
                   ELSE binding[v]]
            /\ index' = Erase(index, Departed)
            /\ fastCol' = Erase(fastCol, Departed)
            /\ orphaned' = orphaned \cup {c \in Departed : clump[c] \in Models}
            /\ UNCHANGED useCount
    /\ cache' = [c \in Cars |->
                    IF c \in Departed THEN None
                    ELSE IF c \in Arrived /\ cache[c] = None THEN IdOf(c)
                    ELSE cache[c]]
    /\ previousVehicles' = CurrentVehicles
    /\ changed' = {}
    /\ UNCHANGED <<gameVars, clump, downloaded, tasks, draining>>

-----------------------------------------------------------------------------
Frame ==
    \/ BeginFrame
    \/ RunTask
    \/ \E spawned \in BOOLEAN : ClearAndFinalize(spawned)
    \/ Process
    \/ \E spawned \in BOOLEAN : EndFrame(spawned)

Next ==
    \/ \E v \in Ids, c \in Cars : CreateVehicle(v, c)
    \/ \E v \in Ids : DeleteVehicle(v)
    \/ \E c \in Cars : PlayerMoves(c)
    \/ \E c \in Cars : FindByVehicle(c)
    \/ \E v \in Ids, m \in Models : ReceiveBind(v, m)
    \/ \E v \in Ids : ReceiveUnbind(v)
    \/ \E v \in Ids : ReceiveAttribute(v)
    \/ \E m \in Models : Downloaded(m)
    \/ \E m \in Models : PushDestructionCommand(m)
    \/ \E session \in BOOLEAN : ResetAll(session)
    \/ Frame

Spec == Init /\ [][Next]_vars

\* The game runs frames.
FairSpec == Spec /\ WF_vars(Frame)

-----------------------------------------------------------------------------
BindingType ==
    [present : BOOLEAN, model : Models \cup {None},
     applied : Cars \cup {None}, modelApplied : BOOLEAN]
TaskType ==
    [type : {"Bind"}, vehicle : Ids, model : Models]
    \cup [type : {"Unbind"}, vehicle : Ids]

\* The types of bindings, maps, counts and queues.
TypeOK ==
    /\ pool \in [Ids -> Cars \cup {None}] /\ near \subseteq Cars
    /\ clump \in [Cars -> Models \cup {Own, None}]
    /\ binding \in [Ids -> BindingType]
    /\ index \in [Cars -> Ids \cup {None}]
    /\ fastCol \in [Cars -> Models \cup {None}]
    /\ cache \in [Cars -> Ids \cup {None}]
    /\ useCount \in [Models -> Nat]
    /\ ready \subseteq Models /\ downloaded \subseteq Models
    /\ destructionQueue \subseteq Models /\ pendingClearAll \in BOOLEAN
    /\ tasks \in Seq(TaskType) /\ draining \in Seq(TaskType)
    /\ previousVehicles \subseteq Cars
    /\ changed \subseteq Cars /\ orphaned \subseteq Cars
    /\ step \in {"idle", "drain", "process", "end"}
    /\ draining # <<>> => step = "drain"

\* A model counts as used as often as vehicles are bound to it, whatever
\* order of binds, unbinds, attributes and resets led there: with fewer it
\* could be destroyed under a vehicle, with more never.
UseCountExact ==
    \A m \in Models :
        useCount[m] = Cardinality({v \in Ids : binding[v].model = m})

\* No step destroys a model a vehicle is bound to after that step.
BoundNotDestroyed ==
    [][\A m \in ready \ ready' : \A v \in Ids : binding'[v].model # m]_vars

\* FindByVehicle never leads from a vehicle to the binding of another one,
\* though its maps go by addresses that the game uses again.
FindsOwn ==
    \A c \in Cars : Valid(c) => Found(c) \in {None, IdOf(c)}

\* A vehicle that Process takes for done does show the model: it would never
\* be applied otherwise.
AppliedIsShown ==
    \A v \in Ids : binding[v].modelApplied /\ pool[v] = binding[v].applied =>
        clump[pool[v]] = binding[v].model

\* A vehicle shows a custom model only while it is bound to it; not counted
\* are those whose binding was cleared or bound to another model, and those
\* 300 m away, until a model is applied again.
UnboundShowsOwn ==
    \A c \in Cars : Valid(c) /\ clump[c] \in Models /\ c \notin orphaned =>
        binding[IdOf(c)].model = clump[c]

\* Both: bindings and clumps say the same.
ShownAsBound == AppliedIsShown /\ UnboundShowsOwn

\* GetCollisionForVehicle gives a vehicle the collision of the model it
\* shows, of a model that exists.
CollisionFits ==
    Idle => \A c \in Cars : Valid(c) /\ fastCol[c] # None =>
        fastCol[c] \in ready /\ clump[c] = fastCol[c]

\* Both: no map that goes by addresses keeps what was true of another vehicle.
MapsFit == FindsOwn /\ CollisionFits

\* A vehicle that is bound to a ready model does not wait for ever without
\* showing it, however often it is bound, unbound and created again.
Waiting(v) ==
    /\ pool[v] # None /\ binding[v].model \in ready
    /\ clump[pool[v]] # binding[v].model
EventuallyShown == \A v \in Ids : []<>~Waiting(v)

\* The comment of ClearAllCustomModels: a model that a vehicle in the world
\* still uses is not freed, which would crash the next frame's render.
ShownIsNotFreed ==
    \A c \in Cars : Valid(c) /\ clump[c] \in Models => clump[c] \in ready
=============================================================================
