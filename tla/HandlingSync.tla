----------------------------- MODULE HandlingSync -----------------------------
(***************************************************************************)
(* The handling of vehicles, models and the player, and missing doors, on  *)
(* both sides.  The server keeps what scripts set and sends it in batches  *)
(* (src/Server/src/HandlingManager.cpp); the client keeps a block of       *)
(* handling data for each vehicle, model and player that has any, and      *)
(* points the game's vehicles at them                                      *)
(* (src/Client/handling_manager.cpp, the end of a frame in Plugin.cpp,     *)
(* Bind and Unbind in CustomVehicleBindingManager.cpp).                    *)
(*                                                                         *)
(* Two attributes stand for all: the mass for those that are stored in the *)
(* data, and the model flag IS_PLANE, which the client turns into the      *)
(* vehicle's flying state and strips from the data.                        *)
(***************************************************************************)
EXTENDS Naturals, Sequences, SequencesExt

CONSTANTS
    Vehicles,              \* SA-MP vehicle ids
    Base, Custom,          \* the vehicles' own model, and a custom one
    Masses,                \* masses that scripts set
    Stock,                 \* the mass in the game's handling table
    Junk,                  \* what is read from freed memory
    None,
    IdReuse,               \* an id is used again after its vehicle is gone
    RidesToTheEnd,         \* a vehicle goes with the player in it
    SameFrame,             \* packets are handled between a vehicle's creation
                           \*   and the next frame, and the player leaves
                           \*   while tasks wait for it
    EarlyPlayer,           \* scripts set a player's handling before the
                           \*   player is authorized
    MaxCalls, MaxRides, MaxStreams, \* bounds: calls, rides, joins and creations
    MaxInFlight            \* bound: packets under way when the server goes on

Models  == {Base, Custom}
NoMods  == [mass |-> None, plane |-> None]

ASSUME HandlingAssumption ==
    /\ IsFiniteSet(Vehicles)
    /\ Base # Custom /\ Stock \notin Masses \cup {None, Junk}
    /\ None \notin Masses \cup Models \cup Vehicles \cup {Junk} \cup BOOLEAN
    /\ Junk \notin Masses /\ Models \cap {"own", "applied", "static"} = {}
    /\ IdReuse \in BOOLEAN /\ RidesToTheEnd \in BOOLEAN
    /\ EarlyPlayer \in BOOLEAN /\ SameFrame \in BOOLEAN /\ MaxInFlight \in Nat
    /\ MaxCalls \in Nat /\ MaxRides \in Nat /\ MaxStreams \in Nat

VARIABLES
    \* server
    exists, streamed, authorized,
    born,                  \* the ids vehicles were ever given
    vehicleHandlings,      \* mods, usesModelHandling, and the data copied
    modelHandlings,        \* g...ModelHandlings: the mods of each model
    playerHandling,        \* the player's mass, or None
    outVehicles, outModels, \* usOutgoing...Mods
    doorMissing,           \* vehicleDoorStates, of one door
    bound,                 \* the registry's customModelId
    toClient,
    \* client
    pool, previous,        \* SA-MP's vehicles, those the last frame saw
    pointer,               \* m_pHandlingData: "own", "applied", "static" or
                           \*   the model whose block it is
    own,                   \* m_vehicleHandlings
    pending,               \* m_pendingVehicleAttribs
    model,                 \* m_modelHandlings
    player,                \* m_playerHandlings, of the local player
    applied,               \* m_playerAppliedHandlings
    flying, flyingByPtr,   \* m_vehicleFlying and m_vehicleFlyingByPtr
    doorState, doorGone,   \* m_vehicleDoorStates, and the vehicle's door
    binding, shown, ready, \* bindings, modelApplied, Custom is created
    tasks,                 \* MainThreadQueue
    ride, lastRide,        \* the player's vehicle, s_prevLocalVehicle
    \* history and bounds
    strayed,               \* see Stray
    apart,                 \* ResetAll has reset this client alone
    calls, rides, streams

serverVars == <<exists, streamed, authorized, born, vehicleHandlings,
                modelHandlings, playerHandling, outVehicles, outModels, doorMissing, bound>>
blocks     == <<own, model, player, applied>>
airVars    == <<flying, flyingByPtr>>
doorVars   == <<doorState, doorGone>>
bindVars   == <<binding, shown, ready>>
worldVars  == <<pool, previous, ride, lastRide>>
clientVars == <<worldVars, pointer, blocks, pending, airVars, doorVars,
                bindVars, tasks, strayed>>
bounds     == <<calls, rides, streams>>
vars == <<serverVars, toClient, clientVars, apart, bounds>>

-----------------------------------------------------------------------------
OrElse(x, y) == IF x # None THEN x ELSE y
\* The mods of m over those of n: later values win.
Over(m, n) == [mass  |-> OrElse(m.mass, n.mass),
               plane |-> OrElse(m.plane, n.plane)]

Init ==
    /\ exists = {} /\ streamed = {} /\ authorized = FALSE /\ born = {}
    /\ vehicleHandlings = [v \in Vehicles |->
           [uses |-> TRUE, mods |-> NoMods, mass |-> Stock, plane |-> FALSE]]
    /\ modelHandlings = [m \in Models |-> NoMods]
    /\ playerHandling = None
    /\ outVehicles = {} /\ outModels = {} /\ doorMissing = {}
    /\ bound = [v \in Vehicles |-> None]
    /\ toClient = <<>>
    /\ pool = {} /\ previous = {} /\ ride = None /\ lastRide = None
    /\ pointer = [v \in Vehicles |-> "static"]
    /\ own = [v \in Vehicles |-> None]
    /\ pending = [v \in Vehicles |-> NoMods]
    /\ model = [m \in Models |-> None]
    /\ player = None /\ applied = [v \in Vehicles |-> None]
    /\ flying = {} /\ flyingByPtr = {} /\ doorState = {} /\ doorGone = {}
    /\ binding = [v \in Vehicles |-> None] /\ shown = {} /\ ready = FALSE
    /\ tasks = <<>> /\ strayed = {} /\ apart = FALSE
    /\ calls = 0 /\ rides = 0 /\ streams = 0

-----------------------------------------------------------------------------
(***************************************************************************)
(* The server.                                                             *)
(***************************************************************************)
Room == Len(toClient) < MaxInFlight
Call == Room /\ calls < MaxCalls /\ calls' = calls + 1
        /\ UNCHANGED <<rides, streams>>
Stream == Room /\ streams < MaxStreams /\ streams' = streams + 1
          /\ UNCHANGED <<calls, rides>>

SendAuthorized(msgs) == toClient' = IF authorized THEN toClient \o msgs
                                                  ELSE toClient

SetVehicleMsg(v) == [type |-> "SetVehicle", vehicle |-> v,
                     mods |-> vehicleHandlings[v].mods]
SetModelMsg(m)   == [type |-> "SetModel", model |-> m,
                     mods |-> modelHandlings[m]]
DoorMsg(v, gone) == [type |-> "Door", vehicle |-> v, gone |-> gone]
ResetVehicleMsg(v) == [type |-> "ResetVehicle", vehicle |-> v]

\* A message for each member of a set.
Each(S, Message(_)) ==
    [i \in 1..Len(SetToSeq(S)) |-> Message(SetToSeq(S)[i])]
MissingMsg(v) == DoorMsg(v, TRUE)

\* ResetVehicleHandling without a packet.
Fresh(e) == [e EXCEPT !.uses = TRUE, !.mods = NoMods]

OnCreateVehicle(v) ==
    /\ v \notin exists /\ Stream
    /\ IdReuse \/ v \notin born
    /\ exists' = exists \cup {v} /\ born' = born \cup {v}
    /\ vehicleHandlings' = [vehicleHandlings EXCEPT ![v] = Fresh(@)]
    /\ UNCHANGED <<streamed, authorized, modelHandlings, playerHandling,
                   outVehicles, outModels, doorMissing, bound, toClient,
                   clientVars, apart>>

\* No packet tells the clients to forget the vehicle's handling and doors.
OnDestroyVehicle(v) ==
    /\ v \in exists
    /\ RidesToTheEnd \/ v \notin {ride, lastRide}
    /\ exists' = exists \ {v} /\ streamed' = streamed \ {v}
    /\ vehicleHandlings' = [vehicleHandlings EXCEPT ![v] = Fresh(@)]
    /\ doorMissing' = doorMissing \ {v}
    /\ bound' = [bound EXCEPT ![v] = None]
    /\ IF bound[v] # None
       THEN SendAuthorized(<<[type |-> "Unbind", vehicle |-> v]>>)
       ELSE UNCHANGED toClient
    /\ UNCHANGED <<authorized, born, modelHandlings, playerHandling, outVehicles,
                   outModels, clientVars, apart, bounds>>

\* What scripts read back.
GetModelHandling(m) == [mass  |-> OrElse(modelHandlings[m].mass, Stock),
                        plane |-> OrElse(modelHandlings[m].plane, FALSE)]
GetVehicleHandling(v) ==
    LET e == vehicleHandlings[v] IN
    IF e.uses THEN GetModelHandling(Base) ELSE [mass |-> e.mass, plane |-> e.plane]
GetVehicleFlying(v) == GetVehicleHandling(v).plane
GetPlayerHandling == playerHandling
GetVehicleDoorMissing(v) == v \in doorMissing

\* __addMod of a vehicle: it leaves its model's handling with a copy of it.
AddVehicleMod(v, mods) ==
    LET e == vehicleHandlings[v]
        from == GetVehicleHandling(v) IN
    vehicleHandlings' = [vehicleHandlings EXCEPT ![v] =
        [uses |-> FALSE, mods |-> Over(mods, e.mods),
         mass |-> OrElse(mods.mass, from.mass),
         plane |-> OrElse(mods.plane, from.plane)]]

SetVehicleHandling(v, mods) ==
    /\ v \in exists /\ Call
    /\ AddVehicleMod(v, mods)
    /\ outVehicles' = outVehicles \cup {v}
    /\ UNCHANGED <<exists, born, streamed, authorized, modelHandlings,
                   playerHandling, outModels, doorMissing, bound, toClient,
                   clientVars, apart>>

SetModelHandling(m, mods) ==
    /\ Call
    /\ modelHandlings' = [modelHandlings EXCEPT ![m] = Over(mods, @)]
    /\ outModels' = outModels \cup {m}
    /\ UNCHANGED <<exists, born, streamed, authorized, vehicleHandlings,
                   playerHandling, outVehicles, doorMissing, bound, toClient,
                   clientVars, apart>>

\* The packet goes to every player at once.
ResetModelHandling(m) ==
    /\ Call
    /\ modelHandlings' = [modelHandlings EXCEPT ![m] = NoMods]
    /\ toClient' = Append(toClient, [type |-> "ResetModel", model |-> m])
    /\ UNCHANGED <<exists, born, streamed, authorized, vehicleHandlings,
                   playerHandling, outVehicles, outModels, doorMissing, bound,
                   clientVars, apart>>

ResetVehicleHandling(v) ==
    /\ v \in exists /\ Call
    /\ vehicleHandlings' = [vehicleHandlings EXCEPT ![v] = Fresh(@)]
    /\ SendAuthorized(<<ResetVehicleMsg(v)>>)
    /\ UNCHANGED <<exists, born, streamed, authorized, modelHandlings,
                   playerHandling, outVehicles, outModels, doorMissing, bound,
                   clientVars, apart>>

\* SetVehicleWaterDrive of a vehicle that cannot.
BroadcastVehicleCorrection(v) ==
    /\ v \in exists /\ Call
    /\ SendAuthorized(IF vehicleHandlings[v].mods # NoMods
                      THEN <<SetVehicleMsg(v)>> ELSE <<ResetVehicleMsg(v)>>)
    /\ UNCHANGED <<serverVars, clientVars, apart>>

\* The vehicles first, then the models, whatever the order of the calls.
ProcessTick ==
    /\ outVehicles \cup outModels # {}
    /\ outVehicles' = {} /\ outModels' = {}
    /\ SendAuthorized(
           Each({v \in outVehicles \cap exists :
                            ~vehicleHandlings[v].uses}, SetVehicleMsg)
           \o Each({m \in outModels : modelHandlings[m] # NoMods},
                        SetModelMsg))
    /\ UNCHANGED <<exists, born, streamed, authorized, vehicleHandlings,
                   modelHandlings, playerHandling, doorMissing, bound,
                   clientVars, apart, bounds>>

\* Sent to the player even before it is authorized; its client drops it then.
SetPlayerHandling(x) ==
    /\ Call
    /\ EarlyPlayer \/ authorized
    /\ playerHandling' = x
    /\ SendAuthorized(<<[type |-> "SetPlayer", mass |-> x]>>)
    /\ UNCHANGED <<exists, born, streamed, authorized, vehicleHandlings,
                   modelHandlings, outVehicles, outModels, doorMissing, bound,
                   clientVars, apart>>
ResetPlayerHandling ==
    /\ playerHandling # None /\ Call
    /\ playerHandling' = None
    /\ SendAuthorized(<<[type |-> "ResetPlayer"]>>)
    /\ UNCHANGED <<exists, born, streamed, authorized, vehicleHandlings,
                   modelHandlings, outVehicles, outModels, doorMissing, bound,
                   clientVars, apart>>

\* ResetAllHandling resets one client; the server's state stays.
ResetAll ==
    /\ authorized /\ Call
    /\ toClient' = toClient
           \o Each({v \in exists : vehicleHandlings[v].mods # NoMods},
                          ResetVehicleMsg)
           \o Each({m \in Models : modelHandlings[m] # NoMods},
                        LAMBDA m : [type |-> "ResetModel", model |-> m])
           \o (IF playerHandling # None THEN <<[type |-> "ResetPlayer"]>>
                                        ELSE <<>>)
    /\ playerHandling' = None
    /\ apart' = TRUE
    /\ UNCHANGED <<exists, born, streamed, authorized, vehicleHandlings,
                   modelHandlings, outVehicles, outModels, doorMissing, bound,
                   clientVars>>

SetVehicleDoorMissing(v, gone) ==
    /\ v \in exists /\ Call
    /\ doorMissing' = IF gone THEN doorMissing \cup {v} ELSE doorMissing \ {v}
    /\ SendAuthorized(<<DoorMsg(v, gone)>>)
    /\ UNCHANGED <<exists, born, streamed, authorized, vehicleHandlings,
                   modelHandlings, playerHandling, outVehicles, outModels,
                   bound, clientVars, apart>>

\* The natives that bind a vehicle to the custom model, and undo it.
BindVehicle(v) ==
    /\ v \in exists /\ bound[v] = None /\ Call
    /\ bound' = [bound EXCEPT ![v] = Custom]
    /\ SendAuthorized(<<[type |-> "Bind", vehicle |-> v]>>)
    /\ UNCHANGED <<exists, born, streamed, authorized, vehicleHandlings,
                   modelHandlings, playerHandling, outVehicles, outModels,
                   doorMissing, clientVars, apart>>
UnbindVehicle(v) ==
    /\ bound[v] # None /\ Call
    /\ bound' = [bound EXCEPT ![v] = None]
    /\ SendAuthorized(<<[type |-> "Unbind", vehicle |-> v]>>)
    /\ UNCHANGED <<exists, born, streamed, authorized, vehicleHandlings,
                   modelHandlings, playerHandling, outVehicles, outModels,
                   doorMissing, clientVars, apart>>

\* What a vehicle that streams in has, for an authorized player.
OnVehicleStreamIn(v) ==
    /\ v \in exists \ streamed /\ v \notin pool \cup previous /\ Stream
    /\ streamed' = streamed \cup {v}
    /\ SendAuthorized(
           Each({v} \cap doorMissing, MissingMsg)
           \o (IF vehicleHandlings[v].mods # NoMods
               THEN <<SetVehicleMsg(v)>> ELSE <<>>)
           \o (IF bound[v] # None THEN <<[type |-> "Bind", vehicle |-> v]>>
                                  ELSE <<>>))
    /\ UNCHANGED <<exists, born, authorized, vehicleHandlings, modelHandlings,
                   playerHandling, outVehicles, outModels, doorMissing, bound,
                   clientVars, apart>>
StreamOut(v) ==
    /\ v \in streamed
    /\ RidesToTheEnd \/ v \notin {ride, lastRide}
    /\ streamed' = streamed \ {v}
    /\ UNCHANGED <<exists, born, authorized, vehicleHandlings, modelHandlings,
                   playerHandling, outVehicles, outModels, doorMissing, bound,
                   toClient, clientVars, apart, bounds>>

\* The models' handling comes before the definitions of the models.
OnPlayerAuthorized ==
    /\ ~authorized /\ authorized' = TRUE
    /\ toClient' = toClient
           \o Each({m \in Models : modelHandlings[m] # NoMods}, SetModelMsg)
           \o Each(doorMissing, MissingMsg)
           \o Each({v \in exists : vehicleHandlings[v].mods # NoMods
                                          /\ ~vehicleHandlings[v].uses},
                          SetVehicleMsg)
           \o Each({v \in streamed : bound[v] # None},
                          LAMBDA v : [type |-> "Bind", vehicle |-> v])
    /\ UNCHANGED <<exists, born, streamed, vehicleHandlings, modelHandlings,
                   playerHandling, outVehicles, outModels, doorMissing, bound,
                   clientVars, apart, bounds>>

-----------------------------------------------------------------------------
(***************************************************************************)
(* The client: where a vehicle's handling is read.                         *)
(***************************************************************************)
\* The model that counts for a vehicle's handling.
ModelOf(v) == IF binding[v] # None THEN Custom ELSE Base

Held(v) == CASE pointer[v] = "own"     -> own[v]
             [] pointer[v] = "applied" -> applied[v]
             [] pointer[v] = "static"  -> Stock
             [] OTHER                  -> model[pointer[v]]
Dangling(v) == Held(v) = None
Driven(v)   == IF Dangling(v) THEN Junk ELSE Held(v)

\* Not ResolveFallbackHandling's custom model: the vehicle's own index.
ModelOrStatic(m) == IF model[m] # None THEN m ELSE "static"
Fallback(v) == IF applied[v] # None THEN "applied" ELSE ModelOrStatic(Base)

\* A vehicle drives with a model's block although that is not its model, or
\* with its model's although it has a block of its own.
Stray(v, p, m) == p \in Models /\ (p # m \/ own[v] # None)

\* ApplyAttribEntries to a vehicle: the flag IS_PLANE becomes its state.
Fly(v, mods) ==
    IF mods.plane = None THEN UNCHANGED airVars
    ELSE /\ flying' = IF mods.plane THEN flying \cup {v} ELSE flying \ {v}
         /\ flyingByPtr' = IF mods.plane THEN flyingByPtr \cup {v}
                                         ELSE flyingByPtr \ {v}

-----------------------------------------------------------------------------
(***************************************************************************)
(* The client: packets.  All but Bind, Unbind and Door work at once.       *)
(***************************************************************************)
Take == (SameFrame \/ pool \subseteq previous) /\ toClient # <<>>
        /\ toClient' = Tail(toClient)
        /\ UNCHANGED <<serverVars, apart, bounds>>
Msg == Head(toClient)

\* A vehicle that is not there yet gets the attributes when it comes.
ProcessVehicleMods ==
    /\ toClient # <<>> /\ Msg.type = "SetVehicle" /\ Take
    /\ LET v == Msg.vehicle IN
       IF v \in pool
       THEN /\ own' = [own EXCEPT ![v] = OrElse(Msg.mods.mass,
                                                OrElse(@, Driven(v)))]
            /\ pointer' = [pointer EXCEPT ![v] = "own"]
            /\ Fly(v, Msg.mods)
            /\ strayed' = strayed \ {v}
            /\ UNCHANGED pending
       ELSE /\ pending' = [pending EXCEPT ![v] = Over(Msg.mods, @)]
            /\ UNCHANGED <<own, pointer, airVars, strayed>>
    /\ UNCHANGED <<worldVars, model, player, applied, doorVars, bindVars, tasks>>

\* Variant: the vehicle keeps what waits for it.
ResetVehicleKeepsPending ==
    /\ toClient # <<>> /\ Msg.type = "ResetVehicle" /\ Take
    /\ LET v == Msg.vehicle IN
       /\ flying' = flying \ {v}
       /\ own' = [own EXCEPT ![v] = None]
       /\ pointer' = IF own[v] # None /\ v \in pool
                     THEN [pointer EXCEPT ![v] = Fallback(v)] ELSE pointer
    /\ UNCHANGED <<worldVars, model, player, applied, pending, flyingByPtr,
                   doorVars, bindVars, tasks, strayed>>
ResetVehicle ==
    /\ toClient # <<>> /\ Msg.type = "ResetVehicle" /\ Take
    /\ LET v == Msg.vehicle IN
       /\ pending' = [pending EXCEPT ![v] = NoMods]
       /\ flying' = flying \ {v}
       /\ own' = [own EXCEPT ![v] = None]
       /\ pointer' = IF own[v] # None /\ v \in pool
                     THEN [pointer EXCEPT ![v] = Fallback(v)] ELSE pointer
       /\ strayed' = IF own[v] = None \/ v \notin pool THEN strayed
                     ELSE IF pointer'[v] \in Models \ {ModelOf(v)}
                     THEN strayed \cup {v} ELSE strayed \ {v}
    /\ UNCHANGED <<worldVars, model, player, applied, flyingByPtr, doorVars,
                   bindVars, tasks>>

\* ApplyModelToVehicles and RevertModelToOriginal pass over vehicles with a
\* block of another kind.
Follows(v, m) == v \in pool /\ ModelOf(v) = m /\ own[v] = None /\ applied[v] = None

\* A custom model that is not created yet loses its handling.
ProcessModelMods ==
    /\ toClient # <<>> /\ Msg.type = "SetModel" /\ Take
    /\ LET m == Msg.model IN
       IF m = Base \/ ready
       THEN /\ model' = [model EXCEPT ![m] = OrElse(Msg.mods.mass,
                                                    OrElse(@, Stock))]
            /\ pointer' = [v \in Vehicles |-> IF Follows(v, m) THEN m
                                                               ELSE pointer[v]]
            /\ strayed' = {v \in strayed : ~Follows(v, m)}
       ELSE UNCHANGED <<model, pointer, strayed>>
    /\ UNCHANGED <<worldVars, own, player, applied, pending, airVars, doorVars,
                   bindVars, tasks>>

\* Variant: the block goes before the vehicles are led away from it.
ResetModelFirst ==
    /\ toClient # <<>> /\ Msg.type = "ResetModel" /\ Take
    /\ model' = [model EXCEPT ![Msg.model] = None]
    /\ UNCHANGED <<worldVars, pointer, own, player, applied, pending, airVars,
                   doorVars, bindVars, tasks, strayed>>
ResetModel ==
    /\ toClient # <<>> /\ Msg.type = "ResetModel" /\ Take
    /\ LET m == Msg.model IN
       IF model[m] = None THEN UNCHANGED <<model, pointer>>
       ELSE /\ model' = [model EXCEPT ![m] = None]
            /\ pointer' = [v \in Vehicles |-> IF Follows(v, m) THEN "static"
                                                               ELSE pointer[v]]
    /\ UNCHANGED <<worldVars, own, player, applied, pending, airVars, doorVars,
                   bindVars, tasks, strayed>>

\* ApplyPlayerHandling to a vehicle without a block of its own: a copy of
\* the player's.
ApplyPlayer(v, mass) ==
    IF v # None /\ v \in pool /\ own[v] = None /\ applied[v] = None /\ mass # None
    THEN /\ applied' = [applied EXCEPT ![v] = mass]
         /\ pointer' = [pointer EXCEPT ![v] = "applied"]
         /\ strayed' = strayed \ {v}
    ELSE UNCHANGED <<applied, pointer, strayed>>

ProcessPlayerMods ==
    /\ toClient # <<>> /\ Msg.type = "SetPlayer" /\ Take
    /\ player' = Msg.mass
    /\ ApplyPlayer(ride, Msg.mass)
    /\ UNCHANGED <<worldVars, own, model, pending, airVars, doorVars, bindVars,
                   tasks>>

\* The vehicle goes back to its model's block, even one with a block of its
\* own.
ResetPlayer ==
    /\ toClient # <<>> /\ Msg.type = "ResetPlayer" /\ Take
    /\ player' = None
    /\ LET with == IF player # None THEN {v \in Vehicles : applied[v] # None}
                                    ELSE {} IN
       /\ applied' = [v \in Vehicles |-> IF v \in with THEN None ELSE applied[v]]
       /\ pointer' = [v \in Vehicles |-> IF v \in with \cap pool
                                         THEN ModelOrStatic(Base) ELSE pointer[v]]
       /\ strayed' = {v \in strayed : v \notin with \cap pool}
                     \cup {v \in with \cap pool :
                              own[v] # None \/ Stray(v, pointer'[v], ModelOf(v))}
    /\ UNCHANGED <<worldVars, own, model, pending, airVars, doorVars, bindVars,
                   tasks>>

ReceiveTask ==
    /\ toClient # <<>> /\ Msg.type \in {"Bind", "Unbind", "Door"} /\ Take
    /\ tasks' = Append(tasks, Msg)
    /\ UNCHANGED <<worldVars, pointer, blocks, pending, airVars, doorVars,
                   bindVars, strayed>>

\* The player leaves and joins again.  The client carries out its own
\* ACTION_RESET_ALL: first the vehicles, then the models, then the player.
Rejoin ==
    LET first(v) == IF own[v] # None THEN Fallback(v) ELSE pointer[v]
        then(v)  == IF model[ModelOf(v)] # None /\ applied[v] = None
                    THEN "static" ELSE first(v)
        last(v)  == IF applied[v] # None /\ player # None THEN "static"
                                                         ELSE then(v) IN
    /\ authorized /\ Stream
    /\ SameFrame \/ tasks = <<>>
    /\ RidesToTheEnd \/ {ride, lastRide} = {None}
    /\ authorized' = FALSE /\ streamed' = {} /\ playerHandling' = None
    /\ toClient' = <<>> /\ apart' = FALSE
    /\ pending' = [v \in Vehicles |-> NoMods]
    /\ pointer' = [v \in Vehicles |-> IF v \in pool THEN last(v) ELSE pointer[v]]
    /\ own' = [v \in Vehicles |-> None]
    /\ model' = [m \in Models |-> None]
    /\ player' = None
    /\ applied' = [v \in Vehicles |-> IF player # None THEN None ELSE applied[v]]
    /\ flying' = {} /\ flyingByPtr' = {}
    /\ doorState' = {}
    /\ doorGone' = doorGone \ (doorState \cap pool)
    /\ binding' = [v \in Vehicles |-> None] /\ shown' = {}
    /\ strayed' = pool
    /\ UNCHANGED <<exists, born, vehicleHandlings, modelHandlings, outVehicles,
                   outModels, doorMissing, bound, worldVars, ready, tasks>>

-----------------------------------------------------------------------------
(***************************************************************************)
(* The client: frames, and what SA-MP and the player do.                   *)
(***************************************************************************)
\* HandlingManager::OnVehicleStreamIn: the block a vehicle is pointed at.
Waiting(v) == pending[v] # NoMods
StreamedPointer(v) ==
    IF Waiting(v) \/ own[v] # None        THEN "own"
    ELSE IF model[ModelOf(v)] # None      THEN ModelOf(v)
    ELSE IF binding[v] # None /\ ready    THEN "static"
    ELSE pointer[v]
StreamIn(v) ==
    /\ own' = IF Waiting(v)
              THEN [own EXCEPT ![v] = OrElse(pending[v].mass,
                                             OrElse(@, Driven(v)))]
              ELSE own
    /\ pointer' = [pointer EXCEPT ![v] = StreamedPointer(v)]
    /\ pending' = [pending EXCEPT ![v] = NoMods]
    /\ doorGone' = IF v \in doorState THEN doorGone \cup {v} ELSE doorGone
    /\ Fly(v, pending[v])

\* A vehicle is also taken from the player's block, which it still has, to its
\* model's: ResetModel passes it over from then on.
StrayedIn(v) ==
    IF StreamedPointer(v) = pointer[v] THEN strayed
    ELSE IF StreamedPointer(v) \in Models /\ applied[v] # None
    THEN strayed \cup {v} ELSE strayed \ {v}

\* A Bind to another model, an Unbind, a door.  Unbind calls OnVehicleStreamIn
\* while the binding is still there.
RunTask ==
    /\ tasks # <<>>
    /\ tasks' = Tail(tasks)
    /\ LET v == Head(tasks).vehicle IN
       CASE Head(tasks).type = "Bind" ->
              /\ binding' = [binding EXCEPT ![v] = Custom]
              /\ strayed' = IF v \in pool /\ Stray(v, pointer[v], Custom)
                            THEN strayed \cup {v} ELSE strayed
              /\ UNCHANGED <<own, pointer, pending, doorVars, airVars, shown>>
         [] Head(tasks).type = "Unbind" ->
              /\ binding' = [binding EXCEPT ![v] = None]
              /\ shown' = shown \ {v}
              /\ IF v \in shown \cap pool THEN StreamIn(v)
                 ELSE UNCHANGED <<own, pointer, pending, doorGone, airVars>>
              /\ strayed' = IF v \in pool /\ binding[v] # None /\ pointer'[v] # "own"
                            THEN strayed \cup {v} ELSE strayed
              /\ UNCHANGED doorState
         [] OTHER ->
              /\ doorState' = IF Head(tasks).gone THEN doorState \cup {v}
                                                  ELSE doorState \ {v}
              /\ doorGone' = IF v \notin pool THEN doorGone
                             ELSE IF Head(tasks).gone THEN doorGone \cup {v}
                             ELSE doorGone \ {v}
              /\ UNCHANGED <<binding, shown, own, pointer, pending, airVars,
                             strayed>>
    /\ UNCHANGED <<serverVars, toClient, worldVars, model, player, applied,
                   ready, apart, bounds>>

\* The custom model is created.
Create ==
    /\ ~ready /\ ready' = TRUE
    /\ UNCHANGED <<serverVars, toClient, worldVars, pointer, blocks, pending,
                   airVars, doorVars, binding, shown, tasks, strayed, apart,
                   bounds>>

\* CustomVehicleBindingManager::Process shows a bound vehicle's model.
Process(v) ==
    /\ binding[v] # None /\ ready /\ v \in pool \ shown
    /\ shown' = shown \cup {v}
    /\ StreamIn(v)
    /\ strayed' = StrayedIn(v)
    /\ UNCHANGED <<serverVars, toClient, worldVars, model, player, applied,
                   doorState, binding, ready, tasks, apart, bounds>>

\* SA-MP creates the vehicle, and the next frame finds it.
Appear(v) ==
    /\ v \in streamed \ (pool \cup previous)
    /\ pool' = pool \cup {v}
    /\ pointer' = [pointer EXCEPT ![v] = "static"]
    /\ doorGone' = doorGone \ {v}
    /\ strayed' = strayed \ {v}
    /\ UNCHANGED <<serverVars, toClient, previous, ride, lastRide, blocks,
                   pending, airVars, doorState, bindVars, tasks, apart, bounds>>
Arrive(v) ==
    /\ v \in pool \ previous
    /\ previous' = previous \cup {v}
    /\ StreamIn(v)
    /\ strayed' = StrayedIn(v)
    /\ UNCHANGED <<serverVars, toClient, pool, ride, lastRide, model, player,
                   applied, doorState, bindVars, tasks, apart, bounds>>

Disappear(v) ==
    /\ v \in pool \ streamed
    /\ pool' = pool \ {v}
    /\ ride' = IF ride = v THEN None ELSE ride
    /\ UNCHANGED <<serverVars, toClient, previous, lastRide, pointer, blocks,
                   pending, airVars, doorVars, bindVars, tasks, strayed, apart,
                   bounds>>
\* The frame that misses it forgets its address.
Depart(v) ==
    /\ v \in previous \ pool
    /\ previous' = previous \ {v}
    /\ flyingByPtr' = flyingByPtr \ {v}
    /\ shown' = shown \ {v}
    /\ UNCHANGED <<serverVars, toClient, pool, ride, lastRide, pointer, blocks,
                   pending, flying, doorVars, binding, ready, tasks, strayed,
                   apart, bounds>>

\* Between two frames the player does not both enter and leave.
Ride(v) ==
    /\ ride = lastRide
    /\ v \in (pool \cap streamed \cap previous) \cup {None} /\ v # ride
    /\ v # None => rides < MaxRides
    /\ rides' = IF v = None THEN rides ELSE rides + 1
    /\ ride' = v
    /\ UNCHANGED <<serverVars, toClient, pool, previous, lastRide, pointer,
                   blocks, pending, airVars, doorVars, bindVars, tasks,
                   strayed, apart, calls, streams>>

\* The end of a frame: RemovePlayerHandling from the vehicle left, and
\* ApplyPlayerHandling to the one entered.
LeaveRide ==
    /\ lastRide # None /\ lastRide # ride
    /\ lastRide' = None
    /\ LET v == lastRide IN
       IF v \in pool /\ applied[v] # None
       THEN /\ applied' = [applied EXCEPT ![v] = None]
            /\ pointer' = [pointer EXCEPT ![v] = IF own[v] # None THEN "own"
                                                 ELSE ModelOrStatic(Base)]
            /\ strayed' = IF Stray(v, pointer'[v], ModelOf(v))
                          THEN strayed \cup {v} ELSE strayed \ {v}
       ELSE UNCHANGED <<applied, pointer, strayed>>
    /\ UNCHANGED <<serverVars, toClient, pool, previous, ride, own, model,
                   player, pending, airVars, doorVars, bindVars, tasks, apart,
                   bounds>>
EnterRide ==
    /\ lastRide = None /\ ride # None
    /\ lastRide' = ride
    /\ ApplyPlayer(ride, player)
    /\ UNCHANGED <<serverVars, toClient, pool, previous, ride, own, model,
                   player, pending, airVars, doorVars, bindVars, tasks, apart,
                   bounds>>

-----------------------------------------------------------------------------
Given == {[mass |-> x, plane |-> None] : x \in Masses}
         \cup {[mass |-> None, plane |-> b] : b \in BOOLEAN}

Natives ==
    \/ \E v \in Vehicles :
          \/ OnCreateVehicle(v)
          \/ OnDestroyVehicle(v)
          \/ \E mods \in Given : SetVehicleHandling(v, mods)
          \/ ResetVehicleHandling(v)
          \/ BroadcastVehicleCorrection(v)
          \/ \E gone \in BOOLEAN : SetVehicleDoorMissing(v, gone)
          \/ BindVehicle(v)
          \/ UnbindVehicle(v)
          \/ OnVehicleStreamIn(v)
          \/ StreamOut(v)
    \/ \E m \in Models, mods \in Given : SetModelHandling(m, mods)
    \/ \E m \in Models : ResetModelHandling(m)
    \/ \E x \in Masses : SetPlayerHandling(x)
    \/ ResetPlayerHandling
    \/ ResetAll
    \/ ProcessTick
    \/ OnPlayerAuthorized

Packets ==
    \/ ProcessVehicleMods
    \/ ResetVehicle
    \/ ProcessModelMods
    \/ ResetModel
    \/ ProcessPlayerMods
    \/ ResetPlayer
    \/ ReceiveTask

Game ==
    \/ RunTask
    \/ Create
    \/ \E v \in Vehicles : \/ Process(v)
                           \/ Appear(v)
                           \/ Arrive(v)
                           \/ Disappear(v)
                           \/ Depart(v)
    \/ \E v \in Vehicles \cup {None} : Ride(v)
    \/ LeaveRide
    \/ EnterRide

Next == Natives \/ Packets \/ Game \/ Rejoin

Spec == Init /\ [][Next]_vars

-----------------------------------------------------------------------------
\* The tick has come, the packets and the frame's work are done.
AtRest ==
    /\ authorized /\ ~apart
    /\ outVehicles = {} /\ outModels = {} /\ toClient = <<>> /\ tasks = <<>>
    /\ previous = pool /\ pool = streamed /\ lastRide = ride

Mods == [mass : Masses \cup {None}, plane : BOOLEAN \cup {None}]
Block == Masses \cup {Stock, Junk}

\* The types of the variables; a vehicle uses its model's handling exactly when it
\* has no modification.
TypeOK ==
    /\ streamed \subseteq exists /\ exists \subseteq born /\ born \subseteq Vehicles
    /\ vehicleHandlings \in [Vehicles ->
           [uses : BOOLEAN, mods : Mods, mass : Masses \cup {Stock},
            plane : BOOLEAN]]
    /\ modelHandlings \in [Models -> Mods]
    /\ playerHandling \in Masses \cup {None} /\ player \in Masses \cup {None}
    /\ pool \subseteq Vehicles /\ previous \subseteq Vehicles
    /\ pointer \in [Vehicles -> {"own", "applied", "static"} \cup Models]
    /\ own \in [Vehicles -> Block \cup {None}]
    /\ applied \in [Vehicles -> Masses \cup {None}]
    /\ model \in [Models -> Masses \cup {Stock, None}]
    /\ pending \in [Vehicles -> Mods]
    /\ flying \subseteq Vehicles /\ flyingByPtr \subseteq Vehicles
    /\ doorState \subseteq Vehicles /\ doorGone \subseteq Vehicles
    /\ binding \in [Vehicles -> {Custom, None}]
    /\ ride \in Vehicles \cup {None} /\ lastRide \in Vehicles \cup {None}
    /\ \A v \in exists : vehicleHandlings[v].uses <=> vehicleHandlings[v].mods = NoMods

\* A vehicle in the world never drives with a block that was freed; not
\* counted are vehicles bound or unbound since they got a model's block, and
\* those that got it though they have one of their own or the player's.
NoDangling == \A v \in pool \ strayed : ~Dangling(v)

\* A client at rest drives a vehicle that was given handling of its own with
\* every attribute that was set, whatever was set of its model and player,
\* and wherever the vehicle and the player were at the time.
OwnHandlingAgrees ==
    AtRest => \A v \in pool \ strayed :
        LET mods == vehicleHandlings[v].mods IN
        /\ mods.mass # None => Driven(v) = GetVehicleHandling(v).mass
        /\ mods.plane # None =>
               (v \in flyingByPtr \cup flying) = GetVehicleFlying(v)

\* A client at rest drives a vehicle of the game's model that has no handling
\* of its own as its model is set, or as the player's is while in it.
ModelHandlingAgrees ==
    AtRest => \A v \in pool \ strayed :
        vehicleHandlings[v].uses /\ binding[v] = None /\ bound[v] = None =>
            Driven(v) = OrElse(IF ride = v THEN applied[v] ELSE None,
                               GetModelHandling(Base).mass)

\* The player's handling is in force in the vehicle the player drives only,
\* and known to the client as the server has it.
PlayerHandlingAgrees ==
    AtRest => /\ player = GetPlayerHandling
              /\ \A v \in Vehicles : applied[v] # None => v = ride

\* A vehicle in sight of a client at rest lacks the door scripts removed.
DoorsAgree ==
    AtRest => \A v \in pool : v \in doorGone <=> GetVehicleDoorMissing(v)

\* In whatever order a vehicle, its model and its driver are given handling and
\* lose it, doors go, and the vehicle comes in sight: when all is done, the
\* client drives as the server says.
ClientAgrees ==
    /\ OwnHandlingAgrees /\ ModelHandlingAgrees /\ PlayerHandlingAgrees
    /\ DoorsAgree
=============================================================================
