--------------------------- MODULE VehicleAttributes ---------------------------
(***************************************************************************)
(* What a vehicle is bound to and how it looks, on both sides: the         *)
(* server's CustomVehicleBindingRegistry, the natives and events that      *)
(* write it, the packets that carry it to one player (broadcasts to the    *)
(* authorized, the whole state when a vehicle streams in, the player       *)
(* spawns, enters it or is authorized) and the client's bindings.          *)
(* Server: src/Server/src/CustomVehicleBindingRegistry.h, Natives.h,       *)
(* extendedveh.cpp, CustomVehicleTransport.cpp.  Client:                   *)
(* handling_manager.cpp and CustomVehicleBindingManager.cpp.               *)
(*                                                                         *)
(* Bind and Unbind wait in the client's main thread queue for the next     *)
(* frame; every other packet changes a binding when it is received.        *)
(***************************************************************************)
EXTENDS Naturals, Sequences, FiniteSets, SequencesExt

CONSTANTS
    Vehicles,              \* SA-MP vehicle ids (they are reused)
    Models,                \* committed custom models
    Values,                \* values of an attribute
    Given,                 \* those that scripts and players choose
    Neutral,               \* paintjob -1, clear glass, white, empty text, 0
    Unset,                 \* the has... flag is off, no model, no entry
    ModelDefault,          \* what a model's definition says of an attribute
    Rebinding,             \* scripts bind a bound vehicle to another model
    DuringUnbind,          \* scripts set attributes while the client still
                           \*   has an Unbind of the vehicle to carry out
    BindFirst,             \* scripts set attributes of bound vehicles only
    MaxBinds, MaxSets, MaxLegacy, MaxSyncs, \* bounds: calls of each kind
    MaxInFlight            \* bound: packets under way when the server goes on

Attrs == {"stance", "wheelOffsets", "chassisOffset", "extras", "paintjob",
          "neon", "windowTint", "wheelColor", "backfire", "horn", "siren",
          "lights", "wheel", "plate", "frontPlateMesh", "rearPlateMesh",
          "plateTexture"}
ModelAudio   == {"horn", "siren"}
OffsetParts  == {"wheelOffsets", "chassisOffset"}

ASSUME AttributesAssumption ==
    /\ IsFiniteSet(Vehicles) /\ Given \subseteq Values
    /\ Neutral \notin Values /\ Neutral # Unset
    /\ Unset \notin Values \cup Models
    /\ ModelDefault \in [Models -> [Attrs -> Values \cup {Unset}]]
    /\ Rebinding \in BOOLEAN /\ DuringUnbind \in BOOLEAN /\ BindFirst \in BOOLEAN
    /\ MaxBinds \in Nat /\ MaxSets \in Nat /\ MaxLegacy \in Nat
    /\ MaxSyncs \in Nat /\ MaxInFlight \in Nat

VARIABLES
    \* server
    exists,                \* vehicles in the pool
    bound,                 \* VehicleCustomState::customModelId
    attr,                  \* its attributes, Unset where the flag is off
    modelAudio,            \* m_modelAudio
    own,                   \* open.mp's paintjob and wheel component
    streamed,              \* vehicles streamed in for the player
    authorized,            \* gPlayers.HasExtendedVeh
    \* client
    bindings,              \* m_bindings
    mainQueue,             \* MainThreadQueue: Binds and Unbinds
    clearAll,              \* m_pendingClearAll
    \* network, and counted for the bounds
    toClient,
    binds, sets, legacy, syncs

registry   == <<bound, attr, modelAudio>>
serverVars == <<exists, registry, own, streamed, authorized>>
clientVars == <<bindings, mainQueue, clearAll>>
counts     == <<binds, sets, legacy, syncs>>
attributesVars == <<serverVars, clientVars, toClient, counts>>

-----------------------------------------------------------------------------
NoAttrs == [a \in Attrs |-> Unset]
NoEntry == [model |-> Unset, attr |-> NoAttrs, present |-> FALSE]
NoOwn   == [a \in {"paintjob", "wheel"} |-> Unset]
OrElse(x, y) == IF x # Unset THEN x ELSE y

BindMsg(v, m)   == [type |-> "Bind", vehicle |-> v, model |-> m]
UnbindMsg(v)    == [type |-> "Unbind", vehicle |-> v]
\* One SetVehicle... packet for each attribute in the domain of f.
SetMsg(v, f)    == [type |-> "Set", vehicle |-> v, attrs |-> f]
One(a, x)       == [b \in {a} |-> x]

\* The server goes on while the client keeps up.
Room == Len(toClient) < MaxInFlight

\* Packets to the player, if it is authorized.
SendVehicle(msgs) == toClient' = IF authorized THEN toClient \o msgs
                                              ELSE toClient

AttributesInit ==
    /\ exists = {} /\ streamed = {} /\ authorized = FALSE
    /\ bound = [v \in Vehicles |-> Unset]
    /\ attr = [v \in Vehicles |-> NoAttrs]
    /\ modelAudio = [m \in Models |-> [a \in ModelAudio |-> Unset]]
    /\ own = [v \in Vehicles |-> NoOwn]
    /\ bindings = [v \in Vehicles |-> NoEntry]
    /\ mainQueue = <<>> /\ clearAll = FALSE /\ toClient = <<>>
    /\ binds = 0 /\ sets = 0 /\ legacy = 0 /\ syncs = 0

-----------------------------------------------------------------------------
(***************************************************************************)
(* The server: vehicles and their models.                                  *)
(***************************************************************************)
Create(v) ==
    /\ v \notin exists
    /\ exists' = exists \cup {v}
    /\ own' = [own EXCEPT ![v] = NoOwn]
    /\ UNCHANGED <<registry, streamed, authorized, clientVars, toClient, counts>>

\* CustomVehicleBindingRegistry::Bind: the attributes stay, and a horn or
\* siren that was not set is taken from the model.
RegistryBind(v, m) ==
    /\ bound' = [bound EXCEPT ![v] = m]
    /\ attr' = [attr EXCEPT ![v] =
           [a \in Attrs |-> IF a \in ModelAudio
                            THEN OrElse(@[a], modelAudio[m][a]) ELSE @[a]]]

\* CustomVehicleBindingRegistry::Unbind erases the vehicle's whole state.
\* Variant: only the model is forgotten.
UnbindModelOnly(v) ==
    /\ bound' = [bound EXCEPT ![v] = Unset]
    /\ UNCHANGED attr
RegistryUnbind(v) ==
    /\ bound' = [bound EXCEPT ![v] = Unset]
    /\ attr' = [attr EXCEPT ![v] = NoAttrs]

BindCustomVehicle(v, m) ==
    /\ v \in exists
    /\ bound[v] # m
    /\ Rebinding \/ bound[v] = Unset
    /\ Room
    /\ binds < MaxBinds /\ binds' = binds + 1
    /\ RegistryBind(v, m)
    /\ SendVehicle(<<BindMsg(v, m)>>)
    /\ UNCHANGED <<exists, modelAudio, own, streamed, authorized, clientVars,
                   sets, legacy, syncs>>

UnbindCustomVehicle(v) ==
    /\ v \in exists
    /\ bound[v] # Unset
    /\ RegistryUnbind(v)
    /\ SendVehicle(<<UnbindMsg(v)>>)
    /\ UNCHANGED <<exists, modelAudio, own, streamed, authorized, clientVars,
                   counts>>

\* The pool's entry goes: OnDestroyVehicle forgets a bound vehicle's state.
\* An attribute of an unbound vehicle stays for the next vehicle of this id.
OnDestroyVehicle(v) ==
    /\ v \in exists
    /\ exists' = exists \ {v}
    /\ streamed' = streamed \ {v}
    /\ IF bound[v] # Unset
       THEN RegistryUnbind(v) /\ SendVehicle(<<UnbindMsg(v)>>)
       ELSE UNCHANGED <<bound, attr, toClient>>
    /\ UNCHANGED <<modelAudio, own, authorized, clientVars, counts>>

-----------------------------------------------------------------------------
(***************************************************************************)
(* The server: one native per attribute.                                   *)
(***************************************************************************)
UnbindUnderWay(v) ==
    \E i \in 1..Len(mainQueue \o toClient) : (mainQueue \o toClient)[i] = UnbindMsg(v)

\* A script may write attributes of vehicle v.
Scripted(v) ==
    /\ v \in exists
    /\ BindFirst => bound[v] # Unset
    /\ DuringUnbind \/ ~UnbindUnderWay(v)
    /\ Room
    /\ sets < MaxSets /\ sets' = sets + 1

\* The registry's setter, and the packet to every authorized player.
SetInRegistry(v, f) ==
    attr' = [attr EXCEPT ![v] = [a \in Attrs |-> IF a \in DOMAIN f THEN f[a]
                                                                 ELSE @[a]]]
SetAndBroadcast(v, f) ==
    /\ Scripted(v)
    /\ SetInRegistry(v, f)
    /\ SendVehicle(<<SetMsg(v, f)>>)
    /\ UNCHANGED <<exists, bound, modelAudio, own, streamed, authorized,
                   clientVars, binds, legacy, syncs>>
\* The plate natives tell only a player for whom the vehicle is streamed in.
SetAndTellStreamed(v, f) ==
    /\ Scripted(v)
    /\ SetInRegistry(v, f)
    /\ IF v \in streamed THEN SendVehicle(<<SetMsg(v, f)>>)
                         ELSE UNCHANGED toClient
    /\ UNCHANGED <<exists, bound, modelAudio, own, streamed, authorized,
                   clientVars, binds, legacy, syncs>>

SetCustomVehicleStance(v, x)     == SetAndBroadcast(v, One("stance", x))
SetCustomVehicleExtras(v, x)     == SetAndBroadcast(v, One("extras", x))
SetCustomVehicleNeon(v, x)       == SetAndBroadcast(v, One("neon", x))
SetCustomVehicleWindowTint(v, x) == SetAndBroadcast(v, One("windowTint", x))
SetCustomVehicleWheelColor(v, x) == SetAndBroadcast(v, One("wheelColor", x))
SetCustomVehicleBackfire(v, x)   == SetAndBroadcast(v, One("backfire", x))
SetCustomVehicleHorn(v, x)       == SetAndBroadcast(v, One("horn", x))
SetCustomVehicleSiren(v, x)      == SetAndBroadcast(v, One("siren", x))
SetCustomVehicleLighting(v, x)   == SetAndBroadcast(v, One("lights", x))
SetCustomVehicleWheel(v, x)      == SetAndBroadcast(v, One("wheel", x))
SetCustomVehicleNumberPlate(v, x) == SetAndTellStreamed(v, One("plate", x))
SetCustomVehiclePlateMesh(v, x)  ==
    \/ SetAndTellStreamed(v, One("frontPlateMesh", x))
    \/ SetAndTellStreamed(v, One("rearPlateMesh", x))
SetCustomVehiclePlateTexture(v, x) ==
    SetAndTellStreamed(v, One("plateTexture", x))

\* Offsets have one flag: the parts a native leaves alone become 0 if they
\* were not set.
SetCustomVehicleOffsets(v, w, c) ==
    SetAndBroadcast(v, [a \in OffsetParts |-> IF a = "wheelOffsets" THEN w
                                                                  ELSE c])
SetCustomVehicleWheelOffsets(v, w) ==
    SetCustomVehicleOffsets(v, w, OrElse(attr[v]["chassisOffset"], Neutral))
SetCustomVehicleChassisOffset(v, c) ==
    SetCustomVehicleOffsets(v, OrElse(attr[v]["wheelOffsets"], Neutral), c)

\* The paintjob is given to open.mp's vehicle, too.
SetCustomVehiclePaintjob(v, x) ==
    /\ Scripted(v)
    /\ SetInRegistry(v, One("paintjob", x))
    /\ own' = [own EXCEPT ![v]["paintjob"] = IF x = Neutral THEN Unset ELSE x]
    /\ SendVehicle(<<SetMsg(v, One("paintjob", x))>>)
    /\ UNCHANGED <<exists, bound, modelAudio, streamed, authorized, clientVars,
                   binds, legacy, syncs>>

\* A model's horn and siren count for the vehicles bound later.
SetModelAudio(m, a, x) ==
    /\ Room
    /\ sets < MaxSets /\ sets' = sets + 1
    /\ modelAudio' = [modelAudio EXCEPT ![m][a] = x]
    /\ UNCHANGED <<exists, bound, attr, own, streamed, authorized, clientVars,
                   toClient, binds, legacy, syncs>>
SetCustomVehicleModelHorn(m, x)  == SetModelAudio(m, "horn", x)
SetCustomVehicleModelSiren(m, x) == SetModelAudio(m, "siren", x)

\* A player has the vehicle painted or fitted with wheels in a shop.
PlayerTunes(v, a, x) ==
    /\ v \in exists /\ Room /\ legacy < MaxLegacy /\ legacy' = legacy + 1
    /\ DuringUnbind \/ ~UnbindUnderWay(v)
    /\ own' = [own EXCEPT ![v][a] = x]
    /\ IF bound[v] # Unset
       THEN SetInRegistry(v, One(a, x)) /\ SendVehicle(<<SetMsg(v, One(a, x))>>)
       ELSE UNCHANGED <<attr, toClient>>
    /\ UNCHANGED <<exists, bound, modelAudio, streamed, authorized, clientVars,
                   binds, sets, syncs>>
onVehiclePaintJob(v, x) == PlayerTunes(v, "paintjob", x)
onVehicleMod(v, x)      == PlayerTunes(v, "wheel", x)

\* open.mp's natives: the component sees no event of them.  The paintjob
\* reaches the client as an RPC of the game.
ChangeVehiclePaintjob(v, x) ==
    /\ v \in exists /\ Room /\ legacy < MaxLegacy /\ legacy' = legacy + 1
    /\ own' = [own EXCEPT ![v]["paintjob"] = x]
    /\ toClient' = IF v \in streamed
                   THEN Append(toClient, [type |-> "Remap", vehicle |-> v,
                                          value |-> x])
                   ELSE toClient
    /\ UNCHANGED <<exists, registry, streamed, authorized, clientVars,
                   binds, sets, syncs>>
AddVehicleComponent(v, x) ==
    /\ v \in exists /\ Room /\ legacy < MaxLegacy /\ legacy' = legacy + 1
    /\ own' = [own EXCEPT ![v]["wheel"] = x]
    /\ UNCHANGED <<exists, registry, streamed, authorized, clientVars,
                   toClient, binds, sets, syncs>>

-----------------------------------------------------------------------------
(***************************************************************************)
(* The server: what one player is told of a vehicle.                       *)
(***************************************************************************)
\* The registry's value, or else open.mp's, or else the model's.
Effective(v, a) ==
    IF attr[v][a] # Unset THEN attr[v][a] ELSE
    CASE a = "paintjob" -> own[v][a]
      [] a = "wheel"    -> OrElse(own[v][a], ModelDefault[bound[v]][a])
      [] a \in OffsetParts \cup {"stance"} -> ModelDefault[bound[v]][a]
      [] OTHER          -> Unset

\* A negative paintjob is not sent.
Synced(v) == {a \in Attrs : /\ Effective(v, a) # Unset
                            /\ ~(a = "paintjob" /\ Effective(v, a) = Neutral)}

SyncCustomVehicleToPlayer(v) ==
    IF bound[v] = Unset THEN <<>>
    ELSE <<BindMsg(v, bound[v]),
           SetMsg(v, [a \in Synced(v) |-> Effective(v, a)])>>

\* The two packets of each of them that is bound, one vehicle after the other.
SyncCustomVehiclesToPlayer ==
    LET told == SetToSeq({v \in streamed : bound[v] # Unset})
    IN [i \in 1..2 * Len(told) |->
            SyncCustomVehicleToPlayer(told[(i + 1) \div 2])[2 - (i % 2)]]

\* The client has run frames since it joined: it is in the world.
onVehicleStreamIn(v) ==
    /\ v \in exists \ streamed /\ ~clearAll
    /\ Room /\ syncs < MaxSyncs /\ syncs' = syncs + 1
    /\ streamed' = streamed \cup {v}
    /\ SendVehicle(SyncCustomVehicleToPlayer(v))
    /\ UNCHANGED <<exists, registry, own, authorized, clientVars, binds, sets,
                   legacy>>
StreamOut(v) ==
    /\ v \in streamed
    /\ streamed' = streamed \ {v}
    /\ UNCHANGED <<exists, registry, own, authorized, clientVars, toClient,
                   counts>>
onPlayerEnterVehicle(v) ==
    /\ v \in streamed /\ Room /\ syncs < MaxSyncs /\ syncs' = syncs + 1
    /\ SendVehicle(SyncCustomVehicleToPlayer(v))
    /\ UNCHANGED <<serverVars, clientVars, binds, sets, legacy>>
onPlayerSpawn ==
    /\ ~clearAll /\ streamed # {} /\ Room
    /\ syncs < MaxSyncs /\ syncs' = syncs + 1
    /\ SendVehicle(SyncCustomVehiclesToPlayer)
    /\ UNCHANGED <<serverVars, clientVars, binds, sets, legacy>>

\* ACTION_INIT arrives: with the flag come the vehicles already streamed in.
\* Variant: the flag alone.
OnPlayerAuthorizedSilently ==
    /\ ~authorized /\ Room
    /\ authorized' = TRUE
    /\ UNCHANGED <<exists, registry, own, streamed, clientVars, toClient, counts>>
OnPlayerAuthorized ==
    /\ ~authorized /\ Room
    /\ authorized' = TRUE
    /\ toClient' = toClient \o SyncCustomVehiclesToPlayer
    /\ UNCHANGED <<exists, registry, own, streamed, clientVars, counts>>

\* The player leaves and comes back: ACTION_RESET_ALL clears the bindings at
\* once, the request to clear again is carried out in the next frame.
Rejoin ==
    /\ authorized /\ syncs < MaxSyncs /\ syncs' = syncs + 1
    /\ authorized' = FALSE /\ streamed' = {} /\ toClient' = <<>>
    /\ bindings' = [v \in Vehicles |-> NoEntry]
    /\ clearAll' = TRUE
    /\ UNCHANGED <<exists, registry, own, mainQueue, binds, sets, legacy>>

-----------------------------------------------------------------------------
(***************************************************************************)
(* The server: what the getters tell a script.                             *)
(***************************************************************************)
Registered(v, a) == IF v \in exists THEN attr[v][a] ELSE Unset

GetCustomVehicleModel(v)      == IF v \in exists THEN bound[v] ELSE Unset
GetCustomVehicleStance(v)     == Registered(v, "stance")
GetCustomVehicleExtras(v)     == Registered(v, "extras")
GetCustomVehicleNeon(v)       == Registered(v, "neon")
GetCustomVehicleWindowTint(v) == Registered(v, "windowTint")
GetCustomVehicleWheelColor(v) == Registered(v, "wheelColor")
GetCustomVehicleBackfire(v)   == Registered(v, "backfire")
GetCustomVehicleHorn(v)       == Registered(v, "horn")
GetCustomVehicleSiren(v)      == Registered(v, "siren")
GetCustomVehicleLighting(v)   == Registered(v, "lights")
GetCustomVehicleWheel(v)      == Registered(v, "wheel")
GetCustomVehicleOffsets(v)    == [a \in OffsetParts |-> Registered(v, a)]
GetCustomVehicleNumberPlate(v)  == Registered(v, "plate")
GetCustomVehiclePlateTexture(v) == Registered(v, "plateTexture")
GetCustomVehiclePlateMesh(v, side) == Registered(v, side)
\* An unset paintjob is open.mp's.
GetCustomVehiclePaintjob(v) == OrElse(Registered(v, "paintjob"),
                                      own[v]["paintjob"])

Told(v, a) ==
    CASE a = "stance"       -> GetCustomVehicleStance(v)
      [] a \in OffsetParts  -> GetCustomVehicleOffsets(v)[a]
      [] a = "extras"       -> GetCustomVehicleExtras(v)
      [] a = "paintjob"     -> GetCustomVehiclePaintjob(v)
      [] a = "neon"         -> GetCustomVehicleNeon(v)
      [] a = "windowTint"   -> GetCustomVehicleWindowTint(v)
      [] a = "wheelColor"   -> GetCustomVehicleWheelColor(v)
      [] a = "backfire"     -> GetCustomVehicleBackfire(v)
      [] a = "horn"         -> GetCustomVehicleHorn(v)
      [] a = "siren"        -> GetCustomVehicleSiren(v)
      [] a = "lights"       -> GetCustomVehicleLighting(v)
      [] a = "wheel"        -> GetCustomVehicleWheel(v)
      [] a = "plate"        -> GetCustomVehicleNumberPlate(v)
      [] a = "plateTexture" -> GetCustomVehiclePlateTexture(v)
      [] OTHER              -> GetCustomVehiclePlateMesh(v, a)

-----------------------------------------------------------------------------
(***************************************************************************)
(* The client.                                                             *)
(***************************************************************************)
\* SetVehiclePaintjob, -WindowTint, -WheelColor, -Wheel, -PlateText and
\* -PlateTexture take a neutral value for none, the others keep it.
Clearable == {"paintjob", "windowTint", "wheelColor", "wheel", "plate",
              "plateTexture"}
Kept(a, x) == IF a \in Clearable /\ x = Neutral THEN Unset ELSE x

SetAttrs(e, f) ==
    [model |-> e.model, present |-> TRUE,
     attr |-> [a \in Attrs |-> IF a \in DOMAIN f THEN Kept(a, f[a])
                                                 ELSE e.attr[a]]]

\* CustomVehicleBindingManager::Bind: a model's offsets and plates fill in
\* what the binding has none of.
FromModel == OffsetParts \cup {"frontPlateMesh", "rearPlateMesh",
                               "plateTexture"}
Bound(e, m) ==
    [model |-> m, present |-> TRUE,
     attr |-> [a \in Attrs |-> IF a \in FromModel
                               THEN OrElse(e.attr[a], ModelDefault[m][a])
                               ELSE e.attr[a]]]

Carry(b, task) ==
    [b EXCEPT ![task.vehicle] = IF task.type = "Bind" THEN Bound(@, task.model)
                                                      ELSE NoEntry]
Carried(b, q) ==
    LET carried[i \in 0..Len(q)] == IF i = 0 THEN b
                                    ELSE Carry(carried[i - 1], q[i])
    IN carried[Len(q)]

\* ProcessAction, on the thread of the RakNet callback.  Hooked_SetRemap
\* keeps the game's paintjob in a binding there is.
Receive ==
    /\ toClient # <<>>
    /\ toClient' = Tail(toClient)
    /\ LET msg == Head(toClient) IN
       CASE msg.type \in {"Bind", "Unbind"} ->
                mainQueue' = Append(mainQueue, msg) /\ UNCHANGED bindings
         [] msg.type = "Set" ->
                /\ bindings' = [bindings EXCEPT ![msg.vehicle] =
                                   SetAttrs(@, msg.attrs)]
                /\ UNCHANGED mainQueue
         [] msg.type = "Remap" ->
                /\ bindings' = [bindings EXCEPT ![msg.vehicle] =
                       IF @.present
                       THEN SetAttrs(@, One("paintjob", msg.value)) ELSE @]
                /\ UNCHANGED mainQueue
    /\ UNCHANGED <<serverVars, clearAll, counts>>

\* OnGameProcess: the queue, then ProcessPendingClearAll.
Frame ==
    /\ mainQueue # <<>> \/ clearAll
    /\ mainQueue' = <<>>
    /\ clearAll' = FALSE
    /\ bindings' = IF clearAll THEN [v \in Vehicles |-> NoEntry]
                  ELSE Carried(bindings, mainQueue)
    /\ UNCHANGED <<serverVars, toClient, counts>>

-----------------------------------------------------------------------------
SetAttribute(v, x) ==
    \/ SetCustomVehicleStance(v, x)
    \/ SetCustomVehicleExtras(v, x)
    \/ SetCustomVehiclePaintjob(v, x)
    \/ SetCustomVehicleNeon(v, x)
    \/ SetCustomVehicleWindowTint(v, x)
    \/ SetCustomVehicleWheelColor(v, x)
    \/ SetCustomVehicleBackfire(v, x)
    \/ SetCustomVehicleHorn(v, x)
    \/ SetCustomVehicleSiren(v, x)
    \/ SetCustomVehicleLighting(v, x)
    \/ SetCustomVehicleWheel(v, x)
    \/ SetCustomVehicleNumberPlate(v, x)
    \/ SetCustomVehiclePlateMesh(v, x)
    \/ SetCustomVehiclePlateTexture(v, x)
    \/ \E y \in Given : SetCustomVehicleOffsets(v, x, y)
    \/ SetCustomVehicleWheelOffsets(v, x)
    \/ SetCustomVehicleChassisOffset(v, x)

Natives ==
    \E v \in Vehicles :
       \/ Create(v)
       \/ OnDestroyVehicle(v)
       \/ \E m \in Models : BindCustomVehicle(v, m)
       \/ UnbindCustomVehicle(v)
       \/ \E x \in Given \cup {Neutral} : SetAttribute(v, x)
       \/ \E x \in Given : \/ onVehiclePaintJob(v, x)
                            \/ onVehicleMod(v, x)
                            \/ ChangeVehiclePaintjob(v, x)
                            \/ AddVehicleComponent(v, x)

AttributesNext ==
    \/ Natives
    \/ \E m \in Models, x \in Given : \/ SetCustomVehicleModelHorn(m, x)
                                      \/ SetCustomVehicleModelSiren(m, x)
    \/ \E v \in Vehicles : \/ onVehicleStreamIn(v)
                           \/ StreamOut(v)
                           \/ onPlayerEnterVehicle(v)
    \/ onPlayerSpawn
    \/ OnPlayerAuthorized
    \/ Rejoin
    \/ Receive
    \/ Frame

AttributesSpec == AttributesInit /\ [][AttributesNext]_attributesVars
-----------------------------------------------------------------------------
\* The packets and tasks are carried out, and the vehicle is in sight of an
\* authorized player.
AtRest == toClient = <<>> /\ mainQueue = <<>> /\ ~clearAll /\ authorized

\* The types of the variables; a binding that is not there holds nothing.
AttributesTypeOK ==
    /\ exists \subseteq Vehicles /\ streamed \subseteq exists
    /\ authorized \in BOOLEAN /\ clearAll \in BOOLEAN
    /\ bound \in [Vehicles -> Models \cup {Unset}]
    /\ attr \in [Vehicles -> [Attrs -> Values \cup {Neutral, Unset}]]
    /\ modelAudio \in [Models -> [ModelAudio -> Values \cup {Unset}]]
    /\ own \in [Vehicles -> [{"paintjob", "wheel"} -> Values \cup {Unset}]]
    /\ \A v \in Vehicles :
          /\ bindings[v].model \in Models \cup {Unset}
          /\ bindings[v].present \in BOOLEAN
          /\ bindings[v].attr \in [Attrs -> Values \cup {Neutral, Unset}]
          /\ ~bindings[v].present => bindings[v] = NoEntry
    /\ \A i \in 1..Len(mainQueue) :
          /\ mainQueue[i].type \in {"Bind", "Unbind"}
          /\ mainQueue[i].vehicle \in Vehicles
          /\ mainQueue[i].type = "Bind" => mainQueue[i].model \in Models

\* What the client may have of an attribute when it is at rest.
Agreed(v, a) ==
    IF Told(v, a) # Unset
    THEN {Kept(a, Told(v, a))}
         \cup (IF a = "plateTexture" /\ Told(v, a) = Neutral
               THEN {ModelDefault[bound[v]][a]} ELSE {})
         \cup (IF a = "paintjob" THEN {own[v][a]} ELSE {})
         \cup (IF a = "paintjob" /\ attr[v][a] = Neutral /\ own[v][a] # Unset
               THEN Values ELSE {})
         \cup (IF \/ a \in ModelAudio
                  \/ a = "paintjob" /\ attr[v][a] = Unset
               THEN {Unset} ELSE {})
    ELSE {Unset, ModelDefault[bound[v]][a]}
         \cup (IF a = "wheel" THEN Values ELSE {})

\* A client at rest shows a bound vehicle in its sight with the model and
\* every attribute that the getters tell a script of, and with no attribute
\* of another model or of an earlier owner of the vehicle's id.  Excused are
\* a paintjob that open.mp changed - if a script had taken the vehicle's away,
\* the full state leaves it out, and an older one may stay -, a wheel it
\* fitted, and a horn or siren that Bind took from the model, of which no packet
\* tells the client; and an empty plate texture, which the model's replaces
\* when the delayed Bind comes after it.
AttributesAgree ==
    AtRest => \A v \in streamed : GetCustomVehicleModel(v) # Unset =>
        /\ bindings[v].model = GetCustomVehicleModel(v)
        /\ \A a \in Attrs : bindings[v].attr[a] \in Agreed(v, a)

\* Nothing of a destroyed vehicle is left for the next one of its id: not in
\* the registry, and not in the bindings of a client at rest.
NothingSurvives ==
    \A v \in Vehicles \ exists :
        /\ bound[v] = Unset /\ attr[v] = NoAttrs
        /\ AtRest => bindings[v] = NoEntry
=============================================================================
