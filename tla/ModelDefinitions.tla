--------------------------- MODULE ModelDefinitions ---------------------------
(***************************************************************************)
(* The server's custom vehicle definitions (src/Server/src/                *)
(* HandlingManager.cpp, from UnregisterCustomVehicle on, and the natives   *)
(* of Natives.h that call it), and what it tells one player of them.       *)
(*                                                                         *)
(* A definition is staged by Begin, gets its assets, is committed and from *)
(* then on sent to everyone; most natives change the staged and the        *)
(* committed copy, and send the committed one again.  What matters of the  *)
(* several dozen fields is which of them a native writes together, so they *)
(* are grouped; a value is a member of Values, 0 being what a new          *)
(* definition has.                                                         *)
(*                                                                         *)
(* "wire" is what is on its way to the player, on one ordered channel.     *)
(***************************************************************************)
EXTENDS Naturals, FiniteSets, SequencesExt

CONSTANTS
    Models,               \* custom model ids
    Values,               \* values of a field or of a handling attribute
    Attributes,           \* handling attributes
    Lights,               \* HANDL_FRONTLIGHTS and HANDL_REARLIGHTS
    Inis,                 \* what a parsed model.ini may hold, or NoIni
    Found,                \* sets of assets a model may have in its directory
    None, NoIni,
    Reloading,            \* scripts load the ini of a model again once it is
                          \*   committed
    Restaging,            \* scripts begin a definition that is committed, or
                          \*   destroy one that is staged
    MaxCalls,             \* bound: natives called, but for those of assets
    MaxWire               \* bound: packets on their way

AudioKinds == {"engine", "accel"}    \* of five
Kinds == {"dff", "txd", "col"} \cup AudioKinds

\* The fields by what the client does with them: it uses the first group only
\* when it creates the model, and keeps the others apart from it.
CreationFields == {"class", "wheel", "scale", "lighting"}
OffsetFields   == {"wheelOffsets", "chassis", "stance"}
PlateFields    == {"texture", "textSize", "mesh"}
Fields == CreationFields \cup OffsetFields \cup PlateFields \cup {"text"}

ASSUME DefinitionsAssumption ==
    /\ IsFiniteSet(Models)
    /\ Values \subseteq Nat /\ 0 \in Values
    /\ Lights \subseteq Attributes
    /\ None \notin Values \cup Models
    /\ Found \subseteq SUBSET Kinds
    /\ Reloading \in BOOLEAN /\ Restaging \in BOOLEAN
    /\ MaxCalls \in Nat /\ MaxWire \in Nat

VARIABLES
    staged, defs,         \* stagedCustomVehicleDefs, customVehicleDefs
    registered,           \* customVehicleModels
    handling,             \* gCustomModelHandlings
    configs,              \* the models in customVehicleConfigs
    outgoing,             \* usOutgoingModelMods
    directory, ini,       \* a model's assets on disk, its parsed model.ini
    connected, extended,  \* the player's IPlayer, and gPlayers
    wire,                 \* packets on their way to the player
    serverCalls           \* natives called so far

serverVars == <<staged, defs, registered, handling, configs, outgoing,
                directory, ini, connected, extended, wire, serverCalls>>

-----------------------------------------------------------------------------
NewDef == [assets |-> {}, fields |-> [x \in Fields |-> 0]]

\* A parsed ini: the sections it has, the value its lines give, and the
\* handling attributes among them.
IniOf(sections, value, mods) ==
    [sections |-> sections, value |-> value,
     mods |-> [a \in Attributes |-> IF a \in mods THEN value ELSE None]]
Sections == {"ide", "handling", "lighting", "offsets", "plate", "audio"}

ASSUME InisAssumption ==
    Inis \subseteq {NoIni} \cup [sections : SUBSET Sections, value : Values,
                              mods : [Attributes -> Values \cup {None}]]

NewHandling == [data |-> [a \in Attributes |-> 0],
                mods |-> [a \in Attributes |-> None]]
HasMods(h)  == h # None /\ \E a \in Attributes : h.mods[a] # None

\* Packets.
DefinePacket(m, d)   == [type |-> "define", model |-> m, def |-> d]
DestroyPacket(m)     == [type |-> "destroy", model |-> m]
PlatePacket(m, d)    == [type |-> "plate", model |-> m,
                         def |-> d]
HandlingPacket(m, h) == [type |-> "handling", model |-> m, mods |-> h.mods]

\* SendCustomVehicleDefToAll goes to every player, the plate and handling
\* packets only to those with the plugin.
Post(packets, ready) ==
    /\ Len(wire) + (IF ready THEN Len(packets) ELSE 0) <= MaxWire
    /\ wire' = IF ready THEN wire \o packets ELSE wire
SendCustomVehicleDef(m, d) ==
    Post(IF d = None THEN <<>> ELSE <<DefinePacket(m, d)>>, connected)
SendModelPlateConfig(m, d) ==
    Post(IF d = None THEN <<>> ELSE <<PlatePacket(m, d)>>, extended)
SendNothing == UNCHANGED wire

Called == serverCalls < MaxCalls /\ serverCalls' = serverCalls + 1
PlayerUnchanged == UNCHANGED <<connected, extended, directory, ini>>

ServerInit ==
    /\ staged = [m \in Models |-> None] /\ defs = [m \in Models |-> None]
    /\ registered = {} /\ configs = {} /\ outgoing = {}
    /\ handling = [m \in Models |-> None]
    /\ directory \in [Models -> Found] /\ ini \in [Models -> Inis]
    /\ connected = FALSE /\ extended = FALSE
    /\ wire = <<>> /\ serverCalls = 0

-----------------------------------------------------------------------------
(* The model.ini of a model. *)

\* What the ini makes of a definition: the offsets and the text size it does
\* not give go back to their defaults, the other fields stay, and the sounds
\* it names become assets when the directory has them.
Given(c, section, old) == IF section \in c.sections THEN c.value ELSE old
IdeApplied(d, c) ==
    [d EXCEPT !.fields = [x \in Fields |->
        IF x \in {"class", "wheel", "scale"} THEN Given(c, "ide", @[x])
                                             ELSE @[x]]]
SettingsApplied(d, c) ==
    [IdeApplied(d, c) EXCEPT !.fields = [x \in Fields |->
        CASE x = "lighting"                    -> Given(c, "lighting", @[x])
          [] x \in OffsetFields                -> Given(c, "offsets", 0)
          [] x = "textSize"                    -> Given(c, "plate", 0)
          [] x \in {"text", "texture", "mesh"} -> Given(c, "plate", @[x])
          [] OTHER                             -> @[x]]]
ConfigApplied(d, m) ==
    IF d = None \/ ini[m] = NoIni THEN d
    ELSE [SettingsApplied(d, ini[m]) EXCEPT !.assets =
            IF "audio" \in ini[m].sections
            THEN @ \cup (directory[m] \cap AudioKinds) ELSE @]

\* The data becomes the ini's, and the lights of an earlier modification stay
\* unless the ini gives them; the other modifications stay in the map only.
HandlingLoaded(h, c) ==
    LET kept(a) == a \in Lights /\ h.mods[a] # None IN
    [data |-> [a \in Attributes |->
                 IF c.mods[a] # None THEN c.mods[a]
                 ELSE IF kept(a) THEN h.data[a] ELSE 0],
     mods |-> [a \in Attributes |->
                 IF c.mods[a] # None THEN c.mods[a]
                 ELSE IF kept(a) THEN h.data[a] ELSE h.mods[a]]]

\* What LoadCustomVehicleConfig does, with the handling entry it finds: with
\* an IDE section a committed definition is sent before the rest is applied,
\* and the rest is not sent.
Has(m, section) == ini[m] # NoIni /\ section \in ini[m].sections
HandlingOf(m) == IF handling[m] = None THEN NewHandling ELSE handling[m]
LoadedHandling(m, h) ==
    IF Has(m, "handling") THEN HandlingLoaded(h, ini[m]) ELSE h
LoadedDefs(m) == [defs EXCEPT ![m] = ConfigApplied(@, m)]
LoadedOutgoing(m) ==
    IF Has(m, "handling") /\ defs[m] # None THEN outgoing \cup {m} ELSE outgoing
LoadedConfigs(m) == IF ini[m] = NoIni THEN configs ELSE configs \cup {m}
LoadPackets(m) ==
    IF Has(m, "ide") /\ defs[m] # None
    THEN <<DefinePacket(m, IdeApplied(defs[m], ini[m]))>> ELSE <<>>

LoadCustomVehicleConfig(m) ==
    /\ Called
    /\ Reloading \/ defs[m] = None
    /\ ini[m] # NoIni
    /\ staged' = [staged EXCEPT ![m] = ConfigApplied(@, m)]
    /\ defs' = LoadedDefs(m)
    /\ configs' = LoadedConfigs(m)
    /\ handling' = IF Has(m, "handling")
                   THEN [handling EXCEPT ![m] = LoadedHandling(m, HandlingOf(m))]
                   ELSE handling
    /\ outgoing' = LoadedOutgoing(m)
    /\ Post(LoadPackets(m), connected)
    /\ UNCHANGED registered /\ PlayerUnchanged

-----------------------------------------------------------------------------
(* A definition from Begin to Destroy. *)

\* BeginCustomVehicleDef: whatever was staged is lost, and the handling of the
\* model starts anew, also that of a committed one, which no client is told.
\* Then the ini is loaded, for a committed definition as well.
BegunDef(m) == ConfigApplied(NewDef, m)
Begun(m) ==
    /\ registered' = registered \cup {m}
    /\ handling' = [handling EXCEPT ![m] = LoadedHandling(m, NewHandling)]
    /\ configs' = LoadedConfigs(m)
BeginCustomVehicleDef(m) ==
    /\ Called
    /\ Restaging \/ defs[m] = None
    /\ Begun(m)
    /\ staged' = [staged EXCEPT ![m] = BegunDef(m)]
    /\ defs' = LoadedDefs(m)
    /\ outgoing' = LoadedOutgoing(m)
    /\ Post(LoadPackets(m), connected)
    /\ PlayerUnchanged

\* SetCustomVehicleAsset of a file the directory has.
SetCustomVehicleAsset(m, kind) ==
    /\ staged[m] # None /\ kind \in directory[m]
    /\ staged' = [staged EXCEPT ![m].assets = @ \cup {kind}]
    /\ SendNothing
    /\ UNCHANGED <<defs, registered, handling, configs, outgoing, serverCalls>>
    /\ PlayerUnchanged
SetCustomVehicleDff(m) == SetCustomVehicleAsset(m, "dff")
SetCustomVehicleTxd(m) == SetCustomVehicleAsset(m, "txd")
SetCustomVehicleCol(m) == SetCustomVehicleAsset(m, "col")

\* CommitCustomVehicleDef of a definition with both essential assets: it is
\* sent, and so is the handling with the next tick.
Committable(d) == d # None /\ {"dff", "txd"} \subseteq d.assets
Commit(m, d, h, before) ==
    /\ staged' = [staged EXCEPT ![m] = None]
    /\ defs' = [defs EXCEPT ![m] = d]
    /\ outgoing' = IF HasMods(h) THEN outgoing \cup {m} ELSE outgoing
    /\ Post(Append(before, DefinePacket(m, d)), connected)
CommitCustomVehicleDef(m) ==
    /\ Called
    /\ Committable(staged[m])
    /\ Commit(m, staged[m], handling[m], <<>>)
    /\ UNCHANGED <<registered, handling, configs>> /\ PlayerUnchanged

\* DefineCustomVehicleFromConfig: all of it in one call.  When an essential
\* asset is missing, the staged definition is dropped and the rest stays.
DefineCustomVehicleFromConfig(m) ==
    LET d == [BegunDef(m) EXCEPT
                !.assets = @ \cup (directory[m] \ AudioKinds)] IN
    /\ Called
    /\ Restaging \/ defs[m] = None
    /\ Begun(m)
    /\ IF Committable(d)
       THEN Commit(m, d, LoadedHandling(m, NewHandling), LoadPackets(m))
       ELSE /\ staged' = [staged EXCEPT ![m] = None]
            /\ defs' = LoadedDefs(m)
            /\ outgoing' = LoadedOutgoing(m)
            /\ Post(LoadPackets(m), connected)
    /\ PlayerUnchanged

\* DestroyCustomVehicle.  What is staged stays staged.
DestroyCustomVehicle(m) ==
    /\ Called
    /\ m \in registered
    /\ Restaging \/ staged[m] = None
    /\ defs' = [defs EXCEPT ![m] = None]
    /\ registered' = registered \ {m}
    /\ handling' = [handling EXCEPT ![m] = None]
    /\ configs' = configs \ {m}
    /\ Post(<<DestroyPacket(m)>>, connected)
    /\ UNCHANGED <<staged, outgoing>> /\ PlayerUnchanged

-----------------------------------------------------------------------------
(* The natives that change a definition, staged or committed. *)

Set(d, S, v) ==
    IF d = None THEN None
    ELSE [d EXCEPT !.fields = [x \in Fields |-> IF x \in S THEN v ELSE @[x]]]
Change(m, S, v) ==
    /\ Called
    /\ staged[m] # None \/ defs[m] # None
    /\ staged' = [staged EXCEPT ![m] = Set(@, S, v)]
    /\ defs' = [defs EXCEPT ![m] = Set(@, S, v)]
    /\ UNCHANGED <<registered, handling, configs, outgoing>> /\ PlayerUnchanged
ChangeAndDefine(m, S, v) ==
    Change(m, S, v) /\ SendCustomVehicleDef(m, Set(defs[m], S, v))
ChangePlate(m, S, v) ==
    Change(m, S, v) /\ SendModelPlateConfig(m, Set(defs[m], S, v))

SetCustomVehicleModelInfo(m, v) ==
    ChangeAndDefine(m, {"class", "wheel", "scale"}, v)
SetCustomVehicleWheelModel(m, v)  == ChangeAndDefine(m, {"wheel"}, v)
SetCustomVehicleWheelScale(m, v)  == ChangeAndDefine(m, {"scale"}, v)
SetCustomVehicleLightingOffset(m, v) == ChangeAndDefine(m, {"lighting"}, v)
SetCustomVehicleModelOffsets(m, v) ==
    ChangeAndDefine(m, {"wheelOffsets", "chassis"}, v)
SetCustomVehicleModelWheelOffsets(m, v) ==
    ChangeAndDefine(m, {"wheelOffsets"}, v)
SetCustomVehicleModelChassisOffset(m, v) == ChangeAndDefine(m, {"chassis"}, v)
SetCustomVehicleModelStance(m, v)        == ChangeAndDefine(m, {"stance"}, v)
SetCustomVehicleModelPlateText(m, v)     == ChangeAndDefine(m, {"text"}, v)
SetCustomVehicleModelPlateTexture(m, v)  == ChangePlate(m, {"texture"}, v)
SetCustomVehicleModelPlateTextSize(m, v) == ChangePlate(m, {"textSize"}, v)
SetCustomVehicleModelPlateMesh(m, v)     == ChangePlate(m, {"mesh"}, v)

\* The getters read the committed definition first (those of the wheels, which are
\* left out, the staged one).
First(d, e) == IF d # None THEN d ELSE e
GetField(m, x) ==
    LET d == First(defs[m], staged[m]) IN IF d = None THEN None ELSE d.fields[x]

\* SetModelHandling of a custom model, and the tick that sends what changed.
SetModelHandling(m, a, v) ==
    /\ Called
    /\ handling[m] # None
    /\ handling' = [handling EXCEPT ![m].data[a] = v, ![m].mods[a] = v]
    /\ outgoing' = outgoing \cup {m}
    /\ SendNothing
    /\ UNCHANGED <<staged, defs, registered, configs>> /\ PlayerUnchanged
ProcessTick ==
    LET sent == SetToSeq({m \in outgoing : HasMods(handling[m])}) IN
    /\ outgoing # {}
    /\ outgoing' = {}
    /\ Post([i \in DOMAIN sent |-> HandlingPacket(sent[i], handling[sent[i]])],
            extended)
    /\ UNCHANGED <<staged, defs, registered, handling, configs, serverCalls>>
    /\ PlayerUnchanged

\* OnPlayerAuthorized, after the answer to the player's ACTION_INIT: the
\* handling of the models, then their definitions.
AuthorizedPackets ==
    LET modded == SetToSeq({m \in Models : HasMods(handling[m])})
        known  == SetToSeq({m \in Models : defs[m] # None})
    IN <<[type |-> "authorized", model |-> None]>>
       \o [i \in DOMAIN modded |->
              HandlingPacket(modded[i], handling[modded[i]])]
       \o [i \in DOMAIN known |-> DefinePacket(known[i], defs[known[i]])]
OnPlayerAuthorized ==
    /\ connected /\ ~extended
    /\ extended' = TRUE
    /\ wire' = wire \o AuthorizedPackets
    /\ UNCHANGED <<staged, defs, registered, handling, configs, outgoing,
                   directory, ini, connected, serverCalls>>

ServerSet(m, v) ==
    \/ SetCustomVehicleModelInfo(m, v) \/ SetCustomVehicleWheelModel(m, v)
    \/ SetCustomVehicleWheelScale(m, v) \/ SetCustomVehicleLightingOffset(m, v)
    \/ SetCustomVehicleModelOffsets(m, v)
    \/ SetCustomVehicleModelWheelOffsets(m, v)
    \/ SetCustomVehicleModelChassisOffset(m, v)
    \/ SetCustomVehicleModelStance(m, v) \/ SetCustomVehicleModelPlateText(m, v)
    \/ SetCustomVehicleModelPlateTexture(m, v)
    \/ SetCustomVehicleModelPlateTextSize(m, v)
    \/ SetCustomVehicleModelPlateMesh(m, v)
ServerNext ==
    \/ \E m \in Models :
        \/ LoadCustomVehicleConfig(m) \/ BeginCustomVehicleDef(m)
        \/ SetCustomVehicleDff(m) \/ SetCustomVehicleTxd(m)
        \/ SetCustomVehicleCol(m) \/ CommitCustomVehicleDef(m)
        \/ DefineCustomVehicleFromConfig(m) \/ DestroyCustomVehicle(m)
        \/ \E v \in Values : ServerSet(m, v)
        \/ \E a \in Attributes, v \in Values : SetModelHandling(m, a, v)
    \/ ProcessTick \/ OnPlayerAuthorized

-----------------------------------------------------------------------------
DefRecords == [assets : SUBSET Kinds, fields : [Fields -> Values]]
HandlingRecords == [data : [Attributes -> Values],
                    mods : [Attributes -> Values \cup {None}]]

Packets ==
    [type : {"define", "plate"}, model : Models, def : DefRecords]
    \cup [type : {"destroy"}, model : Models]
    \cup [type : {"handling"}, model : Models,
          mods : [Attributes -> Values \cup {None}]]
    \cup [type : {"authorized"}, model : {None}]

ServerTypeOK ==
    /\ staged \in [Models -> DefRecords \cup {None}]
    /\ defs \in [Models -> DefRecords \cup {None}]
    /\ registered \subseteq Models /\ configs \subseteq Models
    /\ outgoing \subseteq Models
    /\ handling \in [Models -> HandlingRecords \cup {None}]
    /\ directory \in [Models -> SUBSET Kinds]
    /\ connected \in BOOLEAN /\ extended \in BOOLEAN
    /\ ini \in [Models -> Inis]
    /\ wire \in Seq(Packets)
    /\ serverCalls \in 0..MaxCalls
=============================================================================
