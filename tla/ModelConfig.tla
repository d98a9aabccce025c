----------------------------- MODULE ModelConfig -----------------------------
(***************************************************************************)
(* The parser of model.ini (src/Server/src/ModelConfigParser.cpp,          *)
(* ParseString), one line a step.                                          *)
(*                                                                         *)
(* A line is a header or "key = value".  A key stands for its spellings,   *)
(* and a value for what the parsers of values make of it: an integer, Bad  *)
(* when they refuse it, a sequence for a list.  Floats are hundredths, a   *)
(* character is its code, a vehicle's or a part's name the id it resolves  *)
(* to, a text a number.  Most keys write one or two fields when their      *)
(* value is in range: those are tables.  The handling, the tuning parts,   *)
(* the colours and the plate meshes depend on the lines before.            *)
(***************************************************************************)
EXTENDS Integers, FiniteSets, SequencesExt, TLC

CONSTANTS
    Lines,                \* lines a file may have: section, side (of a plate's
                          \*   mesh), key and value
    DefaultHandling,      \* the data of each stock vehicle, by attribute
    CommittedBase,        \* the stock vehicle each committed model is based on
    FallbackBase,         \* whose handling a model starts from
    PartId,               \* the component a part name resolves to, or Bad
    Bad,                  \* a value the parsers refuse
    Unread,               \* the modification, or the key, is not there
    MaxLines              \* bound: lines with a key in a file

Landstalker == 400
Attributes == DOMAIN DefaultHandling[Landstalker]

\* The handling of all vehicles has the same attributes; a list is a list.
Sides == {"front", "rear"}
ASSUME ConfigAssumption ==
    /\ Landstalker \in DOMAIN DefaultHandling
    /\ \A v \in DOMAIN DefaultHandling : DOMAIN DefaultHandling[v] = Attributes
    /\ \A m \in DOMAIN CommittedBase : CommittedBase[m] \in DOMAIN DefaultHandling
    /\ Bad \notin Int /\ Unread \notin Int
    /\ MaxLines \in Nat
    /\ \A l \in Lines :
          /\ l.section = "carmods" => l.val \in Seq(DOMAIN PartId)
          /\ l.section = "carcols" /\ l.key \in {"variations", "variation"} =>
                l.val \in Seq(Seq(Int \cup {Bad}))
          /\ l.section = "plate" /\ l.side \in Sides =>
                l.val \in IF l.key = "list" THEN Seq(Int \cup {Bad})
                         ELSE Int \cup {Bad}

VARIABLES
    section,              \* currentSection
    has,                  \* the sections found: hasIde, hasHandling, ...
    fields,               \* the fields of outConfig that have a table
    handlingData, handlingMods,
    modNames, modIds, categorizedMods,
    colorVariations,
    mesh,                 \* frontPlateMesh, rearPlateMesh
    explicit,             \* frontPlateExplicitEnabled, ..., ExplicitRotZ
    customProperties,
    read                  \* the lines with a key so far

configVars == <<section, has, fields, handlingData, handlingMods, modNames,
                modIds, categorizedMods, colorVariations, mesh, explicit,
                customProperties, read>>

-----------------------------------------------------------------------------
(* The tables: the fields a key writes, and the values it accepts. *)

To(S, values) == [to |-> S, values |-> values]
Texts == Int \cup {Bad}
Files == Nat
StockVehicles  == 400..611
VehicleOrCustom == StockVehicles \cup (20000..65535)
Sounds == -1..32767
Flag   == {0, 1}
Colour == 0..255

ModelKeys ==
    [name           |-> To({"name"}, Texts),
     visualbase     |-> To({"visualBase"}, StockVehicles),
     audiobase      |-> To({"audioBase"}, VehicleOrCustom),
     handlingbase   |-> To({"handlingBase"}, VehicleOrCustom),
     engineonsound  |-> To({"engineOnSound"}, Sounds),
     engineoffsound |-> To({"engineOffSound"}, Sounds),
     acceleratesound |-> To({"accelerateSound"}, Sounds),
     deceleratesound |-> To({"decelerateSound"}, Sounds),
     platetext      |-> To({"plateText"}, Texts),
     platetextsize  |-> To({"plateTextSize"}, 1..16),
     targettexture  |-> To({"targetTexture"}, Texts)]

IdeKeys ==
    [vehicletype     |-> To({"vehicleType"}, Texts),
     frequency       |-> To({"frequency"}, 0..100),
     level           |-> To({"level"}, 0..10),
     comprules       |-> To({"compRules"}, 0..255),
     wheelmodelid    |-> To({"wheelModelId"}, {-1, 1025} \cup (1073..1098)),
     wheelscalefront |-> To({"wheelScaleFront"}, 5..500),
     wheelscalerear  |-> To({"wheelScaleRear"}, 5..500),
     wheelscale      |-> To({"wheelScaleFront", "wheelScaleRear"}, 5..500),
     wheelupgradeclass |-> To({"wheelUpgradeClass"}, 0..255),
     numextras       |-> To({"numExtras"}, 0..6)]

FlagKeys ==
    [hassiren    |-> To({"hasSiren"}, Flag),
     sirentype   |-> To({"sirenType"}, 0..2),
     hasbackfire |-> To({"hasBackfire"}, Flag),
     hornsound   |-> To({"hornSound"}, -1..20),
     hornpitch   |-> To({"hornPitch"}, 10..500),
     lightingcategory |-> To({"lightingCategory"}, -1..7),
     lightscale  |-> To({"lightScale"}, 10..1000)]

LightingFields ==
    {"headlightOffsetX", "headlightOffsetY", "headlightOffsetZ",
     "taillightOffsetX", "taillightOffsetY", "taillightOffsetZ",
     "headlightX", "headlightY", "headlightZ",
     "taillightX", "taillightY", "taillightZ"}
LightingKeys == [f \in LightingFields |-> To({f}, -1000..1000)]

\* A key without "front" or "rear" is for both axles.
Axles ==
    [wheelOffsetZ |-> {"frontWheelOffsetZ", "rearWheelOffsetZ"},
     wheelOffsetY |-> {"frontWheelOffsetY", "rearWheelOffsetY"},
     trackWidth   |-> {"frontTrackWidth", "rearTrackWidth"},
     wheelScale   |-> {"frontWheelScale", "rearWheelScale"},
     camber       |-> {"frontCamber", "rearCamber"}]
AxleFields == UNION {Axles[k] : k \in DOMAIN Axles}
OffsetFields == AxleFields \cup {"chassisOffsetX", "chassisOffsetY",
                                 "chassisOffsetZ"}
OffsetKeys == [k \in OffsetFields \cup DOMAIN Axles |->
                  To(IF k \in DOMAIN Axles THEN Axles[k] ELSE {k}, Int)]

AudioKeys ==
    [engine         |-> To({"engineFile"}, Files),
     acceleration   |-> To({"accelerationFile"}, Files),
     deacceleration |-> To({"deaccelerationFile"}, Files),
     brake          |-> To({"brakeFile"}, Files),
     crash          |-> To({"crashFile"}, Files),
     volume         |-> To({"audioVolume"}, 0..100),
     mindistance    |-> To({"audioMinDistance"}, 10..50000),
     maxdistance    |-> To({"audioMaxDistance"}, 100..200000),
     pitchmultiplier  |-> To({"audioPitchMultiplier"}, 10..400),
     accelpitchfactor |-> To({"audioAccelPitchFactor"}, 0..300),
     mutenative     |-> To({"audioMuteNative"}, Flag)]

ColourKeys ==
    [primary    |-> To({"defaultPrimaryColor"}, Colour),
     secondary  |-> To({"defaultSecondaryColor"}, Colour),
     tertiary   |-> To({"defaultTertiaryColor"}, Colour),
     quaternary |-> To({"defaultQuaternaryColor"}, Colour)]
PlateTexts ==
    [text          |-> To({"plateText"}, Texts),
     targettexture |-> To({"targetTexture"}, Texts)]

Tables == [model |-> ModelKeys, ide |-> IdeKeys, flags |-> FlagKeys,
           lighting |-> LightingKeys, offsets |-> OffsetKeys,
           audio |-> AudioKeys, carcols |-> ColourKeys, plate |-> PlateTexts]
Section == DOMAIN Tables \cup {"handling", "carmods", "unknown"}

\* The fields that are not 0, or empty, to begin with.
Defaults ==
    [plateTextSize |-> 16, engineOnSound |-> -1, engineOffSound |-> -1,
     accelerateSound |-> -1, decelerateSound |-> -1, frequency |-> 10,
     wheelModelId |-> -1, wheelScaleFront |-> 100, wheelScaleRear |-> 100,
     defaultPrimaryColor |-> 1, defaultSecondaryColor |-> 1, sirenType |-> 1,
     hornPitch |-> 100, lightingCategory |-> -1, lightScale |-> 100,
     frontWheelScale |-> 100, rearWheelScale |-> 100, audioVolume |-> 100,
     audioMinDistance |-> 500, audioMaxDistance |-> 9000,
     audioPitchMultiplier |-> 100, audioAccelPitchFactor |-> 50,
     audioMuteNative |-> 1]
FieldsOf(s) == UNION {Tables[s][k].to : k \in DOMAIN Tables[s]}
Fields == UNION {FieldsOf(s) : s \in DOMAIN Tables} \cup {"vehicleClass"}
FieldDefault(f) == IF f \in DOMAIN Defaults THEN Defaults[f] ELSE 0

\* IsValidHandlingValue, and the attributes written as they are.  The bytes are
\* cut to eight bits before they are checked.
Bytes ==
    [percentSubmerged |-> 1..255, numberOfGears |-> 1..6, frontLights |-> 0..3,
     rearLights |-> 0..3, animGroup |-> 0..255]
Characters == [driveType |-> {82, 70, 52}, engineType |-> {80, 68, 69}]
Floats ==
    [mass |-> 100..5000000, turnMass |-> 0..5000000, dragMult |-> -20000..20000,
     centreOfMassX |-> -1000..1000, centreOfMassY |-> -1000..1000,
     centreOfMassZ |-> -1000..1000, tractionMultiplier |-> -10000..10000,
     tractionLoss |-> 0..10000, tractionBias |-> 0..100,
     maxVelocity |-> 10..1000000, engineAcceleration |-> 0..1000000,
     engineInertia |-> (-100000..-1) \cup (1..100000),
     brakeDeceleration |-> 10..1000000, brakeBias |-> 0..100,
     steeringLock |-> 0..36000, suspensionForceLevel |-> 0..60000,
     suspensionDampingLevel |-> 0..60000,
     suspensionHighSpdComDamp |-> 0..60000,
     suspensionUpperLimit |-> -5000..5000, suspensionLowerLimit |-> -5000..5000,
     suspensionBias |-> 0..100, suspensionAntiDiveMultiplier |-> 0..3000,
     seatOffsetDistance |-> -2000..2000, collisionDamageMultiplier |-> 0..1000]
Words == [abs |-> Flag, monetaryValue |-> Int, modelFlags |-> Int,
          handlingFlags |-> Int]
HandlingKeys == Bytes @@ Characters @@ Floats @@ Words
Written(a, v) == IF a \in DOMAIN Bytes THEN v % 256 ELSE v
IsValidHandlingValue(a, v) ==
    a \in DOMAIN HandlingKeys /\ v # Bad /\ Written(a, v) \in HandlingKeys[a]

\* copyDefaultModelHandling.
CopyDefault(v) ==
    IF v \in DOMAIN DefaultHandling THEN DefaultHandling[v]
    ELSE DefaultHandling[IF v \in DOMAIN CommittedBase THEN CommittedBase[v]
                         ELSE Landstalker]

NoMesh == [enabled |-> 0, x |-> 0, y |-> 0, z |-> 0, rotX |-> 0, rotY |-> 0,
           rotZ |-> 0, scale |-> 100]
ConfigInit ==
    /\ section = "model" /\ has = {}
    /\ fields = [f \in Fields |-> FieldDefault(f)]
    /\ handlingData = CopyDefault(FallbackBase)
    /\ handlingMods = [a \in Attributes |-> Unread]
    /\ modNames = <<>> /\ modIds = <<>> /\ categorizedMods = <<>>
    /\ colorVariations = <<>>
    /\ mesh = [s \in Sides |-> NoMesh] /\ explicit = {}
    /\ customProperties = <<>>
    /\ read = <<>>

-----------------------------------------------------------------------------
(* The lines. *)

\* A map with one key more, or with another value for it.
With(f, k, v) == [x \in {k} \cup DOMAIN f |-> IF x = k THEN v ELSE f[x]]

Header(s) ==
    /\ section' = s
    /\ UNCHANGED <<has, fields, handlingData, handlingMods, modNames, modIds,
                   categorizedMods, colorVariations, mesh, explicit,
                   customProperties, read>>

\* Every key is kept, with and without its section.
Remembered(l) ==
    With(With(customProperties, <<section, l.side, l.key>>, l.val),
         <<"", l.side, l.key>>, l.val)
Reading(l) ==
    /\ Len(read) < MaxLines /\ l.section = section
    /\ read' = Append(read, l)
    /\ customProperties' = Remembered(l)
    /\ UNCHANGED section

\* What a table says of a key: its fields, if the value is accepted.
Accepted(l) == /\ l.section \in DOMAIN Tables
               /\ l.key \in DOMAIN Tables[l.section]
               /\ l.val \in Tables[l.section][l.key].values
FieldsAfter(l) ==
    IF Accepted(l)
    THEN [f \in Fields |-> IF f \in Tables[l.section][l.key].to THEN l.val
                           ELSE fields[f]]
    ELSE fields

\* [model].  The base's handling replaces what was there, and leaves the
\* modifications; a plate's size and texture count as a plate configuration.
\* Variant: it replaces nothing once there is a [handling].
DataAfterFirst(l) ==
    IF l.key = "handlingbase" /\ Accepted(l) /\ "handling" \notin has
    THEN CopyDefault(l.val) ELSE handlingData
DataAfter(l) ==
    IF l.key = "handlingbase" /\ Accepted(l) THEN CopyDefault(l.val)
    ELSE handlingData
ModelLine(l) ==
    /\ Reading(l) /\ section = "model"
    /\ fields' = FieldsAfter(l)
    /\ has' = IF l.key = "targettexture" \/
                 (l.key = "platetextsize" /\ Accepted(l))
              THEN has \cup {"plate"} ELSE has
    /\ handlingData' = DataAfter(l)
    /\ UNCHANGED <<handlingMods, modNames, modIds, categorizedMods,
                   colorVariations, mesh, explicit>>

\* [ide], [flags], [lighting], [offsets], [audio]: tables, but for a class that
\* is unknown, which is 0.
TableLine(l) ==
    /\ Reading(l) /\ section \in {"ide", "flags", "lighting", "offsets", "audio"}
    /\ has' = has \cup {section}
    /\ fields' = IF l.key = "vehicleclass"
                 THEN [fields EXCEPT !["vehicleClass"] =
                           IF l.val \in 0..13 THEN l.val ELSE 0]
                 ELSE FieldsAfter(l)
    /\ UNCHANGED <<handlingData, handlingMods, modNames, modIds, categorizedMods,
                   colorVariations, mesh, explicit>>

\* [handling]: the data and the modification, together.
Recorded(l) == Written(l.key, l.val)
HandlingLine(l) ==
    /\ Reading(l) /\ section = "handling"
    /\ has' = has \cup {"handling"}
    /\ IF IsValidHandlingValue(l.key, l.val)
       THEN /\ handlingData' = [handlingData EXCEPT ![l.key] = Written(l.key, l.val)]
            /\ handlingMods' = [handlingMods EXCEPT ![l.key] = Recorded(l)]
       ELSE UNCHANGED <<handlingData, handlingMods>>
    /\ UNCHANGED <<fields, modNames, modIds, categorizedMods, colorVariations,
                   mesh, explicit>>

\* Those of a list that are in S, and a list with what it lacks of another.
Those(list, S) ==
    LET kept[i \in 0..Len(list)] ==
            IF i = 0 THEN <<>>
            ELSE IF list[i] \in S THEN Append(kept[i - 1], list[i])
            ELSE kept[i - 1]
    IN kept[Len(list)]
Once(list, x) == IF x \in ToSet(list) THEN list ELSE Append(list, x)
Merged(list, more) ==
    LET merged[i \in 0..Len(more)] ==
            IF i = 0 THEN list ELSE Once(merged[i - 1], more[i])
    IN merged[Len(more)]

\* [carmods]: parts that exist, each once; a category has those of its last
\* line that has any.  Variant: ids are repeated.
ValidParts(l) == Those(l.val, {p \in DOMAIN PartId : PartId[p] \in 1000..1193})
NewIds(l) == [i \in DOMAIN ValidParts(l) |-> PartId[ValidParts(l)[i]]]
IdsRepeated(l) == modIds \o NewIds(l)
Ids(l) == Merged(modIds, NewIds(l))
CarmodsLine(l) ==
    /\ Reading(l) /\ section = "carmods"
    /\ has' = has \cup {"carmods"}
    /\ modNames' = Merged(modNames, ValidParts(l))
    /\ modIds' = Ids(l)
    /\ categorizedMods' = IF ValidParts(l) = <<>> THEN categorizedMods
                          ELSE With(categorizedMods, l.key, ValidParts(l))
    /\ UNCHANGED <<fields, handlingData, handlingMods, colorVariations, mesh,
                   explicit>>

\* [carcols]: two to four colours a variation, each variation once.
IsVariation(e) == Len(e) >= 2 /\ \A i \in DOMAIN e : i <= 4 => e[i] \in Colour
FourOf(e) == [i \in 1..4 |-> IF i \in DOMAIN e THEN e[i] ELSE 0]
NewVariations(l) ==
    LET found == Those(l.val, {e \in ToSet(l.val) : IsVariation(e)})
    IN [i \in DOMAIN found |-> FourOf(found[i])]
CarcolsLine(l) ==
    /\ Reading(l) /\ section = "carcols"
    /\ has' = has \cup {"carcols"}
    /\ IF l.key \in {"variations", "variation"}
       THEN /\ colorVariations' = Merged(colorVariations, NewVariations(l))
            /\ UNCHANGED fields
       ELSE fields' = FieldsAfter(l) /\ UNCHANGED colorVariations
    /\ UNCHANGED <<handlingData, handlingMods, modNames, modIds,
                   categorizedMods, mesh, explicit>>

\* [plate]: a mesh is switched on by its position unless a line has switched it
\* on or off, and the rear one is turned around unless a line has turned it.
\* What is no number is 0.  Variant: a position switches it on in any case.
Num(v) == IF v = Bad THEN 0 ELSE v
Axis  == {"x", "y", "z"}
SwitchedAlways(m, s) == [m EXCEPT !.enabled = 1]
Switched(m, s) == IF s \in explicit THEN m ELSE [m EXCEPT !.enabled = 1]
Turned(m, s) ==
    IF s = "rear" /\ "rotZ" \notin explicit /\ m.rotZ = 0
    THEN [m EXCEPT !.rotZ = 180] ELSE m

\* frontPlate and rearPlate: three numbers or more.
MeshOf(m, s, v) ==
    LET part(i, d) == IF i \in DOMAIN v THEN Num(v[i]) ELSE d IN
    [enabled |-> 1, x |-> Num(v[1]), y |-> Num(v[2]), z |-> Num(v[3]),
     rotX |-> part(4, m.rotX), rotY |-> part(5, m.rotY),
     rotZ |-> part(6, IF s = "rear" THEN 180 ELSE m.rotZ),
     scale |-> part(7, m.scale)]

\* What a line with a side does, its key being a field or "list".
MeshAfter(m, s, f, v) ==
    CASE f = "list" -> IF Len(v) >= 3 THEN MeshOf(m, s, v) ELSE m
      [] f = "enabled" -> [m EXCEPT !.enabled = IF v = 1 THEN 1 ELSE 0]
      [] f \in Axis -> [Turned(Switched(m, s), s) EXCEPT ![f] = Num(v)]
      [] OTHER -> [m EXCEPT ![f] = Num(v)]
SaidBy(s, f, v) ==
    CASE f = "list" /\ Len(v) >= 3 -> {s} \cup (IF s = "rear" THEN {"rotZ"} ELSE {})
      [] f = "enabled" -> {s}
      [] s = "rear" /\ f = "rotZ" -> {"rotZ"}
      [] OTHER -> {}
PlateLine(l) ==
    /\ Reading(l) /\ section = "plate"
    /\ has' = has \cup {"plate"}
    /\ IF l.side \in Sides
       THEN /\ mesh' = [mesh EXCEPT ![l.side] =
                            MeshAfter(@, l.side, l.key, l.val)]
            /\ explicit' = explicit \cup SaidBy(l.side, l.key, l.val)
            /\ UNCHANGED fields
       ELSE fields' = FieldsAfter(l) /\ UNCHANGED <<mesh, explicit>>
    /\ UNCHANGED <<handlingData, handlingMods, modNames, modIds, categorizedMods,
                   colorVariations>>

\* Any other section is only kept.
OtherLine(l) ==
    /\ Reading(l) /\ section = "unknown"
    /\ UNCHANGED <<has, fields, handlingData, handlingMods, modNames, modIds,
                   categorizedMods, colorVariations, mesh, explicit>>

ConfigNext ==
    \/ \E s \in Section \ {section} : Header(s)
    \/ \E l \in Lines : \/ ModelLine(l) \/ TableLine(l) \/ HandlingLine(l)
                        \/ CarmodsLine(l) \/ CarcolsLine(l) \/ PlateLine(l)
                        \/ OtherLine(l)

ConfigSpec == ConfigInit /\ [][ConfigNext]_configVars

-----------------------------------------------------------------------------
(* What scripts read of a file: Unread for a native that returns false, -1 for a
   part that is not there.  What they write to it is left out. *)

GetCustomVehicleName ==
    IF fields["name"] # FieldDefault("name") THEN fields["name"] ELSE Unread

\* A key, with its section or with "" for any.
GetCustomVehicleConfigString(key) ==
    IF key \in DOMAIN customProperties THEN customProperties[key] ELSE Unread

ColorVariations == IF "carcols" \in has THEN colorVariations ELSE <<>>
AllowedUpgrades == IF "carmods" \in has THEN modIds ELSE <<>>
GetCustomVehicleColorVariationsCount == Len(ColorVariations)
GetCustomVehicleColorVariation(index) ==
    IF index \in 0..(Len(ColorVariations) - 1)
    THEN ColorVariations[index + 1] ELSE Unread
GetCustomVehicleDefaultColors ==
    IF "carcols" \notin has THEN Unread
    ELSE <<fields["defaultPrimaryColor"], fields["defaultSecondaryColor"],
           fields["defaultTertiaryColor"], fields["defaultQuaternaryColor"]>>
GetCustomVehicleAllowedUpgradesCount == Len(AllowedUpgrades)
GetCustomVehicleAllowedUpgrade(index) ==
    IF index \in 0..(Len(AllowedUpgrades) - 1)
    THEN AllowedUpgrades[index + 1] ELSE -1

-----------------------------------------------------------------------------
\* The types of the configuration; what the natives of the handling write is in
\* range.
ConfigTypeOK ==
    /\ section \in Section /\ has \subseteq Section
    /\ DOMAIN fields = Fields /\ \A f \in Fields : fields[f] \in Texts
    /\ \A a \in Attributes :
          handlingMods[a] # Unread => handlingMods[a] \in HandlingKeys[a]
    /\ \A s \in Sides : mesh[s].enabled \in Flag
    /\ explicit \subseteq Sides \cup {"rotZ"}

\* The last of some lines, or 0.
LastOf(S) == IF S = {} THEN 0 ELSE CHOOSE i \in S : \A j \in S : j <= i
Valid(l) == l.section = "handling" /\ IsValidHandlingValue(l.key, l.val)
IsBase(l) == l.section = "model" /\ l.key = "handlingbase" /\ Accepted(l)
BasesRead   == {i \in DOMAIN read : IsBase(read[i])}
Settings(a) == {i \in DOMAIN read : Valid(read[i]) /\ read[i].key = a}

\* The handling of a model is its base's, but for what the lines after the base
\* set, and the modifications are the last value of each attribute that any
\* line set, whatever the order of [model] and [handling].
HandlingFollowsFile ==
    LET base == LastOf(BasesRead) IN
    \A a \in Attributes :
        LET set == LastOf(Settings(a)) IN
        /\ handlingMods[a] = IF set = 0 THEN Unread
                             ELSE Written(a, read[set].val)
        /\ handlingData[a] =
              IF set > base THEN Written(a, read[set].val)
              ELSE CopyDefault(IF base = 0 THEN FallbackBase
                               ELSE read[base].val)[a]

\* The lines that switch a plate on or off, place it, or turn the rear one.
OfMesh(l, s) == l.section = "plate" /\ l.side = s
Whole(l) == l.key = "list" /\ Len(l.val) >= 3
Switches(s) == {i \in DOMAIN read : /\ OfMesh(read[i], s)
                                    /\ read[i].key = "enabled" \/ Whole(read[i])}
Positions(s) == {i \in DOMAIN read : OfMesh(read[i], s) /\ read[i].key \in Axis}
Turns == {i \in DOMAIN read : /\ OfMesh(read[i], "rear")
                              /\ read[i].key = "rotZ" \/ Whole(read[i])}

\* What a file says of a plate's switch holds wherever it says so: the lines of
\* a position, before or after, do not undo it.
PlateSwitchWins ==
    \A s \in Sides :
        LET last == read[LastOf(Switches(s))] IN
        mesh[s].enabled = IF IF Switches(s) # {} THEN Whole(last) \/ last.val = 1
                             ELSE Positions(s) # {}
                          THEN 1 ELSE 0

\* A rear plate faces backward unless the file turns it, in whatever order it
\* is placed, turned and switched (examples/model.ini: "facing backward: default
\* 180.0").
RearFacesBack ==
    LET last == read[LastOf(Turns)] IN
    mesh["rear"].rotZ =
        IF Turns = {} THEN IF Positions("rear") # {} THEN 180 ELSE 0
        ELSE IF last.key = "rotZ" THEN Num(last.val)
        ELSE IF Len(last.val) >= 6 THEN Num(last.val[6]) ELSE 180

\* Both together: where a plate is and whether it is there does not depend on
\* the order of a file's lines but for a key that is repeated.
PlatesFollowFile == PlateSwitchWins /\ RearFacesBack

\* Scripts that walk through the parts or the colour variations of a model
\* meet none twice, under whatever name and in whichever line the file has it;
\* each is a part by one of the names, and every part of a category is among
\* them.
PartsListedOnce ==
    /\ \A i, j \in 0..(GetCustomVehicleAllowedUpgradesCount - 1) :
          GetCustomVehicleAllowedUpgrade(i) = GetCustomVehicleAllowedUpgrade(j)
             => i = j
    /\ \A i, j \in 0..(GetCustomVehicleColorVariationsCount - 1) :
          GetCustomVehicleColorVariation(i) = GetCustomVehicleColorVariation(j)
             => i = j
    /\ IsInjective(modNames)
    /\ ToSet(AllowedUpgrades) = {PartId[p] : p \in ToSet(modNames)}
    /\ \A k \in DOMAIN categorizedMods :
          ToSet(categorizedMods[k]) \subseteq ToSet(modNames)

\* What a script reads by a key is what the last line with it says, in its
\* section or, without one, in any: also for lines that are refused, so that it
\* may differ from the field.
Alike(k) == {i \in DOMAIN read : read[i].side = k.side /\ read[i].key = k.key}
PropertiesFollowFile ==
    \A i \in DOMAIN read :
        LET k    == read[i]
            any  == LastOf(Alike(k))
            here == LastOf({j \in Alike(k) : read[j].section = k.section})
        IN /\ GetCustomVehicleConfigString(<<"", k.side, k.key>>) = read[any].val
           /\ GetCustomVehicleConfigString(<<k.section, k.side, k.key>>)
                = read[here].val

\* What the natives tell scripts of a file, by index and by key.
ScriptsReadFile == PartsListedOnce /\ PropertiesFollowFile
=============================================================================
