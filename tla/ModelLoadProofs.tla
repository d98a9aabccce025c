---------------------------- MODULE ModelLoadProofs ----------------------------
(***************************************************************************)
(* Proofs about the definitions of custom models on the server and what    *)
(* the client makes of them: the types of both sides, that a job is        *)
(* finalized once, that a model in use is kept, that a configuration that  *)
(* scripts set arrives, and that a model the client was told of is there   *)
(* in the end.                                                             *)
(***************************************************************************)
EXTENDS ModelLoad, TLAPS, WellFoundedInduction, SequenceTheorems,
        FiniteSetTheorems

-----------------------------------------------------------------------------
(* Sequences and finite sets. *)

\* A nonempty set of naturals has a least element.
LEMMA LeastNat ==
  ASSUME NEW S, S \subseteq Nat, S # {}
  PROVE  \E n \in S : \A m \in S : n <= m
<1> DEFINE Less == {p \in Nat \X Nat : p[1] < p[2]}
<1>1. IsWellFoundedOn(Less, Nat)
  BY NatLessThanWellFounded, Zenon DEF OpToRel
<1>2. \A m, n \in Nat : m < n => <<m, n>> \in Less
  OBVIOUS
<1> HIDE DEF Less
<1>3. PICK n \in S : \A m \in S : ~ (<<m, n>> \in Less)
  BY <1>1, WFMin
<1>4. ASSUME NEW m \in S PROVE n <= m
  <2>1. m \in Nat /\ n \in Nat OBVIOUS
  <2>2. ~(m < n) BY <1>2, <1>3, <2>1
  <2> QED BY <2>1, <2>2
<1> QED BY <1>4

\* The community modules' choice of an order of a finite set.
LEMMA SetToSeqType ==
  ASSUME NEW S, IsFiniteSet(S)
  PROVE  /\ Cardinality(S) \in Nat
         /\ SetToSeq(S) \in [1..Cardinality(S) -> S]
         /\ DOMAIN SetToSeq(S) = 1..Cardinality(S)
         /\ SetToSeq(S) \in Seq(S)
<1>1. Cardinality(S) \in Nat /\ ExistsBijection(1..Cardinality(S), S)
  BY FS_CardinalityType
<1>2. PICK f \in [1..Cardinality(S) -> S] : IsInjective(f)
  BY <1>1, Zenon DEF ExistsBijection, Bijection, Injection, IsInjective
<1>3. SetToSeq(S) \in [1..Cardinality(S) -> S]
  BY <1>2, Zenon DEF SetToSeq
<1> HIDE DEF SetToSeq
<1>4. DOMAIN SetToSeq(S) = 1..Cardinality(S)
  BY <1>3
<1>5. SetToSeq(S) \in Seq(S)
  BY <1>1, <1>3
<1> QED BY <1>1, <1>3, <1>4, <1>5

\* A message for each member of an order is a sequence of messages.
LEMMA EachType ==
  ASSUME NEW S, IsFiniteSet(S), NEW P, NEW f \in [S -> P]
  PROVE  [i \in DOMAIN SetToSeq(S) |-> f[SetToSeq(S)[i]]] \in Seq(P)
<1>1. /\ Cardinality(S) \in Nat
      /\ SetToSeq(S) \in [1..Cardinality(S) -> S]
      /\ DOMAIN SetToSeq(S) = 1..Cardinality(S)
  BY SetToSeqType
<1>2. [i \in 1..Cardinality(S) |-> f[SetToSeq(S)[i]]]
          \in [1..Cardinality(S) -> P]
  BY <1>1
<1> QED BY <1>1, <1>2

-----------------------------------------------------------------------------
(* The server. *)

IniRecords == [sections : SUBSET Sections, value : Values,
               mods : [Attributes -> Values \cup {None}]]

LEMMA IniType ==
  ASSUME ServerTypeOK, NEW m \in Models, ini[m] # NoIni
  PROVE  ini[m] \in IniRecords
BY InisAssumption DEF ServerTypeOK, IniRecords

\* What a model.ini makes of a definition is a definition.
LEMMA AppliedType ==
  ASSUME NEW d \in DefRecords, NEW c \in IniRecords
  PROVE  IdeApplied(d, c) \in DefRecords /\ SettingsApplied(d, c) \in DefRecords
<1>1. \A section : \A old \in Values : Given(c, section, old) \in Values
  BY DEF Given, IniRecords
<1> HIDE DEF Given
<1>2. d = [assets |-> d.assets, fields |-> d.fields]
      /\ d.assets \in SUBSET Kinds /\ d.fields \in [Fields -> Values]
  BY DEF DefRecords
<1> DEFINE ide == [x \in Fields |->
            IF x \in {"class", "wheel", "scale"} THEN Given(c, "ide", d.fields[x])
                                                 ELSE d.fields[x]]
<1>3. IdeApplied(d, c) = [assets |-> d.assets, fields |-> ide]
  BY <1>2 DEF IdeApplied
<1> DEFINE e == IdeApplied(d, c)
<1>4. e \in DefRecords
  <2>1. \A x \in Fields : d.fields[x] \in Values /\ Given(c, "ide", d.fields[x]) \in Values
    BY <1>1, <1>2
  <2>2. ide \in [Fields -> Values] BY <2>1
  <2> HIDE DEF ide
  <2> QED BY <2>2, <1>2, <1>3 DEF DefRecords
<1> HIDE DEF e
<1>5. e = [assets |-> e.assets, fields |-> e.fields]
      /\ e.assets \in SUBSET Kinds /\ e.fields \in [Fields -> Values]
  BY <1>4 DEF DefRecords
<1> DEFINE g == [x \in Fields |->
        CASE x = "lighting"                    -> Given(c, "lighting", e.fields[x])
          [] x \in OffsetFields                -> Given(c, "offsets", 0)
          [] x = "textSize"                    -> Given(c, "plate", 0)
          [] x \in {"text", "texture", "mesh"} -> Given(c, "plate", e.fields[x])
          [] OTHER                             -> e.fields[x]]
<1>6. g \in [Fields -> Values]
  <2> SUFFICES ASSUME NEW x \in Fields PROVE g[x] \in Values OBVIOUS
  <2>1. 0 \in Values BY DefinitionsAssumption
  <2>2. e.fields[x] \in Values BY <1>5
  <2>3. /\ Given(c, "lighting", e.fields[x]) \in Values
        /\ Given(c, "offsets", 0) \in Values
        /\ Given(c, "plate", 0) \in Values
        /\ Given(c, "plate", e.fields[x]) \in Values
    BY <1>1, <2>1, <2>2
  <2>4. CASE x = "lighting" BY <2>3, <2>4 DEF OffsetFields
  <2>5. CASE x \in OffsetFields BY <2>3, <2>5 DEF OffsetFields
  <2>6. CASE x = "textSize" BY <2>3, <2>6 DEF OffsetFields
  <2>7. CASE x \in {"text", "texture", "mesh"} BY <2>3, <2>7 DEF OffsetFields
  <2>8. CASE x \notin OffsetFields \cup {"lighting", "textSize", "text", "texture", "mesh"}
    BY <2>2, <2>8 DEF OffsetFields
  <2> QED BY <2>4, <2>5, <2>6, <2>7, <2>8
<1>7. SettingsApplied(d, c) = [assets |-> e.assets, fields |-> g]
  BY <1>5 DEF SettingsApplied, e
<1> QED BY <1>4, <1>5, <1>6, <1>7 DEF DefRecords, e

LEMMA ConfigAppliedType ==
  ASSUME ServerTypeOK, NEW m \in Models, NEW d \in DefRecords \cup {None}
  PROVE  /\ ConfigApplied(d, m) \in DefRecords \cup {None}
         /\ d \in DefRecords => ConfigApplied(d, m) \in DefRecords
<1>1. CASE d = None \/ ini[m] = NoIni
  BY <1>1 DEF ConfigApplied
<1>2. CASE d # None /\ ini[m] # NoIni
  <2>1. ini[m] \in IniRecords BY <1>2, IniType
  <2> DEFINE e == SettingsApplied(d, ini[m])
  <2>2. e \in DefRecords BY <1>2, <2>1, AppliedType
  <2>3. ConfigApplied(d, m) =
           [e EXCEPT !.assets = IF "audio" \in ini[m].sections
              THEN @ \cup (directory[m] \cap AudioKinds) ELSE @]
    BY <1>2 DEF ConfigApplied
  <2> HIDE DEF e
  <2>4. directory[m] \cap AudioKinds \subseteq Kinds BY DEF Kinds
  <2> QED BY <2>2, <2>3, <2>4 DEF DefRecords
<1> QED BY <1>1, <1>2

LEMMA NewDefType == NewDef \in DefRecords
BY DefinitionsAssumption DEF NewDef, DefRecords

\* The handling that a model.ini leaves is handling.
LEMMA NewHandlingType == NewHandling \in HandlingRecords
BY DefinitionsAssumption DEF NewHandling, HandlingRecords

LEMMA LoadedHandlingType ==
  ASSUME ServerTypeOK, NEW m \in Models, NEW h \in HandlingRecords
  PROVE  LoadedHandling(m, h) \in HandlingRecords
<1>1. CASE ~Has(m, "handling")
  BY <1>1 DEF LoadedHandling
<1>2. CASE Has(m, "handling")
  <2>1. ini[m] \in IniRecords
    BY <1>2, IniType DEF Has
  <2> DEFINE c == ini[m]
  <2>2. c.mods \in [Attributes -> Values \cup {None}]
    BY <2>1 DEF IniRecords
  <2>3. h.data \in [Attributes -> Values]
        /\ h.mods \in [Attributes -> Values \cup {None}]
    BY DEF HandlingRecords
  <2>4. 0 \in Values BY DefinitionsAssumption
  <2>5. LoadedHandling(m, h) = HandlingLoaded(h, c)
    BY <1>2 DEF LoadedHandling
  <2> HIDE DEF c
  <2>6. HandlingLoaded(h, c) \in HandlingRecords
    BY <2>2, <2>3, <2>4 DEF HandlingLoaded, HandlingRecords
  <2> QED BY <2>5, <2>6
<1> QED BY <1>1, <1>2

\* What each packet is made of.
LEMMA PacketTypes ==
  /\ \A m \in Models, d \in DefRecords :
        DefinePacket(m, d) \in Packets /\ PlatePacket(m, d) \in Packets
  /\ \A m \in Models : DestroyPacket(m) \in Packets
  /\ \A m \in Models, h \in HandlingRecords : HandlingPacket(m, h) \in Packets
  /\ [type |-> "authorized", model |-> None] \in Packets
BY DEF DefinePacket, PlatePacket, DestroyPacket, HandlingPacket, Packets,
       HandlingRecords

LEMMA PostType ==
  ASSUME ServerTypeOK, NEW packets \in Seq(Packets), NEW ready,
         Post(packets, ready)
  PROVE  wire' \in Seq(Packets)
BY DEF ServerTypeOK, Post

LEMMA LoadPacketsType ==
  ASSUME ServerTypeOK, NEW m \in Models
  PROVE  LoadPackets(m) \in Seq(Packets)
<1>1. CASE ~(Has(m, "ide") /\ defs[m] # None)
  BY <1>1 DEF LoadPackets
<1>2. CASE Has(m, "ide") /\ defs[m] # None
  <2>1. ini[m] \in IniRecords BY <1>2, IniType DEF Has
  <2>2. defs[m] \in DefRecords BY <1>2 DEF ServerTypeOK
  <2>3. DefinePacket(m, IdeApplied(defs[m], ini[m])) \in Packets
    BY <2>1, <2>2, AppliedType, PacketTypes
  <2> QED BY <1>2, <2>3 DEF LoadPackets
<1> QED BY <1>1, <1>2

\* Loading a model.ini changes the tables of committed models and of handling.
LEMMA LoadedTypes ==
  ASSUME ServerTypeOK, NEW m \in Models
  PROVE  /\ LoadedDefs(m) \in [Models -> DefRecords \cup {None}]
         /\ LoadedOutgoing(m) \subseteq Models
         /\ LoadedConfigs(m) \subseteq Models
         /\ HandlingOf(m) \in HandlingRecords
         /\ BegunDef(m) \in DefRecords
<1>1. ConfigApplied(defs[m], m) \in DefRecords \cup {None}
  BY ConfigAppliedType DEF ServerTypeOK
<1>2. LoadedDefs(m) \in [Models -> DefRecords \cup {None}]
  BY <1>1 DEF LoadedDefs, ServerTypeOK
<1>3. HandlingOf(m) \in HandlingRecords
  BY NewHandlingType DEF HandlingOf, ServerTypeOK
<1>4. BegunDef(m) \in DefRecords
  BY NewDefType, ConfigAppliedType DEF BegunDef
<1>5. LoadedOutgoing(m) \subseteq Models /\ LoadedConfigs(m) \subseteq Models
  BY DEF LoadedOutgoing, LoadedConfigs, ServerTypeOK
<1> QED BY <1>2, <1>3, <1>4, <1>5

LEMMA BegunTypes ==
  ASSUME ServerTypeOK, NEW m \in Models, Begun(m)
  PROVE  /\ registered' \subseteq Models /\ configs' \subseteq Models
         /\ handling' \in [Models -> HandlingRecords \cup {None}]
<1>1. LoadedHandling(m, NewHandling) \in HandlingRecords
  BY NewHandlingType, LoadedHandlingType
<1> QED BY <1>1, LoadedTypes DEF Begun, ServerTypeOK

LEMMA LoadConfigStep ==
  ASSUME ServerTypeOK, NEW m \in Models, LoadCustomVehicleConfig(m)
  PROVE  ServerTypeOK'
<1>1. wire' \in Seq(Packets)
  BY LoadPacketsType, PostType DEF LoadCustomVehicleConfig
<1>2. staged' \in [Models -> DefRecords \cup {None}]
  BY ConfigAppliedType DEF LoadCustomVehicleConfig, ServerTypeOK
<1>3. handling' \in [Models -> HandlingRecords \cup {None}]
  <2>1. LoadedHandling(m, HandlingOf(m)) \in HandlingRecords
    BY LoadedTypes, LoadedHandlingType
  <2> QED BY <2>1 DEF LoadCustomVehicleConfig, ServerTypeOK
<1> QED
  BY <1>1, <1>2, <1>3, LoadedTypes, DefinitionsAssumption
  DEF LoadCustomVehicleConfig, Called, PlayerUnchanged, ServerTypeOK

LEMMA BeginStep ==
  ASSUME ServerTypeOK, NEW m \in Models, BeginCustomVehicleDef(m)
  PROVE  ServerTypeOK'
<1>1. wire' \in Seq(Packets)
  BY LoadPacketsType, PostType DEF BeginCustomVehicleDef
<1>2. staged' \in [Models -> DefRecords \cup {None}]
  BY LoadedTypes DEF BeginCustomVehicleDef, ServerTypeOK
<1> QED
  BY <1>1, <1>2, BegunTypes, LoadedTypes, DefinitionsAssumption
  DEF BeginCustomVehicleDef, Called, PlayerUnchanged, ServerTypeOK

LEMMA AssetStep ==
  ASSUME ServerTypeOK, NEW m \in Models, NEW kind \in Kinds,
         SetCustomVehicleAsset(m, kind)
  PROVE  ServerTypeOK'
<1>1. staged[m] \in DefRecords
  BY DEF SetCustomVehicleAsset, ServerTypeOK
<1>2. [staged[m] EXCEPT !.assets = @ \cup {kind}] \in DefRecords
  BY <1>1 DEF DefRecords
<1>3. staged' = [staged EXCEPT ![m] = [staged[m] EXCEPT !.assets = @ \cup {kind}]]
  BY DEF SetCustomVehicleAsset
<1>4. staged' \in [Models -> DefRecords \cup {None}]
  BY <1>2, <1>3 DEF ServerTypeOK
<1> QED
  BY <1>4 DEF SetCustomVehicleAsset, SendNothing, PlayerUnchanged, ServerTypeOK

LEMMA CommitTypes ==
  ASSUME ServerTypeOK, NEW m \in Models, NEW d \in DefRecords, NEW h,
         NEW before \in Seq(Packets), Commit(m, d, h, before)
  PROVE  /\ staged' \in [Models -> DefRecords \cup {None}]
         /\ defs' \in [Models -> DefRecords \cup {None}]
         /\ outgoing' \subseteq Models
         /\ wire' \in Seq(Packets)
<1>1. Append(before, DefinePacket(m, d)) \in Seq(Packets)
  BY PacketTypes
<1>2. wire' \in Seq(Packets)
  BY <1>1, PostType DEF Commit
<1> QED BY <1>2 DEF Commit, ServerTypeOK

LEMMA CommitStep ==
  ASSUME ServerTypeOK, NEW m \in Models, CommitCustomVehicleDef(m)
  PROVE  ServerTypeOK'
<1>1. staged[m] \in DefRecords
  BY DEF CommitCustomVehicleDef, Committable, ServerTypeOK
<1>2. <<>> \in Seq(Packets) OBVIOUS
<1>3. Commit(m, staged[m], handling[m], <<>>) BY DEF CommitCustomVehicleDef
<1>4. /\ staged' \in [Models -> DefRecords \cup {None}]
      /\ defs' \in [Models -> DefRecords \cup {None}]
      /\ outgoing' \subseteq Models
      /\ wire' \in Seq(Packets)
  BY <1>1, <1>2, <1>3, CommitTypes
<1> QED
  BY <1>4, DefinitionsAssumption
  DEF CommitCustomVehicleDef, Called, PlayerUnchanged, ServerTypeOK

LEMMA FromConfigStep ==
  ASSUME ServerTypeOK, NEW m \in Models, DefineCustomVehicleFromConfig(m)
  PROVE  ServerTypeOK'
<1> DEFINE d == [BegunDef(m) EXCEPT !.assets = @ \cup (directory[m] \ AudioKinds)]
<1>1. d \in DefRecords
  <2>1. BegunDef(m) \in DefRecords BY LoadedTypes
  <2>2. directory[m] \subseteq Kinds BY DEF ServerTypeOK
  <2> QED BY <2>1, <2>2 DEF DefRecords
<1>2. LoadPackets(m) \in Seq(Packets) BY LoadPacketsType
<1>3. \/ Commit(m, d, LoadedHandling(m, NewHandling), LoadPackets(m))
      \/ /\ staged' = [staged EXCEPT ![m] = None]
         /\ defs' = LoadedDefs(m)
         /\ outgoing' = LoadedOutgoing(m)
         /\ Post(LoadPackets(m), connected)
  BY DEF DefineCustomVehicleFromConfig
<1> HIDE DEF d
<1>4. /\ staged' \in [Models -> DefRecords \cup {None}]
      /\ defs' \in [Models -> DefRecords \cup {None}]
      /\ outgoing' \subseteq Models
      /\ wire' \in Seq(Packets)
  <2>1. CASE Commit(m, d, LoadedHandling(m, NewHandling), LoadPackets(m))
    BY <1>1, <1>2, <2>1, CommitTypes
  <2>2. CASE /\ staged' = [staged EXCEPT ![m] = None]
             /\ defs' = LoadedDefs(m)
             /\ outgoing' = LoadedOutgoing(m)
             /\ Post(LoadPackets(m), connected)
    BY <1>2, <2>2, LoadedTypes, PostType DEF ServerTypeOK
  <2> QED BY <1>3, <2>1, <2>2
<1>5. Begun(m) BY DEF DefineCustomVehicleFromConfig
<1> QED
  BY <1>4, <1>5, BegunTypes, DefinitionsAssumption
  DEF DefineCustomVehicleFromConfig, Called, PlayerUnchanged, ServerTypeOK

LEMMA DestroyStep ==
  ASSUME ServerTypeOK, NEW m \in Models, DestroyCustomVehicle(m)
  PROVE  ServerTypeOK'
<1>1. <<DestroyPacket(m)>> \in Seq(Packets)
  BY PacketTypes
<1>2. wire' \in Seq(Packets)
  BY <1>1, PostType DEF DestroyCustomVehicle
<1> QED
  BY <1>2, DefinitionsAssumption
  DEF DestroyCustomVehicle, Called, PlayerUnchanged, ServerTypeOK

\* The natives that set fields of a definition.
LEMMA SetType ==
  ASSUME NEW d \in DefRecords \cup {None}, NEW S, NEW v \in Values
  PROVE  Set(d, S, v) \in DefRecords \cup {None}
<1>1. CASE d = None
  BY <1>1 DEF Set
<1>2. CASE d # None
  <2>1. d \in DefRecords BY <1>2
  <2> QED BY <1>2, <2>1 DEF Set, DefRecords
<1> QED BY <1>1, <1>2

LEMMA ChangeTypes ==
  ASSUME ServerTypeOK, NEW m \in Models, NEW S, NEW v \in Values,
         Change(m, S, v), wire' \in Seq(Packets)
  PROVE  ServerTypeOK'
<1>1. Set(staged[m], S, v) \in DefRecords \cup {None}
      /\ Set(defs[m], S, v) \in DefRecords \cup {None}
  BY SetType DEF ServerTypeOK
<1> QED
  BY <1>1, DefinitionsAssumption DEF Change, Called, PlayerUnchanged, ServerTypeOK

LEMMA ChangeSteps ==
  ASSUME ServerTypeOK, NEW m \in Models, NEW S, NEW v \in Values,
         ChangeAndDefine(m, S, v) \/ ChangePlate(m, S, v)
  PROVE  ServerTypeOK'
<1> DEFINE d == Set(defs[m], S, v)
<1>1. d \in DefRecords \cup {None}
  BY SetType DEF ServerTypeOK
<1>2. \E packets \in Seq(Packets) : \E ready : Post(packets, ready)
  <2>1. \/ Post(IF d = None THEN <<>> ELSE <<DefinePacket(m, d)>>, connected)
        \/ Post(IF d = None THEN <<>> ELSE <<PlatePacket(m, d)>>, extended)
    BY DEF ChangeAndDefine, ChangePlate, SendCustomVehicleDef,
           SendModelPlateConfig
  <2> HIDE DEF d
  <2>2. d # None => DefinePacket(m, d) \in Packets /\ PlatePacket(m, d) \in Packets
    BY <1>1, PacketTypes
  <2>3. (IF d = None THEN <<>> ELSE <<DefinePacket(m, d)>>) \in Seq(Packets)
    BY <2>2
  <2>4. (IF d = None THEN <<>> ELSE <<PlatePacket(m, d)>>) \in Seq(Packets)
    BY <2>2
  <2> QED BY <2>1, <2>3, <2>4, Zenon
<1>3. wire' \in Seq(Packets)
  BY <1>2, PostType
<1>4. Change(m, S, v) BY DEF ChangeAndDefine, ChangePlate
<1> QED BY <1>3, <1>4, ChangeTypes

LEMMA ServerSetStep ==
  ASSUME ServerTypeOK, NEW m \in Models, NEW v \in Values, ServerSet(m, v)
  PROVE  ServerTypeOK'
<1>1. \E S : ChangeAndDefine(m, S, v) \/ ChangePlate(m, S, v)
  BY Zenon DEF ServerSet, SetCustomVehicleModelInfo, SetCustomVehicleWheelModel,
     SetCustomVehicleWheelScale, SetCustomVehicleLightingOffset,
     SetCustomVehicleModelOffsets, SetCustomVehicleModelWheelOffsets,
     SetCustomVehicleModelChassisOffset, SetCustomVehicleModelStance,
     SetCustomVehicleModelPlateText, SetCustomVehicleModelPlateTexture,
     SetCustomVehicleModelPlateTextSize, SetCustomVehicleModelPlateMesh
<1> QED BY <1>1, ChangeSteps

LEMMA SetHandlingStep ==
  ASSUME ServerTypeOK, NEW m \in Models, NEW a \in Attributes, NEW v \in Values,
         SetModelHandling(m, a, v)
  PROVE  ServerTypeOK'
<1> DEFINE h == handling[m]
           g == [data |-> [h.data EXCEPT ![a] = v], mods |-> [h.mods EXCEPT ![a] = v]]
<1>1. h \in HandlingRecords
  BY DEF SetModelHandling, ServerTypeOK
<1>2. handling' = [handling EXCEPT ![m] = g]
  <2>1. handling' = [handling EXCEPT ![m].data[a] = v, ![m].mods[a] = v]
    BY DEF SetModelHandling
  <2>2. m \in DOMAIN handling BY DEF ServerTypeOK
  <2>3. h = [data |-> h.data, mods |-> h.mods]
    BY <1>1 DEF HandlingRecords
  <2> DEFINE k == [data |-> [h.data EXCEPT ![a] = v], mods |-> h.mods]
             f == [handling EXCEPT ![m] = k]
  <2>4. f = [handling EXCEPT ![m].data[a] = v]
    <3>1. [h EXCEPT !.data = [h.data EXCEPT ![a] = v]] = k BY <2>3
    <3> QED BY <3>1
  <2>5. handling' = [f EXCEPT ![m] = [f[m] EXCEPT !.mods = [f[m].mods EXCEPT ![a] = v]]]
    BY <2>1, <2>4
  <2>6. f[m] = k BY <2>2
  <2>7. [k EXCEPT !.mods = [k.mods EXCEPT ![a] = v]] = g OBVIOUS
  <2>8. handling' = [f EXCEPT ![m] = g]
    BY <2>5, <2>6, <2>7
  <2>9. [f EXCEPT ![m] = g] = [handling EXCEPT ![m] = g]
    <3> HIDE DEF k, g
    <3> QED OBVIOUS
  <2> QED BY <2>8, <2>9
<1>3. g \in HandlingRecords
  BY <1>1 DEF HandlingRecords
<1> HIDE DEF g
<1>4. handling' \in [Models -> HandlingRecords \cup {None}]
  BY <1>2, <1>3 DEF ServerTypeOK
<1> QED
  BY <1>4, DefinitionsAssumption
  DEF SetModelHandling, Called, SendNothing, PlayerUnchanged, ServerTypeOK

\* Handling packets of some models.
LEMMA HandlingPackets ==
  ASSUME ServerTypeOK, NEW S, S \subseteq {m \in Models : HasMods(handling[m])}
  PROVE  [i \in DOMAIN SetToSeq(S) |->
             HandlingPacket(SetToSeq(S)[i], handling[SetToSeq(S)[i]])]
             \in Seq(Packets)
<1> DEFINE f == [m \in S |-> HandlingPacket(m, handling[m])]
<1>1. IsFiniteSet(S)
  <2>1. S \subseteq Models OBVIOUS
  <2> QED BY <2>1, FS_Subset, DefinitionsAssumption
<1>2. \A m \in S : HandlingPacket(m, handling[m]) \in Packets
  <2>1. \A m \in S : m \in Models /\ handling[m] \in HandlingRecords
    BY DEF ServerTypeOK, HasMods
  <2> QED BY <2>1, PacketTypes
<1>3. f \in [S -> Packets] BY <1>2
<1>4. SetToSeq(S) \in [DOMAIN SetToSeq(S) -> S]
  BY <1>1, SetToSeqType
<1>5. \A i \in DOMAIN SetToSeq(S) :
         f[SetToSeq(S)[i]] = HandlingPacket(SetToSeq(S)[i], handling[SetToSeq(S)[i]])
  BY <1>4
<1> HIDE DEF f
<1>6. [i \in DOMAIN SetToSeq(S) |-> f[SetToSeq(S)[i]]] \in Seq(Packets)
  BY <1>1, <1>3, EachType
<1> QED BY <1>5, <1>6

LEMMA TickStep ==
  ASSUME ServerTypeOK, ProcessTick
  PROVE  ServerTypeOK'
<1> DEFINE S == {m \in outgoing : HasMods(handling[m])}
           packets == [i \in DOMAIN SetToSeq(S) |->
             HandlingPacket(SetToSeq(S)[i], handling[SetToSeq(S)[i]])]
<1>1. packets \in Seq(Packets)
  <2>1. S \subseteq {m \in Models : HasMods(handling[m])} BY DEF ServerTypeOK
  <2> HIDE DEF S
  <2> QED BY <2>1, HandlingPackets
<1>2. Post(packets, extended)
  BY DEF ProcessTick
<1> HIDE DEF packets
<1>3. wire' \in Seq(Packets)
  BY <1>1, <1>2, PostType
<1> QED
  BY <1>3 DEF ProcessTick, PlayerUnchanged, ServerTypeOK

\* The packets with all that is committed.
LEMMA AuthorizedDefines ==
  ASSUME ServerTypeOK
  PROVE  LET K == {m \in Models : defs[m] # None} IN
         [i \in DOMAIN SetToSeq(K) |->
             DefinePacket(SetToSeq(K)[i], defs[SetToSeq(K)[i]])] \in Seq(Packets)
<1> DEFINE K == {m \in Models : defs[m] # None}
           f == [m \in K |-> DefinePacket(m, defs[m])]
<1>1. IsFiniteSet(K)
  <2>1. K \subseteq Models OBVIOUS
  <2> QED BY <2>1, FS_Subset, DefinitionsAssumption
<1>2. \A m \in K : DefinePacket(m, defs[m]) \in Packets
  <2>1. \A m \in K : m \in Models /\ defs[m] \in DefRecords
    BY DEF ServerTypeOK
  <2> QED BY <2>1, PacketTypes
<1> HIDE DEF K
<1>3. f \in [K -> Packets] BY <1>2
<1>4. SetToSeq(K) \in [DOMAIN SetToSeq(K) -> K]
  BY <1>1, SetToSeqType
<1>5. \A i \in DOMAIN SetToSeq(K) :
         f[SetToSeq(K)[i]] = DefinePacket(SetToSeq(K)[i], defs[SetToSeq(K)[i]])
  BY <1>4
<1> HIDE DEF f
<1>6. [i \in DOMAIN SetToSeq(K) |-> f[SetToSeq(K)[i]]] \in Seq(Packets)
  BY <1>1, <1>3, EachType
<1>7. [i \in DOMAIN SetToSeq(K) |->
             DefinePacket(SetToSeq(K)[i], defs[SetToSeq(K)[i]])] \in Seq(Packets)
  BY <1>5, <1>6
<1> QED BY <1>7 DEF K

LEMMA AuthorizedStep ==
  ASSUME ServerTypeOK, OnPlayerAuthorized
  PROVE  ServerTypeOK'
<1> DEFINE M == {m \in Models : HasMods(handling[m])}
           K == {m \in Models : defs[m] # None}
           a == <<[type |-> "authorized", model |-> None]>>
           b == [i \in DOMAIN SetToSeq(M) |->
             HandlingPacket(SetToSeq(M)[i], handling[SetToSeq(M)[i]])]
           c == [i \in DOMAIN SetToSeq(K) |->
             DefinePacket(SetToSeq(K)[i], defs[SetToSeq(K)[i]])]
<1>1. a \in Seq(Packets) BY PacketTypes
<1>2. b \in Seq(Packets)
  <2> HIDE DEF M
  <2>1. M \subseteq {m \in Models : HasMods(handling[m])} BY DEF M
  <2> QED BY <2>1, HandlingPackets
<1>3. c \in Seq(Packets) BY AuthorizedDefines
<1>4. wire' = wire \o (a \o b \o c)
  BY DEF OnPlayerAuthorized, AuthorizedPackets
<1> HIDE DEF a, b, c
<1>5. wire' \in Seq(Packets)
  <2>1. a \o b \o c \in Seq(Packets) BY <1>1, <1>2, <1>3
  <2> QED BY <1>4, <2>1 DEF ServerTypeOK
<1> QED
  BY <1>5 DEF OnPlayerAuthorized, ServerTypeOK

LEMMA ServerStep ==
  ASSUME ServerTypeOK, ServerNext
  PROVE  ServerTypeOK'
<1>1. CASE \E m \in Models :
        \/ LoadCustomVehicleConfig(m) \/ BeginCustomVehicleDef(m)
        \/ SetCustomVehicleDff(m) \/ SetCustomVehicleTxd(m)
        \/ SetCustomVehicleCol(m) \/ CommitCustomVehicleDef(m)
        \/ DefineCustomVehicleFromConfig(m) \/ DestroyCustomVehicle(m)
        \/ \E v \in Values : ServerSet(m, v)
        \/ \E a \in Attributes, v \in Values : SetModelHandling(m, a, v)
  <2> PICK m \in Models :
        \/ LoadCustomVehicleConfig(m) \/ BeginCustomVehicleDef(m)
        \/ SetCustomVehicleDff(m) \/ SetCustomVehicleTxd(m)
        \/ SetCustomVehicleCol(m) \/ CommitCustomVehicleDef(m)
        \/ DefineCustomVehicleFromConfig(m) \/ DestroyCustomVehicle(m)
        \/ \E v \in Values : ServerSet(m, v)
        \/ \E a \in Attributes, v \in Values : SetModelHandling(m, a, v)
    BY <1>1
  <2>1. CASE LoadCustomVehicleConfig(m) BY <2>1, LoadConfigStep
  <2>2. CASE BeginCustomVehicleDef(m) BY <2>2, BeginStep
  <2>3. CASE \/ SetCustomVehicleDff(m) \/ SetCustomVehicleTxd(m)
             \/ SetCustomVehicleCol(m)
    <3>1. \E kind \in Kinds : SetCustomVehicleAsset(m, kind)
      BY <2>3 DEF SetCustomVehicleDff, SetCustomVehicleTxd, SetCustomVehicleCol,
                  Kinds
    <3> QED BY <3>1, AssetStep
  <2>4. CASE CommitCustomVehicleDef(m) BY <2>4, CommitStep
  <2>5. CASE DefineCustomVehicleFromConfig(m) BY <2>5, FromConfigStep
  <2>6. CASE DestroyCustomVehicle(m) BY <2>6, DestroyStep
  <2>7. CASE \E v \in Values : ServerSet(m, v) BY <2>7, ServerSetStep
  <2>8. CASE \E a \in Attributes, v \in Values : SetModelHandling(m, a, v)
    BY <2>8, SetHandlingStep
  <2> QED BY <2>1, <2>2, <2>3, <2>4, <2>5, <2>6, <2>7, <2>8
<1>2. CASE ProcessTick BY <1>2, TickStep
<1>3. CASE OnPlayerAuthorized BY <1>3, AuthorizedStep
<1> QED BY <1>1, <1>2, <1>3 DEF ServerNext

LEMMA ServerInitially == ServerInit => ServerTypeOK
<1> SUFFICES ASSUME ServerInit PROVE ServerTypeOK OBVIOUS
<1>1. Found \subseteq SUBSET Kinds /\ MaxCalls \in Nat
  BY DefinitionsAssumption
<1>2. <<>> \in Seq(Packets) OBVIOUS
<1>3. directory \in [Models -> SUBSET Kinds]
  BY <1>1, Zenon DEF ServerInit
<1>4. /\ staged \in [Models -> DefRecords \cup {None}]
      /\ defs \in [Models -> DefRecords \cup {None}]
      /\ handling \in [Models -> HandlingRecords \cup {None}]
  BY DEF ServerInit
<1>5. serverCalls \in 0..MaxCalls
  BY <1>1 DEF ServerInit
<1> QED BY <1>2, <1>3, <1>4, <1>5 DEF ServerInit, ServerTypeOK

-----------------------------------------------------------------------------
(* The client: what a job does in a step. *)

Transfers(J) == [Files -> {None} \cup EntriesOf(J)]
Works(J) == [job : JobRecords, id : J, transfers : Transfers(J),
             stored : SUBSET Files, push : BOOLEAN]

\* From s to t a job is queued at most once, and pushed exactly then; what it
\* is about stays, and so does whether it was finalized.  Of the entries, only
\* those of its model go, and only its own come.
Entry(j) == [job |-> j, state |-> "requested"]
Passed(J, s, t) ==
    /\ t \in Works(J) /\ t.id = s.id
    /\ t.job.model = s.job.model /\ t.job.def = s.job.def
    /\ t.job.finalized = s.job.finalized
    /\ s.job.queued => t.job.queued
    /\ t.push <=> (s.push \/ (t.job.queued /\ ~s.job.queued))
    /\ \A f \in Files : t.transfers[f] # s.transfers[f] =>
          f[1] = s.job.model /\ t.transfers[f] \in {None, Entry(s.id)}

LEMMA PassedTwice ==
  ASSUME NEW J, NEW s \in Works(J), NEW t, NEW u, Passed(J, s, t), Passed(J, t, u)
  PROVE  Passed(J, s, u)
<1>1. \A f \in Files : u.transfers[f] # s.transfers[f] =>
          f[1] = s.job.model /\ u.transfers[f] \in {None, Entry(s.id)}
  BY DEF Passed
<1> QED BY <1>1 DEF Passed, Works, JobRecords

\* A step that only fills in fields of the job.
LEMMA Filled ==
  ASSUME NEW J, NEW s \in Works(J), NEW job \in JobRecords,
         job.model = s.job.model, job.def = s.job.def,
         job.finalized = s.job.finalized, job.queued = s.job.queued,
         NEW t, t = [s EXCEPT !.job = job]
  PROVE  Passed(J, s, t) /\ t.job = job
<1>1. t = [job |-> job, id |-> s.id, transfers |-> s.transfers,
           stored |-> s.stored, push |-> s.push]
  BY DEF Works
<1>2. t \in Works(J)
  BY <1>1 DEF Works
<1> QED BY <1>1, <1>2 DEF Passed, Works, JobRecords

LEMMA PushPassed ==
  ASSUME NEW J, NEW s \in Works(J)
  PROVE  Passed(J, s, PushToQueue(s))
<1>1. CASE s.job.queued
  BY <1>1 DEF PushToQueue, Passed, Works, JobRecords
<1>2. CASE ~s.job.queued
  <2> DEFINE j == [s.job EXCEPT !.queued = TRUE]
             t == [s EXCEPT !.job = j, !.push = TRUE]
  <2>1. PushToQueue(s) = t
    <3>1. PushToQueue(s) = [s EXCEPT !.job.queued = TRUE, !.push = TRUE]
      BY <1>2 DEF PushToQueue
    <3> QED BY <3>1 DEF Works
  <2>2. j \in JobRecords /\ j.queued /\ j.model = s.job.model /\ j.def = s.job.def
        /\ j.finalized = s.job.finalized
    BY DEF Works, JobRecords
  <2> HIDE DEF j
  <2>3. t = [job |-> j, id |-> s.id, transfers |-> s.transfers,
             stored |-> s.stored, push |-> TRUE]
    <3> DEFINE r == [s EXCEPT !.job = j]
    <3>1. r = [job |-> j, id |-> s.id, transfers |-> s.transfers,
               stored |-> s.stored, push |-> s.push]
      BY DEF Works
    <3>2. t = [r EXCEPT !.push = TRUE] OBVIOUS
    <3> HIDE DEF r, t
    <3> QED BY <3>1, <3>2
  <2>4. t \in Works(J)
    BY <2>2, <2>3 DEF Works
  <2> HIDE DEF t
  <2> QED BY <2>1, <2>2, <2>3, <2>4, <1>2 DEF Passed
<1> QED BY <1>1, <1>2

LEMMA RequestPassed ==
  ASSUME NEW J, NEW s \in Works(J), NEW kinds
  PROVE  /\ Passed(J, s, RequestFiles(s, kinds))
         /\ RequestFiles(s, kinds).job = s.job
<1> DEFINE tr == [f \in Files |->
                    IF s.transfers[f] = None /\ \E k \in kinds : f = FileOf(s, k)
                    THEN [job |-> s.id, state |-> "requested"]
                    ELSE s.transfers[f]]
           t == RequestFiles(s, kinds)
<1>1. tr \in Transfers(J)
  <2>1. [job |-> s.id, state |-> "requested"] \in EntriesOf(J)
    BY DEF EntriesOf, Works
  <2>2. \A f \in Files : s.transfers[f] \in {None} \cup EntriesOf(J)
    BY DEF Works, Transfers
  <2> QED BY <2>1, <2>2 DEF Transfers
<1>2. t = [s EXCEPT !.transfers = tr]
  BY DEF RequestFiles
<1> HIDE DEF tr, t
<1>3. t = [job |-> s.job, id |-> s.id, transfers |-> tr,
           stored |-> s.stored, push |-> s.push]
  BY <1>2 DEF Works
<1>4. t \in Works(J)
  BY <1>1, <1>3 DEF Works
<1>5. \A f \in Files : tr[f] # s.transfers[f] =>
         f[1] = s.job.model /\ tr[f] \in {None, Entry(s.id)}
  BY DEF tr, FileOf, Entry
<1>6. Passed(J, s, t) /\ t.job = s.job
  BY <1>3, <1>4, <1>5 DEF Passed, Works, JobRecords
<1> QED BY <1>6 DEF t

LEMMA AudioPassed ==
  ASSUME NEW J, NEW s \in Works(J)
  PROVE  Passed(J, s, BeginAudio(s))
<1> DEFINE sounds == s.job.def.assets \cap AudioKinds
           hits == {k \in sounds : Stored(s, k)}
           j == [s.job EXCEPT !.audio = hits]
           r == [s EXCEPT !.job = j]
           t == RequestFiles(r, sounds \ hits)
           left == Remaining(s) - Cardinality(hits)
           u == [t EXCEPT !.job = [t.job EXCEPT !.remaining = left]]
<1>1. BeginAudio(s) = IF left = 0 THEN PushToQueue(t)
                      ELSE IF t.transfers = s.transfers THEN t ELSE u
  BY DEF BeginAudio
<1>2. Passed(J, s, r)
  <2>1. hits \in SUBSET AudioKinds OBVIOUS
  <2> HIDE DEF hits
  <2>2. j \in JobRecords /\ j.model = s.job.model /\ j.def = s.job.def
        /\ j.finalized = s.job.finalized /\ j.queued = s.job.queued
    BY <2>1 DEF JobRecords, Works
  <2> HIDE DEF j
  <2> QED BY <2>2, Filled
<1>3. left \in Int
  <2>1. IsFiniteSet(AudioKinds)
    <3>1. IsFiniteSet({} \cup {"engine"}) BY FS_EmptySet, FS_AddElement
    <3>2. IsFiniteSet(({} \cup {"engine"}) \cup {"accel"})
      BY <3>1, FS_AddElement
    <3>3. AudioKinds = ({} \cup {"engine"}) \cup {"accel"} BY DEF AudioKinds
    <3> QED BY <3>2, <3>3
  <2>2. sounds \subseteq AudioKinds /\ hits \subseteq AudioKinds OBVIOUS
  <2> HIDE DEF sounds, hits
  <2>3. IsFiniteSet(sounds) /\ IsFiniteSet(hits)
    BY <2>1, <2>2, FS_Subset
  <2>4. Cardinality(sounds) \in Nat /\ Cardinality(hits) \in Nat
    BY <2>3, FS_CardinalityType
  <2> QED BY <2>4 DEF Remaining, sounds
<1> HIDE DEF left, r, hits, sounds
<1>4. r \in Works(J) BY <1>2 DEF Passed
<1>5. Passed(J, r, t) BY <1>4, RequestPassed
<1>6. Passed(J, s, t) BY <1>2, <1>4, <1>5, PassedTwice
<1> HIDE DEF t
<1>7. t \in Works(J) BY <1>6 DEF Passed
<1>8. Passed(J, s, PushToQueue(t))
  BY <1>6, <1>7, PushPassed, PassedTwice
<1>9. Passed(J, s, u)
  <2> DEFINE i == [t.job EXCEPT !.remaining = left]
  <2>1. i \in JobRecords /\ i.model = t.job.model /\ i.def = t.job.def
        /\ i.finalized = t.job.finalized /\ i.queued = t.job.queued
    BY <1>3, <1>7 DEF JobRecords, Works
  <2>2. u = [t EXCEPT !.job = i] OBVIOUS
  <2> HIDE DEF i, u
  <2>3. Passed(J, t, u) BY <1>7, <2>1, <2>2, Filled
  <2> QED BY <1>6, <1>7, <2>3, PassedTwice
<1> QED BY <1>1, <1>6, <1>8, <1>9

\* The state of a file of the job changes.
Marked(s, k, x) ==
    [s EXCEPT !.job = CASE k = "txd" -> [s.job EXCEPT !.txd = x]
                        [] k = "dff" -> [s.job EXCEPT !.dff = x]
                        [] k = "col" -> [s.job EXCEPT !.col = x]]
LEMMA MarkedPassed ==
  ASSUME NEW J, NEW s \in Works(J), NEW k \in {"txd", "dff", "col"},
         NEW x \in States
  PROVE  Passed(J, s, Marked(s, k, x))
<1> DEFINE j == CASE k = "txd" -> [s.job EXCEPT !.txd = x]
                  [] k = "dff" -> [s.job EXCEPT !.dff = x]
                  [] k = "col" -> [s.job EXCEPT !.col = x]
<1>1. s.job \in JobRecords BY DEF Works
<1>2. j \in JobRecords /\ j.model = s.job.model /\ j.def = s.job.def
      /\ j.finalized = s.job.finalized /\ j.queued = s.job.queued
  <2>1. CASE k = "txd" BY <1>1, <2>1 DEF JobRecords
  <2>2. CASE k = "dff" BY <1>1, <2>2 DEF JobRecords
  <2>3. CASE k = "col" BY <1>1, <2>3 DEF JobRecords
  <2> QED BY <2>1, <2>2, <2>3
<1>3. Marked(s, k, x) = [s EXCEPT !.job = j] BY DEF Marked
<1> HIDE DEF j
<1> QED BY <1>2, <1>3, Filled

LEMMA StoredPassed ==
  ASSUME NEW J, NEW s \in Works(J), NEW st \in SUBSET Files
  PROVE  Passed(J, s, [s EXCEPT !.stored = st])
<1> DEFINE t == [s EXCEPT !.stored = st]
<1>1. t = [job |-> s.job, id |-> s.id, transfers |-> s.transfers,
           stored |-> st, push |-> s.push]
  BY DEF Works
<1> HIDE DEF t
<1>2. t \in Works(J)
  BY <1>1 DEF Works
<1>3. Passed(J, s, t)
  BY <1>1, <1>2 DEF Passed, Works, JobRecords
<1> QED BY <1>3 DEF t

LEMMA ErasedPassed ==
  ASSUME NEW J, NEW s \in Works(J), NEW f, f[1] = s.job.model
  PROVE  Passed(J, s, [s EXCEPT !.transfers[f] = None])
<1> DEFINE tr == [s.transfers EXCEPT ![f] = None]
           t == [s EXCEPT !.transfers = tr]
<1>1. tr \in Transfers(J)
  BY DEF Works, Transfers
<1>0. \A g \in Files : tr[g] # s.transfers[g] => g = f /\ tr[g] = None
  BY DEF Works, Transfers
<1> HIDE DEF tr
<1>2. t = [job |-> s.job, id |-> s.id, transfers |-> tr,
           stored |-> s.stored, push |-> s.push]
  BY DEF Works
<1> HIDE DEF t
<1>3. t \in Works(J)
  BY <1>1, <1>2 DEF Works
<1>4. Passed(J, s, t)
  BY <1>0, <1>2, <1>3 DEF Passed, Works, JobRecords
<1> QED BY <1>4 DEF t, tr

LEMMA ColPassed ==
  ASSUME NEW J, NEW s \in Works(J)
  PROVE  Passed(J, s, BeginCol(s))
<1> DEFINE r == Marked(s, "col", "ready")
<1>1. [s EXCEPT !.job.col = "ready"] = r
  BY DEF Marked
<1>2. Passed(J, s, r) /\ r \in Works(J)
  <2>1. Passed(J, s, r) BY MarkedPassed DEF States
  <2> QED BY <2>1 DEF Passed
<1> HIDE DEF r
<1>3. BeginCol(s) \in {BeginAudio(r), RequestFiles(s, {"col"})}
  BY <1>1 DEF BeginCol, RequestFile
<1>4. Passed(J, s, BeginAudio(r))
  BY <1>2, AudioPassed, PassedTwice
<1>5. Passed(J, s, RequestFiles(s, {"col"}))
  BY RequestPassed
<1> QED BY <1>3, <1>4, <1>5

LEMMA DffPassed ==
  ASSUME NEW J, NEW s \in Works(J)
  PROVE  Passed(J, s, DffReady(s))
<1> DEFINE r == Marked(s, "dff", "ready")
           q == Marked(s, "dff", "failed")
           st == s.stored \ {FileOf(s, "dff")}
           t == [q EXCEPT !.stored = st]
<1>1. [s EXCEPT !.job.dff = "ready"] = r
  BY DEF Marked
<1>2. [s EXCEPT !.job.dff = "failed", !.stored = @ \ {FileOf(s, "dff")}] = t
  BY DEF Marked
<1>3. Passed(J, s, r) /\ r \in Works(J)
  <2>1. Passed(J, s, r) BY MarkedPassed DEF States
  <2> QED BY <2>1 DEF Passed
<1>4. Passed(J, s, q) /\ q \in Works(J)
  <2>1. Passed(J, s, q) BY MarkedPassed DEF States
  <2> QED BY <2>1 DEF Passed
<1>5. st \in SUBSET Files BY DEF Works
<1> HIDE DEF r, q, st
<1>6. Passed(J, q, t) BY <1>4, <1>5, StoredPassed
<1>7. Passed(J, s, t) BY <1>4, <1>6, PassedTwice
<1> HIDE DEF t
<1>8. t \in Works(J) BY <1>7 DEF Passed
<1>9. DffReady(s) \in {PushToQueue(t), BeginCol(r)}
  BY <1>1, <1>2 DEF DffReady
<1>10. Passed(J, s, PushToQueue(t)) BY <1>7, <1>8, PushPassed, PassedTwice
<1>11. Passed(J, s, BeginCol(r)) BY <1>3, ColPassed, PassedTwice
<1> QED BY <1>9, <1>10, <1>11

LEMMA TxdPassed ==
  ASSUME NEW J, NEW s \in Works(J)
  PROVE  Passed(J, s, TxdReady(s)) /\ Passed(J, s, BeginTransfers(s))
<1> DEFINE r == Marked(s, "txd", "ready")
<1>1. [s EXCEPT !.job.txd = "ready"] = r
  BY DEF Marked
<1>2. Passed(J, s, r) /\ r \in Works(J)
  <2>1. Passed(J, s, r) BY MarkedPassed DEF States
  <2> QED BY <2>1 DEF Passed
<1> HIDE DEF r
<1>3. TxdReady(s) \in {DffReady(r), RequestFiles(r, {"dff"})}
  BY <1>1 DEF TxdReady, RequestFile
<1>4. Passed(J, s, DffReady(r))
  BY <1>2, DffPassed, PassedTwice
<1>5. Passed(J, s, RequestFiles(r, {"dff"}))
  BY <1>2, RequestPassed, PassedTwice
<1>6. Passed(J, s, TxdReady(s)) BY <1>3, <1>4, <1>5
<1>7. Passed(J, s, RequestFiles(s, {"txd"})) BY RequestPassed
<1> QED BY <1>6, <1>7 DEF BeginTransfers, RequestFile

\* An answer to a sound.
LEMMA SoundPassed ==
  ASSUME NEW J, NEW s \in Works(J), NEW k \in AudioKinds
  PROVE  /\ Passed(J, s, [s EXCEPT !.job.audio = @ \cup {k},
                                   !.job.remaining = @ - 1])
         /\ Passed(J, s, [s EXCEPT !.job.refused = @ \cup {k},
                                   !.job.remaining = @ - 1])
<1> DEFINE a == [s.job EXCEPT !.audio = @ \cup {k}]
           b == [s.job EXCEPT !.refused = @ \cup {k}]
           i == [a EXCEPT !.remaining = @ - 1]
           j == [b EXCEPT !.remaining = @ - 1]
<1>1. s.job \in JobRecords BY DEF Works
<1>2. i \in JobRecords /\ i.model = s.job.model /\ i.def = s.job.def
      /\ i.finalized = s.job.finalized /\ i.queued = s.job.queued
  <2>1. a \in JobRecords /\ a.model = s.job.model /\ a.def = s.job.def
        /\ a.finalized = s.job.finalized /\ a.queued = s.job.queued
    BY <1>1 DEF JobRecords
  <2> HIDE DEF a
  <2> QED BY <2>1 DEF JobRecords
<1>3. j \in JobRecords /\ j.model = s.job.model /\ j.def = s.job.def
      /\ j.finalized = s.job.finalized /\ j.queued = s.job.queued
  <2>1. b \in JobRecords /\ b.model = s.job.model /\ b.def = s.job.def
        /\ b.finalized = s.job.finalized /\ b.queued = s.job.queued
    BY <1>1 DEF JobRecords
  <2> HIDE DEF b
  <2> QED BY <2>1 DEF JobRecords
<1>4. [s EXCEPT !.job.audio = @ \cup {k}, !.job.remaining = @ - 1]
        = [s EXCEPT !.job = i]
  BY DEF Works, JobRecords
<1>5. [s EXCEPT !.job.refused = @ \cup {k}, !.job.remaining = @ - 1]
        = [s EXCEPT !.job = j]
  BY DEF Works, JobRecords
<1> HIDE DEF i, j
<1> QED BY <1>2, <1>3, <1>4, <1>5, Filled

LEMMA AnsweredPassed ==
  ASSUME NEW J, NEW s \in Works(J), NEW k \in Kinds
  PROVE  Passed(J, s, Answered(s, k))
<1>1. CASE k = "txd" BY <1>1, TxdPassed DEF Answered
<1>2. CASE k = "dff" BY <1>2, DffPassed DEF Answered
<1>3. CASE k = "col"
  <2> DEFINE r == Marked(s, "col", "ready")
  <2>1. [s EXCEPT !.job.col = "ready"] = r
    BY DEF Marked
  <2>2. Passed(J, s, r) BY MarkedPassed DEF States
  <2> HIDE DEF r
  <2>3. r \in Works(J) BY <2>2 DEF Passed
  <2>4. Answered(s, k) = BeginAudio(r) BY <1>3, <2>1 DEF Answered
  <2> QED BY <2>2, <2>3, <2>4, AudioPassed, PassedTwice
<1>4. CASE k \in AudioKinds
  <2> DEFINE t == [s EXCEPT !.job.audio = @ \cup {k}, !.job.remaining = @ - 1]
  <2>1. Answered(s, k) = IF t.job.remaining = 0 THEN PushToQueue(t) ELSE t
    BY <1>4 DEF Answered, AudioKinds
  <2>2. Passed(J, s, t) BY <1>4, SoundPassed
  <2> HIDE DEF t
  <2>3. t \in Works(J) BY <2>2 DEF Passed
  <2>4. Passed(J, s, PushToQueue(t)) BY <2>2, <2>3, PushPassed, PassedTwice
  <2> QED BY <2>1, <2>2, <2>4
<1> QED BY <1>1, <1>2, <1>3, <1>4 DEF Kinds

LEMMA UnansweredPassed ==
  ASSUME NEW J, NEW s \in Works(J), NEW k \in Kinds
  PROVE  Passed(J, s, Unanswered(s, k))
<1> DEFINE q == Marked(s, "txd", "failed")
           r == Marked(q, "dff", "failed")
           t == Marked(r, "col", "failed")
           u == Marked(s, "dff", "failed")
           v == Marked(s, "col", "failed")
<1>1. CASE k = "txd"
  <2>1. [s EXCEPT !.job.txd = "failed", !.job.dff = "failed",
                  !.job.col = "failed"] = t
    BY DEF Marked, Works, JobRecords
  <2>2. Unanswered(s, k) = PushToQueue(t) BY <1>1, <2>1 DEF Unanswered
  <2>3. Passed(J, s, q) BY MarkedPassed DEF States
  <2> HIDE DEF q
  <2>4. q \in Works(J) BY <2>3 DEF Passed
  <2>5. Passed(J, q, r) BY <2>4, MarkedPassed DEF States
  <2> HIDE DEF r
  <2>6. r \in Works(J) BY <2>5 DEF Passed
  <2>7. Passed(J, r, t) BY <2>6, MarkedPassed DEF States
  <2> HIDE DEF t
  <2>8. Passed(J, s, r) BY <2>3, <2>4, <2>5, PassedTwice
  <2>9. Passed(J, s, t) BY <2>8, <2>6, <2>7, PassedTwice
  <2>10. t \in Works(J) BY <2>9 DEF Passed
  <2> QED BY <2>2, <2>9, <2>10, PushPassed, PassedTwice
<1>2. CASE k = "dff"
  <2>1. [s EXCEPT !.job.dff = "failed"] = u
    BY DEF Marked
  <2>2. Unanswered(s, k) = PushToQueue(u) BY <1>2, <2>1 DEF Unanswered
  <2>3. Passed(J, s, u) BY MarkedPassed DEF States
  <2> HIDE DEF u
  <2>4. u \in Works(J) BY <2>3 DEF Passed
  <2> QED BY <2>2, <2>3, <2>4, PushPassed, PassedTwice
<1>3. CASE k = "col"
  <2>1. [s EXCEPT !.job.col = "failed"] = v
    BY DEF Marked
  <2>2. Unanswered(s, k) = BeginAudio(v) BY <1>3, <2>1 DEF Unanswered
  <2>3. Passed(J, s, v) BY MarkedPassed DEF States
  <2> HIDE DEF v
  <2>4. v \in Works(J) BY <2>3 DEF Passed
  <2> QED BY <2>2, <2>3, <2>4, AudioPassed, PassedTwice
<1>4. CASE k \in AudioKinds
  <2> DEFINE w == [s EXCEPT !.job.refused = @ \cup {k}, !.job.remaining = @ - 1]
  <2>1. Unanswered(s, k) = IF w.job.remaining = 0 THEN PushToQueue(w) ELSE w
    BY <1>4 DEF Unanswered, AudioKinds
  <2>2. Passed(J, s, w) BY <1>4, SoundPassed
  <2> HIDE DEF w
  <2>3. w \in Works(J) BY <2>2 DEF Passed
  <2>4. Passed(J, s, PushToQueue(w)) BY <2>2, <2>3, PushPassed, PassedTwice
  <2> QED BY <2>1, <2>2, <2>4
<1> QED BY <1>1, <1>2, <1>3, <1>4 DEF Kinds

\* What the types of the variables say of them, by groups.
SessionTypes ==
    /\ authorized \in BOOLEAN /\ spawned \in BOOLEAN /\ initGame \in BOOLEAN
    /\ spawnRun \in BOOLEAN /\ corrupt \in [Models -> Faults]
    /\ activeIds \subseteq Models /\ gone \subseteq Models
JobTypes ==
    /\ jobs \in Seq(JobRecords) /\ Len(jobs) <= MaxJobs
    /\ defQueue \in Seq(DOMAIN jobs) /\ completedQueue \in Seq(DOMAIN jobs)
    /\ finalizeQueue \in Seq(DOMAIN jobs)
    /\ mainQueue \in Seq(TasksOf(DOMAIN jobs))
    /\ tasks \in Seq(TasksOf(DOMAIN jobs))
    /\ transfers \in Transfers(DOMAIN jobs)
PcTypes ==
    /\ pc \in {"idle", "tasks", "clear", "definitions", "completed",
               "finalizations", "destructions"}
    /\ tasks # <<>> => pc = "tasks" \/ spawnRun
    /\ pc = "tasks" => tasks # <<>>
ModelTypes ==
    /\ destroyQueue \subseteq Models /\ clearAll \in BOOLEAN
    /\ stored \subseteq Files
    /\ loaded \in [Models -> LoadedRecords \cup {None}]
    /\ inUse \subseteq Models
    /\ modelConfig \in [Models -> [DOMAIN NoConfig -> Values]]
    /\ modelHandling \in [Models -> [Attributes -> Values \cup {None}]]

LEMMA TypeGroups ==
  TypeOK <=> ServerTypeOK /\ SessionTypes /\ JobTypes /\ PcTypes /\ ModelTypes
<1>1. \A J : (\A q \in {defQueue, completedQueue, finalizeQueue} : q \in Seq(J))
       <=> defQueue \in Seq(J) /\ completedQueue \in Seq(J)
           /\ finalizeQueue \in Seq(J)
  OBVIOUS
<1>2. \A J : (\A q \in {mainQueue, tasks} : q \in Seq(TasksOf(J)))
       <=> mainQueue \in Seq(TasksOf(J)) /\ tasks \in Seq(TasksOf(J))
  OBVIOUS
<1> QED
  BY <1>1, <1>2, Zenon
  DEF TypeOK, SessionTypes, JobTypes, PcTypes, ModelTypes, Transfers

LEMMA OutcomePassed ==
  ASSUME JobTypes, stored \subseteq Files, NEW t \in TasksOf(DOMAIN jobs),
         t.type # "spawn"
  PROVE  /\ t.job \in DOMAIN jobs
         /\ Working(t.job) \in Works(DOMAIN jobs)
         /\ Passed(DOMAIN jobs, Working(t.job), Outcome(t))
<1> DEFINE J == DOMAIN jobs
           s == Working(t.job)
           f == <<jobs[t.job].model, t.kind>>
           e == [s EXCEPT !.transfers[f] = None]
<1>1. t.job \in J /\ t.kind \in Kinds
  BY DEF TasksOf, Task
<1>2. s \in Works(J)
  <2>1. jobs[t.job] \in JobRecords BY <1>1 DEF JobTypes
  <2> QED BY <1>1, <2>1 DEF Working, Works, JobTypes
<1>3. e = ErasedBefore(t) BY DEF ErasedBefore
<1>0. f[1] = s.job.model BY DEF Working
<1> HIDE DEF J, s, f
<1>4. Passed(J, s, e) BY <1>0, <1>2, ErasedPassed
<1> HIDE DEF e
<1>5. e \in Works(J) BY <1>4 DEF Passed
<1>6. Passed(J, s, BeginTransfers(s)) BY <1>2, TxdPassed
<1>7. Passed(J, s, Answered(e, t.kind))
  BY <1>1, <1>2, <1>4, <1>5, AnsweredPassed, PassedTwice
<1>8. Passed(J, s, Unanswered(s, t.kind)) BY <1>1, <1>2, UnansweredPassed
<1>9. Passed(J, s, ErasedAfter(Unanswered(s, t.kind), t.kind))
  <2> DEFINE u == Unanswered(s, t.kind)
  <2>1. u \in Works(J) BY <1>8 DEF Passed
  <2> HIDE DEF u
  <2>0. FileOf(u, t.kind)[1] = u.job.model BY DEF FileOf
  <2>2. Passed(J, u, ErasedAfter(u, t.kind))
    BY <2>0, <2>1, ErasedPassed DEF ErasedAfter
  <2> QED BY <1>2, <1>8, <2>1, <2>2, PassedTwice DEF u
<1>10. Outcome(t) \in {BeginTransfers(s), Answered(e, t.kind),
                       Unanswered(s, t.kind),
                       ErasedAfter(Unanswered(s, t.kind), t.kind)}
  BY <1>3, Zenon DEF Outcome, s
<1>11. Passed(J, s, Outcome(t)) BY <1>6, <1>7, <1>8, <1>9, <1>10
<1> QED BY <1>1, <1>2, <1>11 DEF J, s

-----------------------------------------------------------------------------
(* The queues of finished jobs. *)

NoTwice(q)  == \A i, k \in DOMAIN q : i # k => q[i] # q[k]
Apart(c, d) == \A i \in DOMAIN c, k \in DOMAIN d : c[i] # d[k]
\* Who waits in a queue was queued, and is not finalized yet.
Open(jb, q) == \A i \in DOMAIN q : jb[q[i]].queued /\ ~jb[q[i]].finalized
QueuesOK(jb, c, d) ==
    /\ NoTwice(c) /\ NoTwice(d) /\ Apart(c, d) /\ Open(jb, c) /\ Open(jb, d)
    /\ \A j \in DOMAIN jb : jb[j].finalized => jb[j].queued
QueueInv == QueuesOK(jobs, completedQueue, finalizeQueue)

\* A job's step puts it into the queue of completed downloads, at most once.
JobSteps(jb, j, c, d, s, t, jb2, c2) ==
    /\ jb \in Seq(JobRecords) /\ j \in DOMAIN jb
    /\ c \in Seq(DOMAIN jb) /\ d \in Seq(DOMAIN jb) /\ QueuesOK(jb, c, d)
    /\ s \in Works(DOMAIN jb) /\ s.job = jb[j] /\ ~s.push
    /\ Passed(DOMAIN jb, s, t)
    /\ jb2 = [jb EXCEPT ![j] = t.job]
    /\ c2 = IF t.push THEN Append(c, j) ELSE c
LEMMA PushStep ==
  ASSUME NEW jb, NEW j, NEW c, NEW d, NEW s, NEW t, NEW jb2, NEW c2,
         JobSteps(jb, j, c, d, s, t, jb2, c2)
  PROVE  /\ jb2 \in Seq(JobRecords) /\ DOMAIN jb2 = DOMAIN jb /\ Len(jb2) = Len(jb)
         /\ c2 \in Seq(DOMAIN jb)
         /\ QueuesOK(jb2, c2, d)
<1> USE DEF JobSteps
<1>1. /\ t.job \in JobRecords
      /\ t.job.finalized = jb[j].finalized
      /\ jb[j].queued => t.job.queued
      /\ t.push <=> (t.job.queued /\ ~jb[j].queued)
  BY DEF Passed, Works
<1>2. /\ jb2 \in Seq(JobRecords) /\ DOMAIN jb2 = DOMAIN jb /\ Len(jb2) = Len(jb)
      /\ jb2[j] = t.job /\ \A i \in DOMAIN jb : i # j => jb2[i] = jb[i]
  BY <1>1
<1>3. /\ \A i \in DOMAIN c : c[i] \in DOMAIN jb
      /\ \A i \in DOMAIN d : d[i] \in DOMAIN jb
  OBVIOUS
<1>4. Open(jb2, c) /\ Open(jb2, d)
  BY <1>1, <1>2, <1>3 DEF Open, QueuesOK
<1>5. \A i \in DOMAIN jb2 : jb2[i].finalized => jb2[i].queued
  BY <1>1, <1>2 DEF QueuesOK
<1>6. CASE ~t.push
  BY <1>2, <1>4, <1>5, <1>6 DEF QueuesOK
<1>7. CASE t.push
  <2>1. ~jb[j].queued /\ t.job.queued /\ ~t.job.finalized
    BY <1>1, <1>7 DEF QueuesOK
  <2>2. /\ \A i \in DOMAIN c : c[i] # j
        /\ \A i \in DOMAIN d : d[i] # j
    BY <2>1 DEF QueuesOK, Open
  <2>3. /\ c2 \in Seq(DOMAIN jb) /\ Len(c) \in Nat
        /\ DOMAIN c2 = 1..(Len(c) + 1) /\ DOMAIN c = 1..Len(c)
        /\ c2[Len(c) + 1] = j /\ \A i \in 1..Len(c) : c2[i] = c[i]
    BY <1>7
  <2>4. NoTwice(c2)
    BY <2>2, <2>3 DEF NoTwice, QueuesOK
  <2>5. Apart(c2, d)
    BY <2>2, <2>3 DEF Apart, QueuesOK
  <2>6. Open(jb2, c2)
    BY <1>2, <1>4, <2>1, <2>3 DEF Open
  <2> QED BY <1>2, <1>4, <1>5, <2>3, <2>4, <2>5, <2>6 DEF QueuesOK
<1> QED BY <1>6, <1>7, <1>2

\* The invariant is as strong as the property.
LEMMA QueuedAtMostOnce == JobTypes /\ QueueInv => FinalizedOnce
<1> SUFFICES ASSUME JobTypes, QueueInv, NEW j \in DOMAIN jobs
             PROVE  Cardinality(Queued(j)) <= IF jobs[j].finalized THEN 0 ELSE 1
  BY DEF FinalizedOnce
<1>1. /\ Len(completedQueue) \in Nat
      /\ DOMAIN completedQueue = 1..Len(completedQueue)
      /\ Len(finalizeQueue) \in Nat
      /\ DOMAIN finalizeQueue = 1..Len(finalizeQueue)
  BY DEF JobTypes
<1>2. \A x, y \in Queued(j) : x = y
  BY <1>1 DEF Queued, QueueInv, QueuesOK, NoTwice, Apart
<1>3. jobs[j].finalized => Queued(j) = {}
  BY <1>1 DEF Queued, QueueInv, QueuesOK, Open
<1>4. Queued(j) = {} \/ \E x : Queued(j) = {x}
  BY <1>2
<1>5. Cardinality({}) = 0 /\ \A x : Cardinality({x}) = 1
  BY FS_EmptySet, FS_Singleton
<1>6. CASE Queued(j) = {}
  BY <1>5, <1>6
<1>7. CASE Queued(j) # {}
  <2>1. ~jobs[j].finalized BY <1>3, <1>7
  <2>2. Cardinality(Queued(j)) = 1
    BY <1>4, <1>5, <1>7
  <2> QED BY <2>1, <2>2
<1> QED BY <1>6, <1>7

-----------------------------------------------------------------------------
(* Folds over a queue. *)

LEMMA UpTo ==
  ASSUME NEW n \in Nat, NEW G, 0 \in G, \A i \in 1..n : i - 1 \in G => i \in G
  PROVE  \A i \in 0..n : i \in G
<1> DEFINE Bad == {i \in 0..n : i \notin G}
<1> SUFFICES ASSUME Bad # {} PROVE FALSE
  OBVIOUS
<1>1. PICK i \in Bad : \A k \in Bad : i <= k
  <2>1. Bad \subseteq Nat OBVIOUS
  <2> HIDE DEF Bad
  <2> QED BY <2>1, LeastNat
<1>2. i \in 1..n
  BY <1>1
<1>3. i - 1 \in 0..n /\ ~(i <= i - 1)
  BY <1>2
<1>4. i - 1 \in G
  BY <1>1, <1>3
<1> QED BY <1>1, <1>2, <1>4

\* A function defined by recursion on the places of a queue exists when its
\* steps stay in a set.
Steps(S, n) == [(1..n) \X S -> S]
Folds(S, base, n, h) ==
    {g \in [0..n -> S] : g[0] = base /\ \A i \in 1..n : g[i] = h[<<i, g[i - 1]>>]}
LEMMA FoldExists ==
  ASSUME NEW S, NEW base \in S, NEW n \in Nat, NEW h \in Steps(S, n)
  PROVE  Folds(S, base, n, h) # {}
<1> DEFINE F(k) == {g \in [0..k -> S] :
                      g[0] = base /\ \A i \in 1..k : g[i] = h[<<i, g[i - 1]>>]}
           G == {k \in 0..n : F(k) # {}}
<1>1. 0 \in G
  <2> DEFINE g == [i \in 0..0 |-> base]
  <2>1. g \in F(0) OBVIOUS
  <2> QED BY <2>1
<1>2. ASSUME NEW k \in 1..n, k - 1 \in G PROVE k \in G
  <2>1. PICK g \in F(k - 1) : TRUE BY <1>2
  <2>2. /\ g \in [0..(k - 1) -> S] /\ g[0] = base
        /\ \A i \in 1..(k - 1) : g[i] = h[<<i, g[i - 1]>>]
    BY <2>1
  <2> DEFINE f == [i \in 0..k |-> IF i = k THEN h[<<k, g[k - 1]>>] ELSE g[i]]
  <2>3. g[k - 1] \in S BY <2>2
  <2>4. h[<<k, g[k - 1]>>] \in S BY <2>3 DEF Steps
  <2>5. \A i \in 0..k : f[i] \in S
    <3> TAKE i \in 0..k
    <3>1. i = k \/ i \in 0..(k - 1) OBVIOUS
    <3> QED BY <3>1, <2>2, <2>4
  <2>6. f[0] = base
    BY <2>2
  <2>7. ASSUME NEW i \in 1..k PROVE f[i] = h[<<i, f[i - 1]>>]
    <3>1. i - 1 \in 0..k /\ i - 1 # k BY <2>7
    <3>2. f[i - 1] = g[i - 1] BY <3>1
    <3>3. CASE i = k
      <4>1. f[k] = h[<<k, g[k - 1]>>] OBVIOUS
      <4> QED BY <3>2, <3>3, <4>1
    <3>4. CASE i # k
      <4>1. i \in 1..(k - 1) BY <3>4, <2>7
      <4> QED BY <3>2, <4>1, <2>2
    <3> QED BY <3>3, <3>4
  <2>8. f \in [0..k -> S] BY <2>5
  <2> HIDE DEF f
  <2>9. f \in F(k) BY <2>6, <2>7, <2>8
  <2> QED BY <2>9
<1> HIDE DEF G
<1>3. n \in G
  <2>1. \A k \in 0..n : k \in G BY <1>1, <1>2, UpTo
  <2> QED BY <2>1
<1> QED BY <1>3 DEF G, Folds

\* What ProcessPendingDefinitions works on, between two jobs of its queue.
Begins ==
    {x \in [jobs : Seq(JobRecords), transfers : Transfers(DOMAIN jobs),
            stored : SUBSET Files, completed : Seq(DOMAIN jobs)] :
        /\ DOMAIN x.jobs = DOMAIN jobs /\ Len(x.jobs) = Len(jobs)
        /\ QueuesOK(x.jobs, x.completed, finalizeQueue)}

LEMMA BegunOne ==
  ASSUME JobTypes, NEW x \in Begins, NEW j \in DOMAIN jobs
  PROVE  BegunJob(x, j) \in Begins
<1> DEFINE s == [job |-> x.jobs[j], id |-> j, push |-> FALSE,
                 transfers |-> x.transfers, stored |-> x.stored]
           t == BeginTransfers(s)
           jb == [x.jobs EXCEPT ![j] = t.job]
           c == IF t.push THEN Append(x.completed, j) ELSE x.completed
           y == [jobs |-> jb, transfers |-> t.transfers, stored |-> t.stored,
                 completed |-> c]
<1>1. BegunJob(x, j) \in {x, y}
  BY DEF BegunJob
<1>2. /\ x.jobs \in Seq(JobRecords) /\ x.transfers \in Transfers(DOMAIN jobs)
      /\ x.stored \in SUBSET Files /\ x.completed \in Seq(DOMAIN jobs)
      /\ DOMAIN x.jobs = DOMAIN jobs /\ Len(x.jobs) = Len(jobs)
      /\ QueuesOK(x.jobs, x.completed, finalizeQueue)
  BY DEF Begins
<1>3. s \in Works(DOMAIN jobs)
  <2>1. x.jobs[j] \in JobRecords BY <1>2
  <2> QED BY <1>2, <2>1 DEF Works
<1>4. s.job = x.jobs[j] /\ ~s.push OBVIOUS
<1> HIDE DEF s
<1>5. Passed(DOMAIN jobs, s, t) BY <1>3, TxdPassed
<1> HIDE DEF t
<1>6. t.transfers \in Transfers(DOMAIN jobs) /\ t.stored \in SUBSET Files
  BY <1>5 DEF Passed, Works
<1>7. /\ jb \in Seq(JobRecords) /\ DOMAIN jb = DOMAIN jobs /\ Len(jb) = Len(jobs)
      /\ c \in Seq(DOMAIN jobs) /\ QueuesOK(jb, c, finalizeQueue)
  <2>1. /\ j \in DOMAIN x.jobs /\ finalizeQueue \in Seq(DOMAIN x.jobs)
        /\ x.completed \in Seq(DOMAIN x.jobs)
        /\ s \in Works(DOMAIN x.jobs) /\ Passed(DOMAIN x.jobs, s, t)
    BY <1>2, <1>3, <1>5 DEF JobTypes
  <2>2. /\ jb \in Seq(JobRecords) /\ DOMAIN jb = DOMAIN x.jobs
        /\ Len(jb) = Len(x.jobs)
        /\ c \in Seq(DOMAIN x.jobs) /\ QueuesOK(jb, c, finalizeQueue)
    <3>1. jb = [x.jobs EXCEPT ![j] = t.job]
          /\ c = IF t.push THEN Append(x.completed, j) ELSE x.completed
      OBVIOUS
    <3> HIDE DEF jb, c
    <3>2. JobSteps(x.jobs, j, x.completed, finalizeQueue, s, t, jb, c)
      BY <1>2, <1>4, <2>1, <3>1 DEF JobSteps
    <3> QED BY <3>2, PushStep
  <2> QED BY <1>2, <2>2
<1> HIDE DEF jb, c
<1>8. y \in Begins
  BY <1>6, <1>7 DEF Begins
<1> QED BY <1>1, <1>8

\* The jobs put off begin one after the other.
LEMMA AllBegunFold ==
  ASSUME JobTypes, stored \subseteq Files, QueueInv
  PROVE  \E r : /\ r \in [0..Len(defQueue) -> Begins]
                /\ r[0] = [jobs |-> jobs, transfers |-> transfers,
                           stored |-> stored, completed |-> completedQueue]
                /\ \A i \in 1..Len(defQueue) : r[i] = BegunJob(r[i - 1], defQueue[i])
                /\ AllBegun = r[Len(defQueue)]
<1> DEFINE n == Len(defQueue)
           base == [jobs |-> jobs, transfers |-> transfers, stored |-> stored,
                    completed |-> completedQueue]
           h == [p \in (1..n) \X Begins |-> BegunJob(p[2], defQueue[p[1]])]
           R(r) == [i \in 0..n |-> IF i = 0 THEN base
                                   ELSE BegunJob(r[i - 1], defQueue[i])]
           r == CHOOSE r : r = R(r)
<1>1. n \in Nat /\ \A i \in 1..n : defQueue[i] \in DOMAIN jobs
  BY DEF JobTypes
<1>2. base \in Begins
  BY DEF Begins, JobTypes, QueueInv
<1>3. AllBegun = r[n]
  BY DEF AllBegun
<1>11. base = [jobs |-> jobs, transfers |-> transfers, stored |-> stored,
              completed |-> completedQueue] /\ n = Len(defQueue)
  OBVIOUS
<1> HIDE DEF n, base
<1>4. h \in Steps(Begins, n)
  <2>1. \A p \in (1..n) \X Begins : BegunJob(p[2], defQueue[p[1]]) \in Begins
    BY <1>1, BegunOne
  <2> QED BY <2>1 DEF Steps
<1>5. PICK g \in [0..n -> Begins] :
         g[0] = base /\ \A i \in 1..n : g[i] = h[<<i, g[i - 1]>>]
  <2> HIDE DEF h, R
  <2>1. Folds(Begins, base, n, h) # {}
    BY <1>1, <1>2, <1>4, FoldExists
  <2> QED BY <2>1 DEF Folds
<1>6. g = R(g)
  <2>1. \A i \in 1..n : g[i] = BegunJob(g[i - 1], defQueue[i])
    <3> TAKE i \in 1..n
    <3>1. g[i - 1] \in Begins BY <1>1, <1>5
    <3>2. h[<<i, g[i - 1]>>] = BegunJob(g[i - 1], defQueue[i]) BY <3>1
    <3> QED BY <1>5, <3>2
  <2>2. \A i \in 0..n : g[i] = IF i = 0 THEN base
                               ELSE BegunJob(g[i - 1], defQueue[i])
    BY <1>1, <1>5, <2>1
  <2> QED BY <2>2, <1>5
<1>7. r = R(r)
  BY <1>6
<1> HIDE DEF r
<1>8. r[0] = base /\ \A i \in 1..n : r[i] = BegunJob(r[i - 1], defQueue[i])
  BY <1>1, <1>7
<1> DEFINE G == {i \in 0..n : r[i] \in Begins}
<1>9. \A i \in 0..n : i \in G
  <2>1. 0 \in G BY <1>1, <1>2, <1>8
  <2>2. \A i \in 1..n : i - 1 \in G => i \in G
    BY <1>1, <1>8, BegunOne
  <2> HIDE DEF G
  <2> QED BY <1>1, <2>1, <2>2, UpTo
<1>10. r \in [0..n -> Begins] BY <1>7, <1>9
<1> QED BY <1>3, <1>8, <1>10, <1>11

LEMMA AllBegunType ==
  ASSUME JobTypes, stored \subseteq Files, QueueInv
  PROVE  AllBegun \in Begins
<1>1. PICK r : /\ r \in [0..Len(defQueue) -> Begins]
               /\ r[0] = [jobs |-> jobs, transfers |-> transfers,
                          stored |-> stored, completed |-> completedQueue]
               /\ \A i \in 1..Len(defQueue) : r[i] = BegunJob(r[i - 1], defQueue[i])
               /\ AllBegun = r[Len(defQueue)]
  BY AllBegunFold
<1>2. Len(defQueue) \in 0..Len(defQueue) BY DEF JobTypes
<1> QED BY <1>1, <1>2

\* What the server is told to send of a committed definition, and a client keeps
\* apart from the model.
Sent == OffsetFields \cup PlateFields
KeepsSent(config) ==
    \A m \in Models : \A x \in Sent : config[m][x] = modelConfig[m][x]

\* What ProcessCompletedDownloads and ProcessPendingFinalizations work on: a
\* model in use is loaded, and nothing but a text is changed.
Ends ==
    {x \in [jobs : Seq(JobRecords), loaded : [Models -> LoadedRecords \cup {None}],
            stored : SUBSET Files,
            config : [Models -> [DOMAIN NoConfig -> Values]],
            destroy : SUBSET Models, deferred : Seq(DOMAIN jobs)] :
        /\ DOMAIN x.jobs = DOMAIN jobs /\ Len(x.jobs) = Len(jobs)
        /\ \A m \in inUse : x.loaded[m] # None
        /\ KeepsSent(x.config)}

\* Where a job goes: put off, or finalized.
Deferred(x, y, j)  == y.jobs = x.jobs /\ y.deferred = Append(x.deferred, j)
Finalized(x, y, j) ==
    /\ y.jobs = [x.jobs EXCEPT ![j] = [x.jobs[j] EXCEPT !.finalized = TRUE]]
    /\ y.deferred = x.deferred

\* The destruction of another model leaves the model k alone.
Spared(x, y, k) ==
    /\ k \in y.destroy => k \in x.destroy
    /\ y.loaded[k] = x.loaded[k] \/ y.loaded[k] # None

LEMMA LoadedNotNone == None \notin LoadedRecords
<1>1. 1..MaxJobs \subseteq Nat BY LoadAssumption
<1> QED BY <1>1, LoadAssumption DEF LoadedRecords

\* A destruction keeps what is in use.
LEMMA DestroyedType ==
  ASSUME ModelTypes, NEW x \in Ends, NEW m \in Models
  PROVE  /\ Destroyed(x, m) \in Ends
         /\ Destroyed(x, m).jobs = x.jobs /\ Destroyed(x, m).deferred = x.deferred
         /\ \A k \in Models \ {m} : Spared(x, Destroyed(x, m), k)
<1> DEFINE ld == [x.loaded EXCEPT ![m] = None]
           ds == x.destroy \cup {m}
           y == [jobs |-> x.jobs, loaded |-> x.loaded, stored |-> x.stored,
                 config |-> x.config, destroy |-> ds, deferred |-> x.deferred]
           z == [jobs |-> x.jobs, loaded |-> ld, stored |-> x.stored,
                 config |-> x.config, destroy |-> x.destroy,
                 deferred |-> x.deferred]
<1>1. /\ x = [jobs |-> x.jobs, loaded |-> x.loaded, stored |-> x.stored,
              config |-> x.config, destroy |-> x.destroy, deferred |-> x.deferred]
      /\ x.loaded \in [Models -> LoadedRecords \cup {None}]
      /\ x.destroy \in SUBSET Models
  BY DEF Ends
<1>2. \/ Destroyed(x, m) \in {x, [x EXCEPT !.destroy = ds]}
      \/ m \notin inUse /\ Destroyed(x, m) = [x EXCEPT !.loaded = ld]
  BY DEF Destroyed, CurrentlyInUse
<1>3. ds \in SUBSET Models BY <1>1
<1>4. ld \in [Models -> LoadedRecords \cup {None}] BY <1>1
<1>5. m \notin inUse => \A k \in inUse : ld[k] # None
  BY <1>1 DEF Ends, ModelTypes
<1> HIDE DEF ld, ds
<1>6. [x EXCEPT !.destroy = ds] = y /\ [x EXCEPT !.loaded = ld] = z
  BY <1>1
<1>7. y \in Ends
  BY <1>3 DEF Ends
<1>8. m \notin inUse => z \in Ends
  BY <1>4, <1>5 DEF Ends
<1>9. y.jobs = x.jobs /\ z.jobs = x.jobs /\ y.deferred = x.deferred
      /\ z.deferred = x.deferred
  OBVIOUS
<1>10. ASSUME NEW k \in Models \ {m}
       PROVE  Spared(x, y, k) /\ Spared(x, z, k) /\ Spared(x, x, k)
  BY <1>1 DEF Spared, ds, ld
<1> HIDE DEF y, z
<1> QED BY <1>2, <1>6, <1>7, <1>8, <1>9, <1>10

LEMMA InvalidatedType ==
  ASSUME NEW x \in Ends, NEW m, NEW k
  PROVE  /\ Invalidated(x, m, k) \in Ends
         /\ Invalidated(x, m, k).jobs = x.jobs
         /\ Invalidated(x, m, k).deferred = x.deferred
         /\ Invalidated(x, m, k).loaded = x.loaded
         /\ Invalidated(x, m, k).destroy = x.destroy
<1> DEFINE st == x.stored \ {<<m, k>>}
           y == [jobs |-> x.jobs, loaded |-> x.loaded, stored |-> st,
                 config |-> x.config, destroy |-> x.destroy,
                 deferred |-> x.deferred]
<1>1. Invalidated(x, m, k) = [x EXCEPT !.stored = st]
  BY DEF Invalidated
<1>2. st \in SUBSET Files BY DEF Ends
<1> HIDE DEF st
<1>3. [x EXCEPT !.stored = st] = y BY DEF Ends
<1>4. y \in Ends BY <1>2 DEF Ends
<1> QED BY <1>1, <1>3, <1>4

\* A model that is created is loaded.
LEMMA CreatedType ==
  ASSUME JobTypes, NEW x \in Ends, NEW j \in DOMAIN jobs
  PROVE  /\ Created(x, j) \in Ends
         /\ Created(x, j).jobs = x.jobs /\ Created(x, j).deferred = x.deferred
         /\ \A k \in Models : Spared(x, Created(x, j), k)
         /\ Created(x, j).loaded[x.jobs[j].model] # None
<1> DEFINE job == x.jobs[j]
           m   == job.model
           own == "col" \in job.def.assets /\ job.col = "ready"
           rec == [job |-> j, text |-> TextOf(x, job), audio |-> job.audio,
                   col |-> own /\ "col" \notin corrupt[m]]
           ld  == [x.loaded EXCEPT ![m] = rec]
           cf  == [x.config EXCEPT ![m]["text"] = TextOf(x, job)]
           st  == IF own /\ "col" \in corrupt[m]
                  THEN x.stored \ {<<m, "col">>} ELSE x.stored
           y == [jobs |-> x.jobs, loaded |-> ld, stored |-> st,
                 config |-> cf, destroy |-> x.destroy,
                 deferred |-> x.deferred]
<1>1. job \in JobRecords
  BY DEF Ends
<1>2. m \in Models /\ job.def \in DefRecords /\ job.audio \in SUBSET AudioKinds
  BY <1>1 DEF JobRecords
<1>3. TextOf(x, job) \in Values
  <2>1. job.def.fields["text"] \in Values
    BY <1>2 DEF DefRecords, Fields
  <2>2. x.config[m]["text"] \in Values
    BY <1>2 DEF Ends, NoConfig
  <2> QED BY <2>1, <2>2 DEF TextOf
<1>4. rec \in LoadedRecords
  <2>1. j \in 1..MaxJobs
    BY LoadAssumption DEF JobTypes
  <2>2. (own /\ "col" \notin corrupt[m]) \in BOOLEAN OBVIOUS
  <2> HIDE DEF own
  <2> QED BY <1>2, <1>3, <2>1, <2>2 DEF LoadedRecords
<1>5. Created(x, j) =
        [x EXCEPT !.loaded[m] = rec, !.config[m]["text"] = TextOf(x, job),
                  !.stored = st]
  BY DEF Created
<1>6. st \in SUBSET Files BY DEF Ends
<1>7. cf \in [Models -> [DOMAIN NoConfig -> Values]] /\ KeepsSent(cf)
  <2>1. x.config \in [Models -> [DOMAIN NoConfig -> Values]]
        /\ KeepsSent(x.config)
    BY DEF Ends
  <2>2. "text" \notin Sent
    BY DEF Sent, OffsetFields, PlateFields
  <2>3. cf \in [Models -> [DOMAIN NoConfig -> Values]]
    BY <1>2, <1>3, <2>1
  <2>4. \A k \in Models : \A f \in Sent : cf[k][f] = x.config[k][f]
    BY <1>2, <2>1, <2>2
  <2> QED BY <2>1, <2>3, <2>4 DEF KeepsSent
<1> HIDE DEF rec, st, m
<1>8. ld \in [Models -> LoadedRecords \cup {None}]
      /\ \A k \in inUse : ld[k] # None
  <2>1. rec # None BY <1>4, LoadedNotNone
  <2>2. x.loaded \in [Models -> LoadedRecords \cup {None}]
        /\ \A k \in inUse : x.loaded[k] # None
    BY DEF Ends
  <2>3. \A k \in inUse : k \notin Models => ld[k] = x.loaded[k]
    BY <1>2, <2>2
  <2> QED BY <1>2, <1>4, <2>1, <2>2
<1>9. Created(x, j) = y
  <2>1. x = [jobs |-> x.jobs, loaded |-> x.loaded, stored |-> x.stored,
              config |-> x.config, destroy |-> x.destroy, deferred |-> x.deferred]
    BY DEF Ends
  <2> DEFINE t == TextOf(x, job)
  <2> HIDE DEF t, job
  <2>2. Created(x, j) =
          [x EXCEPT !.loaded[m] = rec, !.config[m]["text"] = t, !.stored = st]
    BY <1>5 DEF t
  <2> DEFINE x1 == [x EXCEPT !.loaded = ld]
             x2 == [x1 EXCEPT !.config = [x.config EXCEPT ![m]["text"] = t]]
             x3 == [x2 EXCEPT !.stored = st]
  <2>3. x1 = [jobs |-> x.jobs, loaded |-> ld, stored |-> x.stored,
              config |-> x.config, destroy |-> x.destroy, deferred |-> x.deferred]
    BY <2>1
  <2> HIDE DEF x1
  <2>4. x2 = [jobs |-> x.jobs, loaded |-> ld, stored |-> x.stored,
              config |-> [x.config EXCEPT ![m]["text"] = t],
              destroy |-> x.destroy, deferred |-> x.deferred]
    BY <2>3
  <2> HIDE DEF x2
  <2>5. x3 = [jobs |-> x.jobs, loaded |-> ld, stored |-> st,
              config |-> [x.config EXCEPT ![m]["text"] = t],
              destroy |-> x.destroy, deferred |-> x.deferred]
    BY <2>4
  <2>6. Created(x, j) = x3
    BY <2>2, <2>3 DEF x1, x2, x3
  <2> QED BY <2>5, <2>6 DEF t
<1>11. /\ \A k \in Models : Spared(x, y, k)
       /\ y.loaded[m] # None
  <2>1. rec # None BY <1>4, LoadedNotNone
  <2>2. x.loaded \in [Models -> LoadedRecords \cup {None}] BY DEF Ends
  <2>3. ld[m] = rec /\ \A k \in Models : ld[k] = x.loaded[k] \/ ld[k] = rec
    BY <1>2, <2>2
  <2> HIDE DEF ld
  <2> QED BY <2>1, <2>3 DEF Spared
<1> HIDE DEF cf, ld
<1>10. y \in Ends
  BY <1>6, <1>7, <1>8 DEF Ends
<1> HIDE DEF y
<1>12. y.jobs = x.jobs /\ y.deferred = x.deferred BY DEF y
<1> QED BY <1>9, <1>10, <1>11, <1>12 DEF m

\* A job whose model is created when it is finalized.
Fit(job) == job.txd = "ready" /\ job.dff = "ready" /\ Whole(job.model)

LEMMA FinalizeOne ==
  ASSUME JobTypes, ModelTypes, spawned \in BOOLEAN, NEW x \in Ends,
         NEW j \in DOMAIN jobs
  PROVE  LET y == FinalizeCustomVehicle(x, j) IN
         /\ y \in Ends
         /\ \/ Deferred(x, y, j)
            \/ /\ Finalized(x, y, j)
               /\ Fit(x.jobs[j]) => y.loaded[x.jobs[j].model] # None
         /\ \A k \in Models : \/ Spared(x, y, k)
                              \/ k = x.jobs[j].model /\ ~Fit(x.jobs[j])
<1> DEFINE y    == FinalizeCustomVehicle(x, j)
           job  == x.jobs[j]
           m    == job.model
           jb   == [x.jobs EXCEPT ![j] = [x.jobs[j] EXCEPT !.finalized = TRUE]]
           done == [x EXCEPT !.jobs = jb]
           put  == [x EXCEPT !.deferred = Append(x.deferred, j)]
<1>1. job \in JobRecords /\ m \in Models
  <2>1. job \in JobRecords BY DEF Ends
  <2> QED BY <2>1 DEF JobRecords
<1>2. [x EXCEPT !.jobs[j].finalized = TRUE] = done
      /\ [x EXCEPT !.deferred = Append(@, j)] = put
  BY DEF Ends
<1>3. jb \in Seq(JobRecords) /\ DOMAIN jb = DOMAIN jobs /\ Len(jb) = Len(jobs)
  <2>1. [x.jobs[j] EXCEPT !.finalized = TRUE] \in JobRecords
    BY <1>1 DEF JobRecords
  <2> QED BY <2>1 DEF Ends
<1>0. x = [jobs |-> x.jobs, loaded |-> x.loaded, stored |-> x.stored,
           config |-> x.config, destroy |-> x.destroy, deferred |-> x.deferred]
  BY DEF Ends
<1>4. /\ done \in Ends /\ done.jobs = jb /\ done.deferred = x.deferred
      /\ done.loaded = x.loaded /\ done.destroy = x.destroy
  <2> HIDE DEF jb
  <2>1. done = [jobs |-> jb, loaded |-> x.loaded, stored |-> x.stored,
                config |-> x.config, destroy |-> x.destroy,
                deferred |-> x.deferred]
    BY <1>0
  <2> HIDE DEF done
  <2> QED BY <1>3, <2>1 DEF Ends
<1>5. put \in Ends /\ Deferred(x, put, j)
  <2> DEFINE d == Append(x.deferred, j)
  <2>1. d \in Seq(DOMAIN jobs) BY DEF Ends
  <2> HIDE DEF d
  <2>2. put = [jobs |-> x.jobs, loaded |-> x.loaded, stored |-> x.stored,
               config |-> x.config, destroy |-> x.destroy, deferred |-> d]
    <3>1. put = [x EXCEPT !.deferred = d] BY DEF d
    <3> HIDE DEF put
    <3> QED BY <1>0, <3>1
  <2> HIDE DEF put
  <2>3. put \in Ends /\ put.jobs = x.jobs /\ put.deferred = d
    BY <2>1, <2>2 DEF Ends
  <2> QED BY <2>3 DEF Deferred, d
<1>6. /\ \A z \in Ends : z.jobs = jb /\ z.deferred = x.deferred => Finalized(x, z, j)
      /\ \A z, k : Spared(done, z, k) <=> Spared(x, z, k)
  BY <1>4 DEF Finalized, Spared
<1> HIDE DEF done, put, jb, m
<1>7. /\ Destroyed(done, m) \in Ends
      /\ Destroyed(done, m).jobs = jb /\ Destroyed(done, m).deferred = x.deferred
      /\ \A k \in Models \ {m} : Spared(x, Destroyed(done, m), k)
  <2>1. /\ Destroyed(done, m) \in Ends
        /\ Destroyed(done, m).jobs = jb /\ Destroyed(done, m).deferred = x.deferred
        /\ \A k \in Models \ {m} : Spared(done, Destroyed(done, m), k)
    BY <1>1, <1>4, DestroyedType
  <2> QED BY <1>6, <2>1
<1>8. ASSUME NEW k
      PROVE  /\ Invalidated(Destroyed(done, m), m, k) \in Ends
             /\ Invalidated(Destroyed(done, m), m, k).jobs = jb
             /\ Invalidated(Destroyed(done, m), m, k).deferred = x.deferred
             /\ \A l \in Models \ {m} :
                   Spared(x, Invalidated(Destroyed(done, m), m, k), l)
  <2>1. /\ Invalidated(Destroyed(done, m), m, k) \in Ends
        /\ Invalidated(Destroyed(done, m), m, k).jobs = jb
        /\ Invalidated(Destroyed(done, m), m, k).deferred = x.deferred
        /\ Invalidated(Destroyed(done, m), m, k).loaded = Destroyed(done, m).loaded
        /\ Invalidated(Destroyed(done, m), m, k).destroy = Destroyed(done, m).destroy
    BY <1>7, InvalidatedType
  <2> QED BY <1>7, <2>1 DEF Spared
<1>9. /\ Created(done, j) \in Ends
      /\ Created(done, j).jobs = jb /\ Created(done, j).deferred = x.deferred
      /\ \A k \in Models : Spared(x, Created(done, j), k)
      /\ Created(done, j).loaded[m] # None
  <2>1. done.jobs[j].model = m BY <1>1, <1>4 DEF jb, m, Ends, JobRecords
  <2>2. /\ Created(done, j) \in Ends
        /\ Created(done, j).jobs = jb /\ Created(done, j).deferred = x.deferred
        /\ \A k \in Models : Spared(done, Created(done, j), k)
        /\ Created(done, j).loaded[m] # None
    BY <1>4, <2>1, CreatedType
  <2> QED BY <1>6, <2>2
<1>10. \/ y = put
       \/ y = Created(done, j)
       \/ /\ y \in {Destroyed(done, m), Invalidated(Destroyed(done, m), m, "txd"),
                    Invalidated(Destroyed(done, m), m, "dff")}
          /\ ~Fit(job)
  <2>1. CASE ~spawned
    BY <1>2, <2>1, Zenon DEF FinalizeCustomVehicle
  <2>2. CASE spawned /\ (job.dff # "ready" \/ job.txd # "ready")
    <3>1. ~Fit(job) BY <2>2 DEF Fit
    <3>2. y = Destroyed(done, m)
      BY <1>2, <2>2, Zenon DEF FinalizeCustomVehicle, m
    <3> QED BY <3>1, <3>2
  <2>3. CASE spawned /\ job.dff = "ready" /\ job.txd = "ready"
    <3>1. "txd" \in corrupt[m] \/ "clump" \in corrupt[m] => ~Fit(job)
      BY DEF Fit, Whole, m
    <3>2. y = CASE "txd" \in corrupt[m] -> Invalidated(Destroyed(done, m), m, "txd")
                [] "clump" \in corrupt[m] -> Invalidated(Destroyed(done, m), m, "dff")
                [] OTHER -> Created(done, j)
      BY <1>2, <2>3 DEF FinalizeCustomVehicle, m
    <3> HIDE DEF y
    <3> QED BY <3>1, <3>2
  <2> QED BY <2>1, <2>2, <2>3
<1>11. \A k \in Models : Spared(x, put, k)
  BY <1>0 DEF put, Spared
<1>12. job.model = m BY DEF m
<1> HIDE DEF y, job
<1>13. /\ y \in Ends
       /\ \/ Deferred(x, y, j)
          \/ Finalized(x, y, j) /\ (Fit(job) => y.loaded[m] # None)
       /\ \A k \in Models : Spared(x, y, k) \/ (k = m /\ ~Fit(job))
  BY <1>5, <1>6, <1>7, <1>8, <1>9, <1>10, <1>11
<1> QED BY <1>12, <1>13 DEF y, job

\* Every job of the queue is finalized or put off, those put off stay in order.
LEMMA FinalizationType ==
  ASSUME JobTypes, ModelTypes, spawned \in BOOLEAN,
         \A m \in inUse : loaded[m] # None,
         NEW q \in Seq(DOMAIN jobs), NEW d \in Seq(DOMAIN jobs)
  PROVE  \E r : /\ r \in [0..Len(q) -> Ends]
                /\ r[0].jobs = jobs /\ r[0].deferred = d
                /\ r[0].loaded = loaded /\ r[0].destroy = destroyQueue
                /\ \A i \in 1..Len(q) :
                      /\ r[i] = FinalizeCustomVehicle(r[i - 1], q[i])
                      /\ \/ Deferred(r[i - 1], r[i], q[i])
                         \/ Finalized(r[i - 1], r[i], q[i])
                /\ Finalization(q, d) = r[Len(q)]
<1> DEFINE n == Len(q)
           base == [jobs |-> jobs, loaded |-> loaded, stored |-> stored,
                    config |-> modelConfig, destroy |-> destroyQueue,
                    deferred |-> d]
           h == [p \in (1..n) \X Ends |-> FinalizeCustomVehicle(p[2], q[p[1]])]
           R(r) == [i \in 0..n |-> IF i = 0 THEN base
                                   ELSE FinalizeCustomVehicle(r[i - 1], q[i])]
           r == CHOOSE r : r = R(r)
<1>1. n \in Nat /\ \A i \in 1..n : q[i] \in DOMAIN jobs
  OBVIOUS
<1>2. /\ base \in Ends /\ base.jobs = jobs /\ base.deferred = d
      /\ base.loaded = loaded /\ base.destroy = destroyQueue
  BY DEF Ends, JobTypes, ModelTypes, KeepsSent
<1>3. Finalization(q, d) = r[n]
  BY DEF Finalization
<1> HIDE DEF n, base
<1>4. h \in Steps(Ends, n)
  <2>1. \A p \in (1..n) \X Ends : FinalizeCustomVehicle(p[2], q[p[1]]) \in Ends
    BY <1>1, FinalizeOne
  <2> QED BY <2>1 DEF Steps
<1>5. PICK g \in [0..n -> Ends] :
         g[0] = base /\ \A i \in 1..n : g[i] = h[<<i, g[i - 1]>>]
  <2> HIDE DEF h, R
  <2>1. Folds(Ends, base, n, h) # {}
    BY <1>1, <1>2, <1>4, FoldExists
  <2> QED BY <2>1 DEF Folds
<1>6. g = R(g)
  <2>1. \A i \in 1..n : g[i] = FinalizeCustomVehicle(g[i - 1], q[i])
    <3> TAKE i \in 1..n
    <3>1. g[i - 1] \in Ends BY <1>1, <1>5
    <3>2. h[<<i, g[i - 1]>>] = FinalizeCustomVehicle(g[i - 1], q[i]) BY <3>1
    <3> QED BY <1>5, <3>2
  <2>2. \A i \in 0..n : g[i] = IF i = 0 THEN base
                               ELSE FinalizeCustomVehicle(g[i - 1], q[i])
    BY <1>1, <1>5, <2>1
  <2> QED BY <2>2, <1>5
<1>7. r = R(r)
  BY <1>6
<1> HIDE DEF r
<1>8. r[0] = base /\ \A i \in 1..n : r[i] = FinalizeCustomVehicle(r[i - 1], q[i])
  BY <1>1, <1>7
<1> DEFINE G == {i \in 0..n : r[i] \in Ends}
<1>9. \A i \in 0..n : i \in G
  <2>1. 0 \in G BY <1>1, <1>2, <1>8
  <2>2. \A i \in 1..n : i - 1 \in G => i \in G
    BY <1>1, <1>8, FinalizeOne
  <2> HIDE DEF G
  <2> QED BY <1>1, <2>1, <2>2, UpTo
<1>10. r \in [0..n -> Ends]
  BY <1>7, <1>9
<1>11. \A i \in 1..n : \/ Deferred(r[i - 1], r[i], q[i])
                       \/ Finalized(r[i - 1], r[i], q[i])
  <2> TAKE i \in 1..n
  <2>1. r[i - 1] \in Ends BY <1>1, <1>9
  <2> QED BY <1>1, <1>8, <2>1, FinalizeOne
<1> QED BY <1>2, <1>3, <1>8, <1>10, <1>11 DEF n

\* After i jobs of queue q: the rest of q, the jobs put off and those of the
\* other queue c are apart, and none of them is finalized.
Midway(x, i, q, c) ==
    LET rest == (i + 1)..Len(q) IN
    /\ NoTwice(x.deferred) /\ Apart(c, x.deferred)
    /\ \A k \in rest, l \in DOMAIN x.deferred : q[k] # x.deferred[l]
    /\ Open(x.jobs, x.deferred) /\ Open(x.jobs, c)
    /\ \A k \in rest : x.jobs[q[k]].queued /\ ~x.jobs[q[k]].finalized
    /\ \A j \in DOMAIN x.jobs : x.jobs[j].finalized => x.jobs[j].queued

LEMMA MidwayStep ==
  ASSUME NEW q \in Seq(DOMAIN jobs), NEW c \in Seq(DOMAIN jobs),
         NoTwice(q), Apart(c, q), NEW i \in 1..Len(q),
         NEW x \in Ends, NEW y \in Ends, Midway(x, i - 1, q, c),
         Deferred(x, y, q[i]) \/ Finalized(x, y, q[i])
  PROVE  Midway(y, i, q, c)
<1> DEFINE n == Len(q)
<1>1. /\ n \in Nat /\ DOMAIN q = 1..n /\ i \in i..n /\ (i + 1)..n \subseteq i..n
      /\ (i - 1) + 1 = i /\ \A k \in i..n : k \in 1..n
      /\ \A k \in (i + 1)..n : k # i
  OBVIOUS
<1>2. /\ \A k \in i..n : q[k] \in DOMAIN jobs
      /\ \A k \in DOMAIN c : c[k] \in DOMAIN jobs /\ c[k] # q[i]
      /\ \A k \in (i + 1)..n : q[k] # q[i]
  BY <1>1 DEF NoTwice, Apart
<1>3. /\ x.deferred \in Seq(DOMAIN jobs) /\ DOMAIN x.jobs = DOMAIN jobs
      /\ DOMAIN y.jobs = DOMAIN jobs
  BY DEF Ends
<1>4. /\ NoTwice(x.deferred) /\ Apart(c, x.deferred)
      /\ \A k \in i..n, l \in DOMAIN x.deferred : q[k] # x.deferred[l]
      /\ Open(x.jobs, x.deferred) /\ Open(x.jobs, c)
      /\ \A k \in i..n : x.jobs[q[k]].queued /\ ~x.jobs[q[k]].finalized
      /\ \A j \in DOMAIN x.jobs : x.jobs[j].finalized => x.jobs[j].queued
  BY <1>1 DEF Midway
<1>5. CASE Deferred(x, y, q[i])
  <2> DEFINE d == x.deferred
             e == y.deferred
  <2>1. /\ y.jobs = x.jobs /\ Len(d) \in Nat /\ DOMAIN d = 1..Len(d)
        /\ DOMAIN e = 1..(Len(d) + 1) /\ e[Len(d) + 1] = q[i]
        /\ \A l \in 1..Len(d) : e[l] = d[l]
    BY <1>1, <1>2, <1>3, <1>5 DEF Deferred
  <2>2. \A l \in DOMAIN d : d[l] # q[i]
    BY <1>1, <1>4
  <2>3. /\ NoTwice(d) /\ Apart(c, d) /\ Open(x.jobs, d)
        /\ \A k \in i..n, l \in DOMAIN d : q[k] # d[l]
    BY <1>4
  <2>0. e = y.deferred /\ d = x.deferred OBVIOUS
  <2> HIDE DEF d, e
  <2>4. \A l \in DOMAIN e : (l \in DOMAIN d /\ e[l] = d[l]) \/ (l \notin DOMAIN d /\ e[l] = q[i] /\ l = Len(d) + 1)
    BY <2>1
  <2>5. NoTwice(e)
    BY <2>2, <2>3, <2>4 DEF NoTwice
  <2>6. Apart(c, e)
    BY <1>2, <2>3, <2>4 DEF Apart
  <2>7. \A k \in (i + 1)..n, l \in DOMAIN e : q[k] # e[l]
    BY <1>1, <1>2, <2>3, <2>4
  <2>8. Open(x.jobs, e)
    <3>1. x.jobs[q[i]].queued /\ ~x.jobs[q[i]].finalized BY <1>1, <1>4
    <3> QED BY <2>3, <2>4, <3>1 DEF Open
  <2> QED BY <1>4, <2>0, <2>1, <2>5, <2>6, <2>7, <2>8, <1>1 DEF Midway
<1>6. CASE Finalized(x, y, q[i])
  <2>1. /\ y.deferred = x.deferred /\ y.jobs[q[i]].queued
        /\ \A j \in DOMAIN jobs : j # q[i] => y.jobs[j] = x.jobs[j]
    <3>1. y.jobs = [x.jobs EXCEPT ![q[i]] = [x.jobs[q[i]] EXCEPT !.finalized = TRUE]]
          /\ y.deferred = x.deferred
      BY <1>6 DEF Finalized
    <3>2. x.jobs[q[i]] \in JobRecords /\ x.jobs[q[i]].queued
      BY <1>1, <1>2, <1>3, <1>4 DEF Ends
    <3>3. [x.jobs[q[i]] EXCEPT !.finalized = TRUE].queued
      BY <3>2 DEF JobRecords
    <3> QED BY <1>1, <1>2, <1>3, <3>1, <3>3
  <2>2. /\ \A l \in DOMAIN x.deferred : x.deferred[l] \in DOMAIN jobs
        /\ \A l \in DOMAIN x.deferred : x.deferred[l] # q[i]
    BY <1>1, <1>3, <1>4
  <2>3. Open(y.jobs, y.deferred) /\ Open(y.jobs, c)
    BY <1>2, <1>4, <2>1, <2>2 DEF Open
  <2>4. \A k \in (i + 1)..n : y.jobs[q[k]].queued /\ ~y.jobs[q[k]].finalized
    BY <1>1, <1>2, <1>4, <2>1
  <2>5. \A j \in DOMAIN y.jobs : y.jobs[j].finalized => y.jobs[j].queued
    BY <1>3, <1>4, <2>1
  <2> QED BY <1>1, <1>4, <2>1, <2>3, <2>4, <2>5 DEF Midway
<1> QED BY <1>5, <1>6

LEMMA FinalizationQueues ==
  ASSUME JobTypes, ModelTypes, spawned \in BOOLEAN,
         \A m \in inUse : loaded[m] # None,
         NEW q \in Seq(DOMAIN jobs), NEW d \in Seq(DOMAIN jobs),
         NEW c \in Seq(DOMAIN jobs),
         NoTwice(q), NoTwice(d), NoTwice(c), Apart(q, d), Apart(c, d),
         Apart(c, q), Open(jobs, q), Open(jobs, d), Open(jobs, c),
         \A j \in DOMAIN jobs : jobs[j].finalized => jobs[j].queued
  PROVE  /\ Finalization(q, d) \in Ends
         /\ QueuesOK(Finalization(q, d).jobs, c, Finalization(q, d).deferred)
<1>1. PICK r : /\ r \in [0..Len(q) -> Ends]
               /\ r[0].jobs = jobs /\ r[0].deferred = d
               /\ r[0].loaded = loaded /\ r[0].destroy = destroyQueue
               /\ \A i \in 1..Len(q) :
                     /\ r[i] = FinalizeCustomVehicle(r[i - 1], q[i])
                     /\ \/ Deferred(r[i - 1], r[i], q[i])
                        \/ Finalized(r[i - 1], r[i], q[i])
               /\ Finalization(q, d) = r[Len(q)]
  BY FinalizationType
<1> DEFINE n == Len(q)
           G == {i \in 0..n : Midway(r[i], i, q, c)}
<1>2. n \in Nat /\ n \in 0..n /\ (0 + 1)..n = DOMAIN q OBVIOUS
<1>3. 0 \in G
  <2>1. Midway(r[0], 0, q, c)
    BY <1>1, <1>2 DEF Midway, Apart, Open
  <2> QED BY <1>2, <2>1
<1>4. ASSUME NEW i \in 1..n, i - 1 \in G PROVE i \in G
  <2>0. i \in 0..n /\ i - 1 \in 0..n BY <1>2
  <2>1. r[i - 1] \in Ends /\ r[i] \in Ends BY <1>1, <2>0
  <2>2. Midway(r[i - 1], i - 1, q, c) BY <1>4
  <2>3. Midway(r[i], i, q, c)
    BY <1>1, <2>1, <2>2, MidwayStep
  <2> QED BY <2>0, <2>3
<1> HIDE DEF G
<1>5. n \in G
  <2>1. \A i \in 0..n : i \in G BY <1>2, <1>3, <1>4, UpTo
  <2> QED BY <1>2, <2>1
<1>6. Midway(r[n], n, q, c) BY <1>5 DEF G
<1>7. r[n] \in Ends BY <1>1, <1>2
<1>8. QueuesOK(r[n].jobs, c, r[n].deferred)
  BY <1>6, <1>7 DEF Midway, QueuesOK
<1> QED BY <1>1, <1>7, <1>8

-----------------------------------------------------------------------------
(* The steps of the client. *)

\* A job in a queue was queued and is not finalized, and none is in a queue
\* twice; what is in use is loaded.
LoadInv ==
    /\ ServerTypeOK /\ SessionTypes /\ JobTypes /\ PcTypes /\ ModelTypes
    /\ QueueInv /\ UsedIsKept

LEMMA LoadInitially == Init => LoadInv
<1> SUFFICES ASSUME Init PROVE LoadInv OBVIOUS
<1>1. ServerTypeOK BY ServerInitially DEF Init
<1>2. SessionTypes BY DEF Init, SessionTypes
<1>3. JobTypes
  <2>1. MaxJobs \in Nat BY LoadAssumption
  <2>2. transfers \in Transfers(DOMAIN jobs)
    BY DEF Init, Transfers
  <2> QED BY <2>1, <2>2 DEF Init, JobTypes
<1>4. PcTypes BY DEF Init, PcTypes
<1>5. ModelTypes
  <2>1. 0 \in Values BY DefinitionsAssumption
  <2> QED BY <2>1 DEF Init, ModelTypes, NoConfig, NoHandling
<1>6. QueueInv
  BY DEF Init, QueueInv, QueuesOK, NoTwice, Apart, Open
<1>7. UsedIsKept BY DEF Init, UsedIsKept
<1> QED BY <1>1, <1>2, <1>3, <1>4, <1>5, <1>6, <1>7 DEF LoadInv

\* Wherever the main thread goes on, it leaves no task behind.
LEMMA ContinueTypes ==
  ASSUME NEW i \in 0..5, NEW run \in BOOLEAN, Continue(i, run),
         tasks' # <<>> => run
  PROVE  PcTypes' /\ spawnRun' \in BOOLEAN
<1> DEFINE next  == {k \in (i + 1)..(IF run THEN 4 ELSE 5) : Busy(k)}
           frame == {k \in 1..5 : run /\ Busy(k)}
           P == {"clear", "definitions", "completed", "finalizations",
                 "destructions"}
<1>1. /\ spawnRun' = (run /\ next # {})
      /\ pc' = IF next # {} THEN Phases[Min(next)]
                ELSE IF run /\ tasks' # <<>> THEN "tasks"
                ELSE IF frame # {} THEN Phases[Min(frame)] ELSE "idle"
  BY DEF Continue
<1>2. next \subseteq 1..5 /\ frame \subseteq 1..5
  OBVIOUS
<1> HIDE DEF next, frame
<1>3. ASSUME NEW S \in SUBSET (1..5), S # {} PROVE Phases[Min(S)] \in P
  <2>0. S \subseteq Nat OBVIOUS
  <2>1. \E n \in S : \A m \in S : n <= m
    BY <1>3, <2>0, LeastNat
  <2>2. Min(S) \in S BY <2>1 DEF Min
  <2>3. \A k \in 1..5 : Phases[k] \in P BY DEF Phases
  <2> QED BY <2>2, <2>3
<1>4. spawnRun' \in BOOLEAN BY <1>1
<1>5. CASE next # {}
  <2>1. pc' \in P BY <1>1, <1>2, <1>3, <1>5
  <2>2. tasks' # <<>> => spawnRun' BY <1>1, <1>5
  <2> QED BY <1>4, <2>1, <2>2 DEF PcTypes
<1>6. CASE next = {} /\ run /\ tasks' # <<>>
  BY <1>1, <1>4, <1>6 DEF PcTypes
<1>7. CASE next = {} /\ tasks' = <<>>
  <2>1. pc' \in P \cup {"idle"} BY <1>1, <1>2, <1>3, <1>7
  <2> QED BY <1>4, <1>7, <2>1 DEF PcTypes
<1> QED BY <1>5, <1>6, <1>7

LEMMA OnServerStep ==
  ASSUME LoadInv, OnServer
  PROVE  LoadInv'
<1>1. ServerTypeOK' BY ServerStep DEF OnServer, LoadInv
<1> USE DEF OnServer, LoadInv, sessionVars, jobVars, taskVars, fileVars, modelVars
<1>2. SessionTypes' BY DEF SessionTypes
<1>3. JobTypes' BY DEF JobTypes
<1>4. PcTypes' BY DEF PcTypes
<1>5. ModelTypes' BY DEF ModelTypes
<1>6. QueueInv' BY DEF QueueInv
<1>7. UsedIsKept' BY DEF UsedIsKept
<1> QED BY <1>1, <1>2, <1>3, <1>4, <1>5, <1>6, <1>7

LEMMA FilesFinite == IsFiniteSet(Files)
<1>1. IsFiniteSet(Models) BY DefinitionsAssumption
<1>2. IsFiniteSet({"dff", "txd", "col"} \cup AudioKinds)
  <2>1. /\ IsFiniteSet({"dff"}) /\ IsFiniteSet({"txd"}) /\ IsFiniteSet({"col"})
        /\ IsFiniteSet({"engine"}) /\ IsFiniteSet({"accel"})
    BY FS_Singleton
  <2>2. /\ IsFiniteSet({"dff"} \cup {"txd"})
        /\ IsFiniteSet({"engine"} \cup {"accel"})
    BY <2>1, FS_Union
  <2>3. IsFiniteSet(({"dff"} \cup {"txd"}) \cup {"col"})
    BY <2>1, <2>2, FS_Union
  <2>4. IsFiniteSet((({"dff"} \cup {"txd"}) \cup {"col"})
                    \cup ({"engine"} \cup {"accel"}))
    BY <2>2, <2>3, FS_Union
  <2>5. (({"dff"} \cup {"txd"}) \cup {"col"}) \cup ({"engine"} \cup {"accel"})
          = {"dff", "txd", "col"} \cup AudioKinds
    BY DEF AudioKinds
  <2> QED BY <2>4, <2>5
<1> QED BY <1>1, <1>2, FS_Product DEF Files, Kinds

\* The tasks for those who wait for files that are given up.
LEMMA ToldType ==
  ASSUME JobTypes, NEW S
  PROVE  /\ ToldTasks(S) \in Seq(TasksOf(DOMAIN jobs))
         /\ Without(S) \in Transfers(DOMAIN jobs)
<1> DEFINE W == Waiting(S)
           T == TasksOf(DOMAIN jobs)
           g == [x \in W |-> Task("told", transfers[x].job, x[2])]
<1>1. IsFiniteSet(W)
  BY FilesFinite, FS_Subset DEF Waiting
<1>2. ASSUME NEW x \in W PROVE Task("told", transfers[x].job, x[2]) \in T
  <2>1. x \in Files /\ transfers[x] # None BY DEF Waiting
  <2>2. transfers[x] \in EntriesOf(DOMAIN jobs)
    BY <2>1 DEF JobTypes, Transfers
  <2>3. x[2] \in Kinds BY <2>1 DEF Files
  <2>4. transfers[x].job \in DOMAIN jobs BY <2>2 DEF EntriesOf
  <2> QED BY <2>3, <2>4 DEF TasksOf, Task
<1>3. g \in [W -> T] BY <1>2
<1>4. \A i \in DOMAIN SetToSeq(W) : SetToSeq(W)[i] \in W
  BY <1>1, SetToSeqType
<1>5. ToldTasks(S) = [i \in DOMAIN SetToSeq(W) |-> g[SetToSeq(W)[i]]]
  BY <1>4 DEF ToldTasks
<1> HIDE DEF g, W
<1>6. ToldTasks(S) \in Seq(T)
  BY <1>1, <1>3, <1>5, EachType
<1>7. Without(S) \in Transfers(DOMAIN jobs)
  BY DEF Without, JobTypes, Transfers
<1> QED BY <1>6, <1>7

LEMMA ConfigOfType ==
  ASSUME ModelTypes, NEW m \in Models, NEW d \in DefRecords,
         NEW S
  PROVE  ConfigOf(m, d, S) \in [Models -> [DOMAIN NoConfig -> Values]]
<1>1. DOMAIN NoConfig \subseteq Fields
  BY DEF NoConfig, Fields
<1>2. \A x \in Fields : d.fields[x] \in Values BY DEF DefRecords
<1>3. modelConfig[m] \in [DOMAIN NoConfig -> Values] BY DEF ModelTypes
<1> DEFINE c == [x \in DOMAIN modelConfig[m] |->
                   IF x \in S /\ (x # "text" \/ d.fields[x] # 0)
                   THEN d.fields[x] ELSE modelConfig[m][x]]
<1>4. c \in [DOMAIN NoConfig -> Values] BY <1>1, <1>2, <1>3
<1>5. ConfigOf(m, d, S) = [modelConfig EXCEPT ![m] = c]
  BY DEF ConfigOf
<1> HIDE DEF c
<1> QED BY <1>4, <1>5 DEF ModelTypes

\* A new job waits in no queue.
LEMMA StartJobTypes ==
  ASSUME JobTypes, QueueInv, activeIds \subseteq Models, NEW p,
         p.model \in Models, p.def \in DefRecords, StartJob(p),
         UNCHANGED <<transfers, completedQueue, finalizeQueue, tasks>>
  PROVE  JobTypes' /\ QueueInv' /\ activeIds' \subseteq Models
<1>1. CASE p.model \in activeIds
  BY <1>1 DEF StartJob, JobTypes, QueueInv
<1>2. CASE p.model \notin activeIds
  <2> DEFINE new == NewJob(p.model, p.def)
             n == Len(jobs)
             t == Task("start", n + 1, "txd")
  <2>1. new \in JobRecords /\ ~new.finalized
    BY DEF NewJob, JobRecords, States
  <2>2. /\ jobs' = Append(jobs, new) /\ n < MaxJobs
        /\ activeIds' = activeIds \cup {p.model}
        /\ \/ mainQueue' = Append(mainQueue, t) /\ defQueue' = defQueue
           \/ defQueue' = Append(defQueue, n + 1) /\ mainQueue' = mainQueue
    BY <1>2 DEF StartJob
  <2> HIDE DEF new
  <2>3. /\ n \in Nat /\ MaxJobs \in Nat /\ DOMAIN jobs = 1..n
        /\ jobs' \in Seq(JobRecords) /\ Len(jobs') = n + 1
        /\ DOMAIN jobs' = 1..(n + 1)
        /\ jobs'[n + 1] = new /\ \A i \in 1..n : jobs'[i] = jobs[i]
    BY <2>1, <2>2, LoadAssumption DEF JobTypes
  <2>4. /\ DOMAIN jobs \subseteq DOMAIN jobs' /\ n + 1 \in DOMAIN jobs'
        /\ Len(jobs') <= MaxJobs
    BY <2>2, <2>3
  <2>5. TasksOf(DOMAIN jobs) \subseteq TasksOf(DOMAIN jobs')
        /\ t \in TasksOf(DOMAIN jobs')
    BY <2>4 DEF TasksOf, Task, Kinds
  <2>6. /\ completedQueue \in Seq(DOMAIN jobs')
        /\ finalizeQueue \in Seq(DOMAIN jobs')
        /\ defQueue \in Seq(DOMAIN jobs')
    BY <2>4 DEF JobTypes
  <2>7. /\ mainQueue \in Seq(TasksOf(DOMAIN jobs'))
        /\ tasks \in Seq(TasksOf(DOMAIN jobs'))
    BY <2>5 DEF JobTypes
  <2>8. transfers \in Transfers(DOMAIN jobs')
    BY <2>4 DEF JobTypes, Transfers, EntriesOf
  <2>9. /\ mainQueue' \in Seq(TasksOf(DOMAIN jobs'))
        /\ defQueue' \in Seq(DOMAIN jobs')
    <3> DEFINE K == DOMAIN jobs'
               Q == TasksOf(K)
    <3>1. /\ t \in Q /\ n + 1 \in K
          /\ mainQueue \in Seq(Q) /\ defQueue \in Seq(K)
      BY <2>4, <2>5, <2>6, <2>7
    <3> HIDE DEF t, n, K, Q
    <3>2. Append(mainQueue, t) \in Seq(Q) BY <3>1
    <3>3. Append(defQueue, n + 1) \in Seq(K) BY <3>1
    <3>4. mainQueue' \in Seq(Q) /\ defQueue' \in Seq(K)
      BY <2>2, <3>1, <3>2, <3>3
    <3> QED BY <3>4 DEF K, Q
  <2>10. JobTypes'
    BY <2>3, <2>4, <2>6, <2>7, <2>8, <2>9 DEF JobTypes
  <2>11. /\ \A i \in DOMAIN completedQueue : completedQueue[i] \in 1..n
         /\ \A i \in DOMAIN finalizeQueue : finalizeQueue[i] \in 1..n
    BY <2>3 DEF JobTypes
  <2>12. QueueInv'
    BY <2>1, <2>3, <2>11 DEF QueueInv, QueuesOK, Open
  <2> QED BY <2>2, <2>10, <2>12
<1> QED BY <1>1, <1>2

LEMMA PacketFields ==
  ASSUME ServerTypeOK, wire # <<>>
  PROVE  LET p == Head(wire) IN
         /\ Tail(wire) \in Seq(Packets)
         /\ p.type \in {"define", "plate"} =>
              p.model \in Models /\ p.def \in DefRecords
         /\ p.type \in {"destroy", "handling"} => p.model \in Models
         /\ p.type = "handling" => p.mods \in [Attributes -> Values \cup {None}]
<1>1. Head(wire) \in Packets /\ Tail(wire) \in Seq(Packets)
  BY DEF ServerTypeOK
<1> QED BY <1>1 DEF Packets

LEMMA ReceiveStep ==
  ASSUME LoadInv, Receive
  PROVE  LoadInv'
<1> DEFINE p == Head(wire)
<1> USE DEF LoadInv
<1>1. /\ wire # <<>> /\ wire' = Tail(wire)
      /\ \/ ReceiveDefine(p) \/ ReceiveDestroy(p) \/ ReceivePlate(p)
         \/ ReceiveHandling(p) \/ ReceiveAuthorized(p)
      /\ UNCHANGED <<staged, defs, registered, handling, configs, outgoing,
                   directory, ini, connected, extended, serverCalls>>
      /\ UNCHANGED <<spawned, initGame, sessions, restarts, corrupt,
                     completedQueue, finalizeQueue, tasks, pc, spawnRun, stored,
                     loaded, clearAll, inUse, failures>>
  BY DEF Receive
<1>2. /\ Tail(wire) \in Seq(Packets)
      /\ p.type \in {"define", "plate"} =>
           p.model \in Models /\ p.def \in DefRecords
      /\ p.type \in {"destroy", "handling"} => p.model \in Models
      /\ p.type = "handling" => p.mods \in [Attributes -> Values \cup {None}]
  BY <1>1, PacketFields
<1>3. ServerTypeOK' BY <1>1, <1>2 DEF ServerTypeOK
<1> HIDE DEF p
<1>4. PcTypes' /\ UsedIsKept' BY <1>1 DEF PcTypes, UsedIsKept
<1>5. activeIds \subseteq Models BY DEF SessionTypes
<1>6. CASE ReceiveDefine(p)
  <2>1. p.model \in Models /\ p.def \in DefRecords
    BY <1>2, <1>6 DEF ReceiveDefine
  <2>2. JobTypes' /\ QueueInv' /\ activeIds' \subseteq Models
    BY <1>1, <1>5, <1>6, <2>1, StartJobTypes DEF ReceiveDefine
  <2>3. modelConfig' \in [Models -> [DOMAIN NoConfig -> Values]]
    BY <1>6, <2>1, ConfigOfType DEF ReceiveDefine
  <2>4. SessionTypes' BY <1>1, <1>6, <2>2 DEF SessionTypes, ReceiveDefine
  <2>5. ModelTypes' BY <1>1, <1>6, <2>3 DEF ModelTypes, ReceiveDefine
  <2> QED BY <1>3, <1>4, <2>2, <2>4, <2>5
<1>7. CASE ReceiveDestroy(p)
  <2> DEFINE S == {p.model} \X Kinds
  <2>1. p.model \in Models BY <1>2, <1>7 DEF ReceiveDestroy
  <2>2. mainQueue' \in Seq(TasksOf(DOMAIN jobs))
        /\ transfers' \in Transfers(DOMAIN jobs)
    <3>1. ToldTasks(S) \in Seq(TasksOf(DOMAIN jobs))
          /\ Without(S) \in Transfers(DOMAIN jobs)
      BY ToldType
    <3>2. mainQueue' = mainQueue \o ToldTasks(S) /\ transfers' = Without(S)
      BY <1>7 DEF ReceiveDestroy
    <3> QED BY <3>1, <3>2 DEF JobTypes
  <2>3. JobTypes' /\ QueueInv'
    BY <1>1, <1>7, <2>2 DEF JobTypes, QueueInv, ReceiveDestroy
  <2>4. SessionTypes' BY <1>1, <1>7, <2>1 DEF SessionTypes, ReceiveDestroy
  <2>5. ModelTypes' BY <1>1, <1>7, <2>1 DEF ModelTypes, ReceiveDestroy
  <2> QED BY <1>3, <1>4, <2>3, <2>4, <2>5
<1>8. CASE ReceivePlate(p)
  <2>1. modelConfig' \in [Models -> [DOMAIN NoConfig -> Values]]
    BY <1>2, <1>8, ConfigOfType DEF ReceivePlate
  <2>2. JobTypes' /\ QueueInv' /\ SessionTypes'
    BY <1>1, <1>8 DEF JobTypes, QueueInv, SessionTypes, ReceivePlate
  <2>3. ModelTypes' BY <1>1, <1>8, <2>1 DEF ModelTypes, ReceivePlate
  <2> QED BY <1>3, <1>4, <2>2, <2>3
<1>9. CASE ReceiveHandling(p)
  <2>1. modelHandling' \in [Models -> [Attributes -> Values \cup {None}]]
    <3>0. p.model \in Models /\ p.mods \in [Attributes -> Values \cup {None}]
      BY <1>2, <1>9 DEF ReceiveHandling
    <3> DEFINE h == [a \in Attributes |->
                      IF p.mods[a] # None THEN p.mods[a]
                      ELSE modelHandling[p.model][a]]
    <3>1. h \in [Attributes -> Values \cup {None}]
      BY <3>0 DEF ModelTypes
    <3>2. modelHandling' \in {modelHandling, [modelHandling EXCEPT ![p.model] = h]}
      BY <1>9 DEF ReceiveHandling
    <3> HIDE DEF h
    <3> QED BY <3>0, <3>1, <3>2 DEF ModelTypes
  <2>2. JobTypes' /\ QueueInv' /\ SessionTypes'
    BY <1>1, <1>9 DEF JobTypes, QueueInv, SessionTypes, ReceiveHandling
  <2>3. ModelTypes' BY <1>1, <1>9, <2>1 DEF ModelTypes, ReceiveHandling
  <2> QED BY <1>3, <1>4, <2>2, <2>3
<1>10. CASE ReceiveAuthorized(p)
  BY <1>1, <1>3, <1>4, <1>10
  DEF ReceiveAuthorized, JobTypes, QueueInv, SessionTypes, ModelTypes
<1> QED BY <1>1, <1>6, <1>7, <1>8, <1>9, <1>10

-----------------------------------------------------------------------------
(* Transfers and frames. *)

LEMMA AnswerTypes ==
  ASSUME JobTypes, NEW f \in Files, transfers[f] # None,
         NEW state \in {"requested", "sent", "waiting", "answered", "failed"}
  PROVE  /\ [transfers EXCEPT ![f].state = state] \in Transfers(DOMAIN jobs)
         /\ \A type \in {"done", "refused", "failed", "told"} :
              Task(type, transfers[f].job, f[2]) \in TasksOf(DOMAIN jobs)
<1>1. transfers[f] \in EntriesOf(DOMAIN jobs) BY DEF JobTypes, Transfers
<1>2. f[2] \in Kinds BY DEF Files
<1> DEFINE e == [transfers[f] EXCEPT !.state = state]
<1>3. e \in EntriesOf(DOMAIN jobs) BY <1>1 DEF EntriesOf
<1>4. [transfers EXCEPT ![f].state = state] = [transfers EXCEPT ![f] = e]
  OBVIOUS
<1>5. [transfers EXCEPT ![f] = e] \in Transfers(DOMAIN jobs)
  <2> HIDE DEF e
  <2> QED BY <1>3 DEF JobTypes, Transfers
<1>6. transfers[f].job \in DOMAIN jobs BY <1>1 DEF EntriesOf
<1>7. \A type \in {"done", "refused", "failed", "told"} :
         Task(type, transfers[f].job, f[2]) \in TasksOf(DOMAIN jobs)
  BY <1>2, <1>6 DEF TasksOf, Task
<1> QED BY <1>4, <1>5, <1>7

LEMMA TransferSteps ==
  ASSUME LoadInv, NEW f \in Files,
         \/ TransferEnds(f) \/ TransferRefused(f) \/ TransferFails(f)
         \/ ManualRetry(f)
  PROVE  LoadInv'
<1> USE DEF LoadInv, Answer
<1>1. /\ transfers[f] # None
      /\ transfers' \in {[transfers EXCEPT ![f].state = st] :
            st \in {"requested", "sent", "waiting", "answered", "failed"}}
      /\ \/ UNCHANGED mainQueue
         \/ \E type \in {"done", "failed"} :
              mainQueue' = Append(mainQueue, Task(type, transfers[f].job, f[2]))
         \/ mainQueue' = mainQueue \o
              <<Task("refused", transfers[f].job, f[2]),
                Task("told", transfers[f].job, f[2])>>
  <2>1. CASE TransferEnds(f) BY <2>1 DEF TransferEnds
  <2>2. CASE TransferRefused(f) BY <2>2 DEF TransferRefused
  <2>3. CASE TransferFails(f) BY <2>3 DEF TransferFails
  <2>4. CASE ManualRetry(f) BY <2>4 DEF ManualRetry, taskVars
  <2> QED BY <2>1, <2>2, <2>3, <2>4
<1>2. /\ stored' \subseteq Files
      /\ UNCHANGED <<serverVars, sessionVars, corrupt, jobVars, tasks, pc,
                     spawnRun, modelVars, inUse, modelConfig, modelHandling>>
  BY DEF TransferEnds, TransferRefused, TransferFails, ManualRetry, taskVars,
         ModelTypes
<1>3. transfers' \in Transfers(DOMAIN jobs) BY <1>1, AnswerTypes
<1>4. mainQueue' \in Seq(TasksOf(DOMAIN jobs))
  <2> DEFINE Q == TasksOf(DOMAIN jobs)
             T(type) == Task(type, transfers[f].job, f[2])
  <2>1. \A type \in {"done", "refused", "failed", "told"} : T(type) \in Q
    BY <1>1, AnswerTypes
  <2>2. mainQueue \in Seq(Q) BY DEF JobTypes
  <2>3. \/ mainQueue' = mainQueue
        \/ \E type \in {"done", "failed"} : mainQueue' = Append(mainQueue, T(type))
        \/ mainQueue' = mainQueue \o <<T("refused"), T("told")>>
    BY <1>1
  <2> HIDE DEF Q, T
  <2>4. <<T("refused"), T("told")>> \in Seq(Q) BY <2>1
  <2>5. mainQueue \o <<T("refused"), T("told")>> \in Seq(Q) BY <2>2, <2>4
  <2>6. \A type \in {"done", "failed"} : Append(mainQueue, T(type)) \in Seq(Q)
    BY <2>1, <2>2
  <2>7. mainQueue' \in Seq(Q) BY <2>2, <2>3, <2>5, <2>6, Zenon
  <2> QED BY <2>7 DEF Q
<1>5. ServerTypeOK' BY <1>2 DEF serverVars, ServerTypeOK
<1> USE DEF sessionVars, jobVars, modelVars
<1>6. JobTypes' BY <1>2, <1>3, <1>4 DEF JobTypes
<1>7. SessionTypes' /\ PcTypes' BY <1>2 DEF SessionTypes, PcTypes
<1>8. ModelTypes' BY <1>2 DEF ModelTypes
<1>9. QueueInv' /\ UsedIsKept' BY <1>2 DEF QueueInv, UsedIsKept
<1> QED BY <1>5, <1>6, <1>7, <1>8, <1>9

LEMMA PassingType ==
  ASSUME NEW J, NEW t \in Transfers(J), NEW from,
         NEW to \in {"requested", "sent", "waiting", "answered", "failed"}
  PROVE  Passing(t, from, to) \in Transfers(J)
<1>1. ASSUME NEW f \in Files, t[f] # None
      PROVE  [t[f] EXCEPT !.state = to] \in EntriesOf(J)
  <2>1. t[f] \in EntriesOf(J) BY <1>1 DEF Transfers
  <2> QED BY <2>1 DEF EntriesOf
<1>2. ASSUME NEW f \in Files
      PROVE  (IF t[f] # None /\ t[f].state = from
              THEN [t[f] EXCEPT !.state = to] ELSE t[f]) \in {None} \cup EntriesOf(J)
  BY <1>1 DEF Transfers
<1> QED BY <1>2 DEF Passing, Transfers

LEMMA BeginFrameStep ==
  ASSUME LoadInv, BeginFrame
  PROVE  LoadInv'
<1> USE DEF LoadInv
<1>1. /\ tasks' = mainQueue /\ mainQueue' = <<>> /\ pc = "idle"
      /\ UNCHANGED <<serverVars, sessionVars, corrupt, jobVars, stored,
                     modelVars, inUse, modelConfig, modelHandling>>
  BY DEF BeginFrame
<1>2. transfers' \in Transfers(DOMAIN jobs)
  BY PassingType DEF BeginFrame, JobTypes
<1>3. PcTypes' /\ spawnRun' \in BOOLEAN
  <2>1. CASE mainQueue = <<>>
    <3>1. Continue(0, FALSE) /\ tasks' = <<>> BY <1>1, <2>1 DEF BeginFrame
    <3>2. 0 \in 0..5 OBVIOUS
    <3> QED BY <3>1, <3>2, ContinueTypes, Zenon
  <2>2. CASE mainQueue # <<>>
    <3>1. pc' = "tasks" /\ spawnRun' = spawnRun BY <2>2 DEF BeginFrame
    <3> QED BY <1>1, <2>2, <3>1 DEF PcTypes, SessionTypes
  <2> QED BY <2>1, <2>2
<1>4. ServerTypeOK' BY <1>1 DEF serverVars, ServerTypeOK
<1> USE DEF sessionVars, jobVars, modelVars
<1>5. JobTypes' BY <1>1, <1>2 DEF JobTypes
<1>6. SessionTypes' BY <1>1, <1>3 DEF SessionTypes
<1>7. ModelTypes' BY <1>1 DEF ModelTypes
<1>8. QueueInv' /\ UsedIsKept' BY <1>1 DEF QueueInv, UsedIsKept
<1> QED BY <1>3, <1>4, <1>5, <1>6, <1>7, <1>8

LEMMA RunTaskStep ==
  ASSUME LoadInv, RunTask
  PROVE  LoadInv'
<1> DEFINE t == Head(tasks)
           s == Outcome(t)
           J == DOMAIN jobs
           c == IF s.push THEN Append(completedQueue, t.job) ELSE completedQueue
           jb == [jobs EXCEPT ![t.job] = s.job]
<1> USE DEF LoadInv
<1>1. /\ pc = "tasks" /\ t.type # "spawn" /\ tasks' = Tail(tasks)
      /\ jobs' = jb /\ stored' = s.stored /\ completedQueue' = c
      /\ transfers' \in {Passing(s.transfers, "sent", "waiting"), s.transfers}
      /\ UNCHANGED <<serverVars, sessionVars, corrupt, activeIds, defQueue,
                     finalizeQueue, mainQueue, modelVars, inUse, modelConfig,
                     modelHandling>>
  BY DEF RunTask
<1>2. tasks # <<>> /\ tasks \in Seq(TasksOf(J))
  BY <1>1 DEF PcTypes, JobTypes
<1>3. t \in TasksOf(J) /\ Tail(tasks) \in Seq(TasksOf(J))
  BY <1>2
<1>4. stored \subseteq Files BY DEF ModelTypes
<1> DEFINE w == Working(t.job)
<1>5. t.job \in J /\ w \in Works(J) /\ Passed(J, w, s)
  BY <1>1, <1>3, <1>4, OutcomePassed
<1>6. w.job = jobs[t.job] /\ ~w.push BY DEF Working
<1>7. PcTypes' /\ spawnRun' \in BOOLEAN
  <2>1. CASE Len(tasks) = 1
    <3>1. Continue(0, FALSE) BY <2>1 DEF RunTask
    <3>2. tasks' = <<>> /\ 0 \in 0..5 BY <1>1, <1>2, <2>1
    <3> QED BY <3>1, <3>2, ContinueTypes, Zenon
  <2>2. CASE Len(tasks) # 1
    <3>1. pc' = "tasks" /\ spawnRun' = spawnRun BY <2>2 DEF RunTask
    <3>2. Len(Tail(tasks)) # 0 BY <1>2, <2>2
    <3>3. tasks' = Tail(tasks) /\ Len(<<>>) = 0 BY <1>1
    <3>4. tasks' # <<>> BY <3>2, <3>3
    <3> QED BY <3>1, <3>4 DEF PcTypes, SessionTypes
  <2> QED BY <2>1, <2>2
<1>8. ServerTypeOK' BY <1>1 DEF serverVars, ServerTypeOK
<1> HIDE DEF t, s, w
<1>9. s.stored \subseteq Files /\ s.transfers \in Transfers(J)
  BY <1>5 DEF Passed, Works
<1>10. transfers' \in Transfers(J)
  BY <1>1, <1>9, PassingType
<1>11. /\ jb \in Seq(JobRecords) /\ DOMAIN jb = J /\ Len(jb) = Len(jobs)
       /\ c \in Seq(J) /\ QueuesOK(jb, c, finalizeQueue)
  <2>1. /\ jobs \in Seq(JobRecords) /\ completedQueue \in Seq(DOMAIN jobs)
        /\ finalizeQueue \in Seq(DOMAIN jobs)
        /\ QueuesOK(jobs, completedQueue, finalizeQueue)
    BY DEF JobTypes, QueueInv
  <2>2. jb = [jobs EXCEPT ![t.job] = s.job]
        /\ c = IF s.push THEN Append(completedQueue, t.job) ELSE completedQueue
    OBVIOUS
  <2> HIDE DEF jb, c
  <2>3. JobSteps(jobs, t.job, completedQueue, finalizeQueue, w, s, jb, c)
    BY <1>5, <1>6, <2>1, <2>2 DEF JobSteps
  <2> QED BY <2>3, PushStep
<1> HIDE DEF jb, c
<1> USE DEF sessionVars, modelVars
<1>12. JobTypes'
  BY <1>1, <1>3, <1>10, <1>11 DEF JobTypes
<1>13. QueueInv' BY <1>1, <1>11 DEF QueueInv
<1>14. SessionTypes' BY <1>1, <1>7 DEF SessionTypes
<1>15. ModelTypes' BY <1>1, <1>9 DEF ModelTypes
<1>16. UsedIsKept' BY <1>1 DEF UsedIsKept
<1> QED BY <1>7, <1>8, <1>12, <1>13, <1>14, <1>15, <1>16

LEMMA RunSpawnTaskStep ==
  ASSUME LoadInv, RunSpawnTask
  PROVE  LoadInv'
<1> USE DEF LoadInv
<1>1. /\ pc = "tasks" /\ tasks' = Tail(tasks) /\ Continue(0, TRUE)
      /\ transfers' \in {Passing(transfers, "sent", "waiting"), transfers}
      /\ UNCHANGED <<serverVars, sessionVars, corrupt, jobVars, mainQueue, stored,
                     modelVars, inUse, modelConfig, modelHandling>>
  BY DEF RunSpawnTask
<1>2. PcTypes' /\ spawnRun' \in BOOLEAN
  <2>1. 0 \in 0..5 OBVIOUS
  <2> QED BY <1>1, <2>1, ContinueTypes, Zenon
<1>3. tasks' \in Seq(TasksOf(DOMAIN jobs))
  BY <1>1 DEF PcTypes, JobTypes
<1>4. transfers' \in Transfers(DOMAIN jobs)
  BY <1>1, PassingType DEF JobTypes
<1>5. ServerTypeOK' BY <1>1 DEF serverVars, ServerTypeOK
<1> USE DEF sessionVars, jobVars, modelVars
<1>6. JobTypes' BY <1>1, <1>3, <1>4 DEF JobTypes
<1>7. SessionTypes' BY <1>1, <1>2 DEF SessionTypes
<1>8. ModelTypes' BY <1>1 DEF ModelTypes
<1>9. QueueInv' /\ UsedIsKept' BY <1>1 DEF QueueInv, UsedIsKept
<1> QED BY <1>2, <1>5, <1>6, <1>7, <1>8, <1>9

-----------------------------------------------------------------------------
(* The phases. *)

\* A phase leaves the tasks alone, and none waits unless it is RPC_Spawn's.
LEMMA PhaseContinues ==
  ASSUME SessionTypes, PcTypes, pc # "tasks", UNCHANGED tasks,
         NEW i \in 0..5, Continue(i, spawnRun)
  PROVE  PcTypes' /\ spawnRun' \in BOOLEAN
<1>1. spawnRun \in BOOLEAN BY DEF SessionTypes
<1>2. tasks' # <<>> => spawnRun BY DEF PcTypes
<1> QED BY <1>1, <1>2, ContinueTypes, Zenon

LEMMA ClearAllStep ==
  ASSUME LoadInv, ProcessPendingClearAll
  PROVE  LoadInv'
<1> USE DEF LoadInv
<1>1. /\ pc = "clear" /\ clearAll' = FALSE /\ Continue(1, spawnRun)
      /\ \/ loaded' = [m \in Models |-> None] /\ inUse' = {}
         \/ UNCHANGED <<loaded, inUse>>
      /\ UNCHANGED <<serverVars, sessionVars, corrupt, jobVars, mainQueue, tasks,
                     fileVars, destroyQueue, modelConfig, modelHandling>>
  BY DEF ProcessPendingClearAll
<1>2. PcTypes' /\ spawnRun' \in BOOLEAN
  <2>1. 1 \in 0..5 /\ pc # "tasks" /\ UNCHANGED tasks BY <1>1
  <2> QED BY <1>1, <2>1, PhaseContinues, Zenon
<1>3. ServerTypeOK' BY <1>1 DEF serverVars, ServerTypeOK
<1> USE DEF sessionVars, jobVars, fileVars
<1>4. JobTypes' BY <1>1 DEF JobTypes
<1>5. SessionTypes' BY <1>1, <1>2 DEF SessionTypes
<1>6. ModelTypes' BY <1>1 DEF ModelTypes
<1>7. QueueInv' /\ UsedIsKept' BY <1>1 DEF QueueInv, UsedIsKept
<1> QED BY <1>2, <1>3, <1>4, <1>5, <1>6, <1>7

LEMMA DefinitionsStep ==
  ASSUME LoadInv, ProcessPendingDefinitions
  PROVE  LoadInv'
<1> USE DEF LoadInv
<1> DEFINE r == AllBegun
<1>1. /\ pc = "definitions" /\ Continue(2, spawnRun)
      /\ \/ /\ jobs' = r.jobs /\ transfers' = r.transfers
            /\ stored' = r.stored /\ completedQueue' = r.completed
            /\ defQueue' = <<>>
         \/ UNCHANGED <<jobs, fileVars, completedQueue, defQueue>>
      /\ UNCHANGED <<serverVars, sessionVars, corrupt, activeIds,
                     finalizeQueue, mainQueue, tasks, modelVars, inUse,
                     modelConfig, modelHandling>>
  BY DEF ProcessPendingDefinitions
<1>2. PcTypes' /\ spawnRun' \in BOOLEAN
  <2>1. 2 \in 0..5 /\ pc # "tasks" /\ UNCHANGED tasks BY <1>1
  <2> QED BY <1>1, <2>1, PhaseContinues, Zenon
<1>3. ServerTypeOK' BY <1>1 DEF serverVars, ServerTypeOK
<1>4. r \in Begins BY AllBegunType DEF ModelTypes
<1> HIDE DEF r
<1>5. /\ r.jobs \in Seq(JobRecords) /\ r.transfers \in Transfers(DOMAIN jobs)
      /\ r.stored \subseteq Files /\ r.completed \in Seq(DOMAIN jobs)
      /\ DOMAIN r.jobs = DOMAIN jobs /\ Len(r.jobs) = Len(jobs)
      /\ QueuesOK(r.jobs, r.completed, finalizeQueue)
  BY <1>4 DEF Begins
<1> USE DEF sessionVars, modelVars, fileVars
<1>6. /\ jobs' \in Seq(JobRecords) /\ transfers' \in Transfers(DOMAIN jobs)
      /\ stored' \subseteq Files /\ completedQueue' \in Seq(DOMAIN jobs)
      /\ DOMAIN jobs' = DOMAIN jobs /\ Len(jobs') = Len(jobs)
      /\ defQueue' \in Seq(DOMAIN jobs)
      /\ QueuesOK(jobs', completedQueue', finalizeQueue)
  <2>1. CASE jobs' = r.jobs /\ transfers' = r.transfers
             /\ stored' = r.stored /\ completedQueue' = r.completed
             /\ defQueue' = <<>>
    BY <1>5, <2>1
  <2>2. CASE UNCHANGED <<jobs, fileVars, completedQueue, defQueue>>
    BY <2>2 DEF JobTypes, ModelTypes, QueueInv
  <2> QED BY <1>1, <2>1, <2>2
<1>7. JobTypes' BY <1>1, <1>6 DEF JobTypes
<1>8. QueueInv' BY <1>1, <1>6 DEF QueueInv
<1>9. SessionTypes' BY <1>1, <1>2 DEF SessionTypes
<1>10. ModelTypes' /\ UsedIsKept' BY <1>1, <1>6 DEF ModelTypes, UsedIsKept
<1> QED BY <1>2, <1>3, <1>7, <1>8, <1>9, <1>10

\* What the finalization of a queue leaves behind.
LEMMA TakeOverTypes ==
  ASSUME LoadInv, NEW q \in Seq(DOMAIN jobs), NEW d \in Seq(DOMAIN jobs),
         NEW c \in Seq(DOMAIN jobs),
         NoTwice(q), NoTwice(d), NoTwice(c), Apart(q, d), Apart(c, d),
         Apart(c, q), Open(jobs, q), Open(jobs, d), Open(jobs, c),
         TakeOver(Finalization(q, d)), completedQueue' = c,
         UNCHANGED <<defQueue, mainQueue, tasks, transfers, clearAll, inUse,
                     modelHandling>>
  PROVE  /\ JobTypes' /\ ModelTypes' /\ QueueInv' /\ UsedIsKept'
         /\ KeepsSent(modelConfig')
<1> DEFINE r == Finalization(q, d)
<1> USE DEF LoadInv
<1>1. /\ jobs' = r.jobs /\ loaded' = r.loaded /\ stored' = r.stored
      /\ modelConfig' = r.config /\ destroyQueue' = r.destroy
      /\ finalizeQueue' = r.deferred
  BY DEF TakeOver
<1>2. r \in Ends /\ QueuesOK(r.jobs, c, r.deferred)
  <2>1. /\ \A m \in inUse : loaded[m] # None
        /\ \A j \in DOMAIN jobs : jobs[j].finalized => jobs[j].queued
        /\ spawned \in BOOLEAN
    BY DEF UsedIsKept, QueueInv, QueuesOK, SessionTypes
  <2> QED BY <2>1, FinalizationQueues
<1> HIDE DEF r
<1>3. /\ jobs' \in Seq(JobRecords) /\ DOMAIN jobs' = DOMAIN jobs
      /\ Len(jobs') = Len(jobs)
      /\ loaded' \in [Models -> LoadedRecords \cup {None}]
      /\ stored' \subseteq Files
      /\ modelConfig' \in [Models -> [DOMAIN NoConfig -> Values]]
      /\ destroyQueue' \subseteq Models /\ finalizeQueue' \in Seq(DOMAIN jobs)
      /\ \A m \in inUse : loaded'[m] # None
      /\ KeepsSent(modelConfig')
  BY <1>1, <1>2 DEF Ends
<1>4. QueueInv' BY <1>1, <1>2 DEF QueueInv
<1>5. JobTypes' BY <1>3 DEF JobTypes
<1>6. ModelTypes'
  <2>1. DOMAIN NoConfig = (DOMAIN NoConfig)' OBVIOUS
  <2> QED BY <1>3, <2>1 DEF ModelTypes
<1>7. UsedIsKept' BY <1>3 DEF UsedIsKept
<1> QED BY <1>3, <1>4, <1>5, <1>6, <1>7

LEMMA CompletedStep ==
  ASSUME LoadInv, ProcessCompletedDownloads
  PROVE  LoadInv' /\ KeepsSent(modelConfig')
<1> USE DEF LoadInv
<1>1. /\ pc = "completed" /\ Continue(3, spawnRun)
      /\ TakeOver(Finalization(completedQueue, finalizeQueue))
      /\ completedQueue' = <<>>
      /\ UNCHANGED <<serverVars, sessionVars, corrupt, activeIds, defQueue,
                     mainQueue, tasks, transfers, clearAll, inUse, modelHandling>>
  BY DEF ProcessCompletedDownloads
<1>2. PcTypes' /\ spawnRun' \in BOOLEAN
  <2>1. 3 \in 0..5 /\ pc # "tasks" /\ UNCHANGED tasks BY <1>1
  <2> QED BY <1>1, <2>1, PhaseContinues, Zenon
<1>3. ServerTypeOK' BY <1>1 DEF serverVars, ServerTypeOK
<1>4. /\ NoTwice(<<>>) /\ Apart(<<>>, finalizeQueue) /\ Apart(<<>>, completedQueue)
      /\ Open(jobs, <<>>) /\ <<>> \in Seq(DOMAIN jobs)
  BY DEF NoTwice, Apart, Open
<1>5. /\ JobTypes' /\ ModelTypes' /\ QueueInv' /\ UsedIsKept'
      /\ KeepsSent(modelConfig')
  <2>1. /\ completedQueue \in Seq(DOMAIN jobs) /\ finalizeQueue \in Seq(DOMAIN jobs)
        /\ NoTwice(completedQueue) /\ NoTwice(finalizeQueue)
        /\ Apart(completedQueue, finalizeQueue)
        /\ Open(jobs, completedQueue) /\ Open(jobs, finalizeQueue)
    BY DEF JobTypes, QueueInv, QueuesOK
  <2> QED BY <1>1, <1>4, <2>1, TakeOverTypes
<1>6. SessionTypes' BY <1>1, <1>2 DEF SessionTypes, sessionVars
<1> QED BY <1>2, <1>3, <1>5, <1>6

LEMMA FinalizationsStep ==
  ASSUME LoadInv, ProcessPendingFinalizations
  PROVE  LoadInv' /\ KeepsSent(modelConfig')
<1> USE DEF LoadInv
<1>1. /\ pc = "finalizations" /\ Continue(4, spawnRun)
      /\ \/ TakeOver(Finalization(finalizeQueue, <<>>))
         \/ UNCHANGED <<jobs, loaded, stored, modelConfig, destroyQueue,
                        finalizeQueue>>
      /\ UNCHANGED <<serverVars, sessionVars, corrupt, activeIds, defQueue,
                     completedQueue, mainQueue, tasks, transfers, clearAll, inUse,
                     modelHandling>>
  BY DEF ProcessPendingFinalizations
<1>2. PcTypes' /\ spawnRun' \in BOOLEAN
  <2>1. 4 \in 0..5 /\ pc # "tasks" /\ UNCHANGED tasks BY <1>1
  <2> QED BY <1>1, <2>1, PhaseContinues, Zenon
<1>3. ServerTypeOK' BY <1>1 DEF serverVars, ServerTypeOK
<1>4. /\ NoTwice(<<>>) /\ Apart(finalizeQueue, <<>>) /\ Apart(completedQueue, <<>>)
      /\ Open(jobs, <<>>) /\ <<>> \in Seq(DOMAIN jobs)
  BY DEF NoTwice, Apart, Open
<1>5. /\ JobTypes' /\ ModelTypes' /\ QueueInv' /\ UsedIsKept'
      /\ KeepsSent(modelConfig')
  <2>1. /\ completedQueue \in Seq(DOMAIN jobs) /\ finalizeQueue \in Seq(DOMAIN jobs)
        /\ NoTwice(completedQueue) /\ NoTwice(finalizeQueue)
        /\ Apart(completedQueue, finalizeQueue)
        /\ Open(jobs, completedQueue) /\ Open(jobs, finalizeQueue)
    BY DEF JobTypes, QueueInv, QueuesOK
  <2>2. CASE TakeOver(Finalization(finalizeQueue, <<>>))
    BY <1>1, <1>4, <2>1, <2>2, TakeOverTypes
  <2>3. CASE UNCHANGED <<jobs, loaded, stored, modelConfig, destroyQueue,
                         finalizeQueue>>
    BY <1>1, <2>3 DEF JobTypes, ModelTypes, QueueInv, UsedIsKept, KeepsSent
  <2> QED BY <1>1, <2>2, <2>3
<1>6. SessionTypes' BY <1>1, <1>2 DEF SessionTypes, sessionVars
<1> QED BY <1>2, <1>3, <1>5, <1>6

LEMMA DestructionsStep ==
  ASSUME LoadInv, ProcessPendingDestructions
  PROVE  LoadInv'
<1> USE DEF LoadInv
<1>1. /\ pc = "destructions" /\ pc' = "idle" /\ spawnRun' = spawnRun
      /\ \/ /\ destroyQueue' = destroyQueue \cap inUse
            /\ loaded' = [m \in Models |-> IF m \in destroyQueue \ inUse
                                           THEN None ELSE loaded[m]]
         \/ UNCHANGED <<destroyQueue, loaded>>
      /\ UNCHANGED <<serverVars, sessionVars, corrupt, jobVars, mainQueue, tasks,
                     fileVars, clearAll, inUse, modelConfig, modelHandling>>
  BY DEF ProcessPendingDestructions, CurrentlyInUse
<1>2. ServerTypeOK' BY <1>1 DEF serverVars, ServerTypeOK
<1> USE DEF sessionVars, jobVars, fileVars
<1>3. JobTypes' BY <1>1 DEF JobTypes
<1>4. SessionTypes' /\ PcTypes' BY <1>1 DEF SessionTypes, PcTypes
<1>5. loaded' \in [Models -> LoadedRecords \cup {None}]
      /\ destroyQueue' \subseteq Models
  BY <1>1 DEF ModelTypes
<1>6. ModelTypes' BY <1>1, <1>5 DEF ModelTypes
<1>7. QueueInv' BY <1>1 DEF QueueInv
<1>8. UsedIsKept' BY <1>1 DEF UsedIsKept, ModelTypes
<1> QED BY <1>2, <1>3, <1>4, <1>6, <1>7, <1>8

-----------------------------------------------------------------------------
(* The session. *)

\* A session's end or beginning: the queues are cleared, or nothing is.
LEMMA QueuesCleared ==
  ASSUME LoadInv, ClientUnchanged,
         \/ RequestClearAll
         \/ UNCHANGED <<defQueue, completedQueue, finalizeQueue, clearAll,
                        activeIds>>,
         ResetAll, CancelAll \/ UNCHANGED <<mainQueue, transfers>>
  PROVE  /\ JobTypes' /\ PcTypes' /\ ModelTypes' /\ QueueInv' /\ UsedIsKept'
         /\ activeIds' \subseteq Models /\ spawnRun' \in BOOLEAN
         /\ corrupt' \in [Models -> Faults]
<1> USE DEF LoadInv, ClientUnchanged
<1>1. /\ defQueue' \in {defQueue, <<>>}
      /\ \/ UNCHANGED <<completedQueue, finalizeQueue>>
         \/ completedQueue' = <<>> /\ finalizeQueue' = <<>>
      /\ clearAll' \in BOOLEAN /\ activeIds' \subseteq Models
  BY DEF RequestClearAll, ModelTypes, SessionTypes
<1>2. /\ defQueue' \in Seq(DOMAIN jobs)
      /\ completedQueue' \in Seq(DOMAIN jobs)
      /\ finalizeQueue' \in Seq(DOMAIN jobs)
  <2>1. <<>> \in Seq(DOMAIN jobs) OBVIOUS
  <2> QED BY <1>1, <2>1 DEF JobTypes
<1>3. /\ mainQueue' \in Seq(TasksOf(DOMAIN jobs))
      /\ transfers' \in Transfers(DOMAIN jobs)
  <2>1. CASE CancelAll
    <3>1. /\ ToldTasks(Files) \in Seq(TasksOf(DOMAIN jobs))
          /\ Without(Files) \in Transfers(DOMAIN jobs)
      BY ToldType
    <3> QED BY <2>1, <3>1 DEF CancelAll, JobTypes
  <2>2. CASE UNCHANGED <<mainQueue, transfers>> BY <2>2 DEF JobTypes
  <2> QED BY <2>1, <2>2
<1>4. JobTypes' BY <1>2, <1>3 DEF JobTypes
<1>5. QueueInv'
  <2>1. CASE UNCHANGED <<completedQueue, finalizeQueue>>
    BY <2>1 DEF QueueInv
  <2>2. CASE completedQueue' = <<>> /\ finalizeQueue' = <<>>
    BY <2>2 DEF QueueInv, QueuesOK, NoTwice, Apart, Open
  <2> QED BY <1>1, <2>1, <2>2
<1>6. modelHandling' \in [Models -> [Attributes -> Values \cup {None}]]
  BY DEF ResetAll, NoHandling
<1>7. ModelTypes' BY <1>1, <1>6 DEF ModelTypes
<1>8. PcTypes' /\ UsedIsKept' BY DEF PcTypes, UsedIsKept
<1>9. spawnRun' \in BOOLEAN /\ corrupt' \in [Models -> Faults]
  BY DEF SessionTypes
<1> QED BY <1>1, <1>4, <1>5, <1>7, <1>8, <1>9

LEMMA SessionSteps ==
  ASSUME LoadInv, Join \/ InitGame \/ GameModeRestart \/ Leave
  PROVE  LoadInv'
<1> USE DEF LoadInv
<1>1. /\ ClientUnchanged /\ ServerUnchanged /\ ResetAll /\ NotSpawned
      /\ \/ RequestClearAll
         \/ UNCHANGED <<defQueue, completedQueue, finalizeQueue, clearAll,
                        activeIds>>
      /\ CancelAll \/ UNCHANGED <<mainQueue, transfers>>
      /\ authorized' \in {FALSE, authorized} /\ initGame' \in {TRUE, FALSE, initGame}
      /\ gone' \in {destroyQueue, gone}
      /\ connected' \in {TRUE, FALSE, connected}
      /\ extended' \in {FALSE, extended}
      /\ wire' \in {wire, <<>>,
                    Append(wire, [type |-> "authorized", model |-> None])}
  <2>1. CASE Join BY <2>1 DEF Join
  <2>2. CASE InitGame BY <2>2 DEF InitGame
  <2>3. CASE GameModeRestart BY <2>3 DEF GameModeRestart
  <2>4. CASE Leave BY <2>4 DEF Leave
  <2> QED BY <2>1, <2>2, <2>3, <2>4
<1>2. /\ JobTypes' /\ PcTypes' /\ ModelTypes' /\ QueueInv' /\ UsedIsKept'
      /\ activeIds' \subseteq Models /\ spawnRun' \in BOOLEAN
      /\ corrupt' \in [Models -> Faults]
  BY <1>1, QueuesCleared
<1>3. SessionTypes'
  BY <1>1, <1>2 DEF SessionTypes, ModelTypes, NotSpawned
<1>4. wire' \in Seq(Packets)
  <2>1. [type |-> "authorized", model |-> None] \in Packets BY DEF Packets
  <2>2. wire \in Seq(Packets) /\ <<>> \in Seq(Packets) BY DEF ServerTypeOK
  <2> DEFINE p == [type |-> "authorized", model |-> None]
  <2>3. Append(wire, p) \in Seq(Packets)
    <3> HIDE DEF p
    <3> QED BY <2>1, <2>2 DEF p
  <2>4. wire' \in {wire, <<>>, Append(wire, p)} BY <1>1
  <2> QED BY <2>2, <2>3, <2>4
<1>5. ServerTypeOK'
  BY <1>1, <1>4 DEF ServerTypeOK, ServerUnchanged
<1> QED BY <1>2, <1>3, <1>5

LEMMA SpawnStep ==
  ASSUME LoadInv, Spawn
  PROVE  LoadInv'
<1> USE DEF LoadInv
<1>1. /\ spawned' = TRUE
      /\ mainQueue' = Append(mainQueue, Task("spawn", 0, "txd"))
      /\ UNCHANGED <<serverVars, authorized, initGame, gone, sessions, restarts,
                     corrupt, jobVars, tasks, pc, spawnRun, fileVars, modelVars,
                     inUse, modelConfig, modelHandling>>
  BY DEF Spawn
<1>2. mainQueue' \in Seq(TasksOf(DOMAIN jobs))
  <2>1. Task("spawn", 0, "txd") \in TasksOf(DOMAIN jobs) BY DEF TasksOf
  <2>2. mainQueue \in Seq(TasksOf(DOMAIN jobs)) BY DEF JobTypes
  <2> QED BY <1>1, <2>1, <2>2
<1>3. ServerTypeOK' BY <1>1 DEF serverVars, ServerTypeOK
<1> USE DEF jobVars, fileVars, modelVars
<1>4. JobTypes' BY <1>1, <1>2 DEF JobTypes
<1>5. SessionTypes' /\ PcTypes' BY <1>1 DEF SessionTypes, PcTypes
<1>6. ModelTypes' BY <1>1 DEF ModelTypes
<1>7. QueueInv' /\ UsedIsKept' BY <1>1 DEF QueueInv, UsedIsKept
<1> QED BY <1>3, <1>4, <1>5, <1>6, <1>7

LEMMA UseStep ==
  ASSUME LoadInv, NEW m \in Models, Use(m)
  PROVE  LoadInv'
<1> USE DEF LoadInv, sessionVars, jobVars, taskVars, fileVars, modelVars
<1>1. /\ \/ inUse' = inUse \ {m}
         \/ inUse' = inUse \cup {m} /\ loaded[m] # None
      /\ UNCHANGED <<serverVars, sessionVars, corrupt, jobVars, taskVars,
                     fileVars, modelVars, modelConfig, modelHandling>>
  BY DEF Use
<1>2. ServerTypeOK' BY <1>1 DEF serverVars, ServerTypeOK
<1>3. JobTypes' BY <1>1 DEF JobTypes
<1>4. SessionTypes' /\ PcTypes' BY <1>1 DEF SessionTypes, PcTypes
<1>5. ModelTypes' BY <1>1 DEF ModelTypes
<1>6. QueueInv' BY <1>1 DEF QueueInv
<1>7. UsedIsKept' BY <1>1 DEF UsedIsKept
<1> QED BY <1>2, <1>3, <1>4, <1>5, <1>6, <1>7

LEMMA LoadStep == LoadInv /\ [Next]_vars => LoadInv'
<1> SUFFICES ASSUME LoadInv, [Next]_vars PROVE LoadInv' OBVIOUS
<1>1. CASE OnServer BY <1>1, OnServerStep
<1>2. CASE Receive BY <1>2, ReceiveStep
<1>3. CASE \E f \in Files : \/ TransferEnds(f) \/ TransferRefused(f)
                            \/ TransferFails(f) \/ ManualRetry(f)
  BY <1>3, TransferSteps
<1>4. CASE MainThread
  <2>1. CASE BeginFrame BY <2>1, BeginFrameStep
  <2>2. CASE RunTask BY <2>2, RunTaskStep
  <2>3. CASE RunSpawnTask BY <2>3, RunSpawnTaskStep
  <2>4. CASE ProcessPendingClearAll BY <2>4, ClearAllStep
  <2>5. CASE ProcessPendingDefinitions BY <2>5, DefinitionsStep
  <2>6. CASE ProcessCompletedDownloads BY <2>6, CompletedStep
  <2>7. CASE ProcessPendingFinalizations BY <2>7, FinalizationsStep
  <2>8. CASE ProcessPendingDestructions BY <2>8, DestructionsStep
  <2> QED
    BY <1>4, <2>1, <2>2, <2>3, <2>4, <2>5, <2>6, <2>7, <2>8 DEF MainThread
<1>5. CASE Join \/ InitGame \/ GameModeRestart \/ Leave BY <1>5, SessionSteps
<1>6. CASE Spawn BY <1>6, SpawnStep
<1>7. CASE \E m \in Models : Use(m) BY <1>7, UseStep
<1>8. CASE UNCHANGED vars
  <2> USE <1>8 DEF vars, LoadInv, sessionVars, jobVars, taskVars, fileVars,
                   modelVars
  <2>1. ServerTypeOK' BY DEF serverVars, ServerTypeOK
  <2>2. JobTypes' BY DEF JobTypes
  <2>3. SessionTypes' /\ PcTypes' BY DEF SessionTypes, PcTypes
  <2>4. ModelTypes' BY DEF ModelTypes
  <2>5. QueueInv' /\ UsedIsKept' BY DEF QueueInv, UsedIsKept
  <2> QED BY <2>1, <2>2, <2>3, <2>4, <2>5
<1> QED BY <1>1, <1>2, <1>3, <1>4, <1>5, <1>6, <1>7, <1>8 DEF Next

LEMMA LoadInvariant == Spec => []LoadInv
BY LoadInitially, LoadStep, PTL DEF Spec

-----------------------------------------------------------------------------
(* The configuration of models. *)

\* A packet about field x of model m.
Covers(p, m, x) ==
    /\ p.type = "define" \/ (p.type = "plate" /\ x \in PlateFields)
    /\ p.model = m

\* Who has s of it, and takes the packets of q, has v in the end.
LastOf(q, i, m, x) == \A k \in 1..Len(q) : k > i => ~Covers(q[k], m, x)
LeadsTo(q, s, m, x, v) ==
    \/ LastOf(q, 0, m, x) /\ s = v
    \/ \E i \in 1..Len(q) :
          Covers(q[i], m, x) /\ q[i].def.fields[x] = v /\ LastOf(q, i, m, x)

\* A player who was told the definitions has what the server has, or it is
\* under way.
ConfigInv ==
    /\ extended => connected
    /\ extended => \A m \in Models : \A x \in Sent :
          defs[m] # None =>
              LeadsTo(wire, modelConfig[m][x], m, x, defs[m].fields[x])

LEMMA WireItems ==
  ASSUME NEW q \in Seq(Packets), NEW r \in Seq(Packets)
  PROVE  /\ q \o r \in Seq(Packets)
         /\ Len(q \o r) = Len(q) + Len(r) /\ Len(q) \in Nat /\ Len(r) \in Nat
         /\ \A i \in 1..Len(q) : (q \o r)[i] = q[i]
         /\ \A i \in 1..Len(r) : (q \o r)[Len(q) + i] = r[i]
         /\ \A i \in 1..Len(q \o r) : i > Len(q) =>
               i - Len(q) \in 1..Len(r) /\ (q \o r)[i] = r[i - Len(q)]
OBVIOUS

\* Packets about something else change nothing.
LEMMA LeadsStill ==
  ASSUME NEW q \in Seq(Packets), NEW r \in Seq(Packets), NEW s, NEW m, NEW x,
         NEW v, LeadsTo(q, s, m, x, v), LastOf(r, 0, m, x)
  PROVE  LeadsTo(q \o r, s, m, x, v)
<1>1. ASSUME NEW i \in 0..Len(q), LastOf(q, i, m, x)
      PROVE  LastOf(q \o r, i, m, x)
  <2> SUFFICES ASSUME NEW k \in 1..Len(q \o r), k > i
               PROVE  ~Covers((q \o r)[k], m, x)
    BY DEF LastOf
  <2>1. CASE k > Len(q)
    <3>1. k - Len(q) \in 1..Len(r) /\ (q \o r)[k] = r[k - Len(q)]
      BY <2>1, WireItems
    <3>2. k - Len(q) > 0 BY <3>1
    <3> QED BY <3>1, <3>2 DEF LastOf
  <2>2. CASE ~(k > Len(q))
    <3>1. k \in 1..Len(q) /\ (q \o r)[k] = q[k] BY <2>2, WireItems
    <3> QED BY <1>1, <3>1 DEF LastOf
  <2> QED BY <2>1, <2>2
<1>2. \A i \in 1..Len(q) : i \in 0..Len(q) /\ i \in 1..Len(q \o r)
                           /\ (q \o r)[i] = q[i]
  BY WireItems
<1>3. 0 \in 0..Len(q) OBVIOUS
<1> QED BY <1>1, <1>2, <1>3 DEF LeadsTo

\* The last packet about something says what becomes of it.
LEMMA LeadsLast ==
  ASSUME NEW q \in Seq(Packets), NEW r \in Seq(Packets), NEW s, NEW m, NEW x,
         NEW i \in 1..Len(r), Covers(r[i], m, x), LastOf(r, i, m, x)
  PROVE  LeadsTo(q \o r, s, m, x, r[i].def.fields[x])
<1>1. Len(q) + i \in 1..Len(q \o r) /\ (q \o r)[Len(q) + i] = r[i]
  BY WireItems
<1>2. LastOf(q \o r, Len(q) + i, m, x)
  <2> SUFFICES ASSUME NEW k \in 1..Len(q \o r), k > Len(q) + i
               PROVE  ~Covers((q \o r)[k], m, x)
    BY DEF LastOf
  <2>1. k - Len(q) \in 1..Len(r) /\ (q \o r)[k] = r[k - Len(q)] /\ k - Len(q) > i
    BY WireItems
  <2> QED BY <2>1 DEF LastOf
<1> QED BY <1>1, <1>2 DEF LeadsTo

\* Who takes the first packet is led on by the rest.
LEMMA LeadsOn ==
  ASSUME NEW q \in Seq(Packets), q # <<>>, NEW s, NEW t, NEW m, NEW x, NEW v,
         LeadsTo(q, s, m, x, v),
         t = IF Covers(Head(q), m, x) THEN Head(q).def.fields[x] ELSE s
  PROVE  LeadsTo(Tail(q), t, m, x, v)
<1>1. /\ Len(q) \in Nat /\ Len(q) >= 1 /\ Len(Tail(q)) = Len(q) - 1
      /\ Head(q) = q[1]
      /\ \A k \in 1..Len(Tail(q)) : k + 1 \in 1..Len(q) /\ Tail(q)[k] = q[k + 1]
  OBVIOUS
<1>2. ASSUME NEW i \in 0..Len(q), LastOf(q, i, m, x), NEW j \in Nat, i <= j + 1
      PROVE  LastOf(Tail(q), j, m, x)
  <2> SUFFICES ASSUME NEW k \in 1..Len(Tail(q)), k > j
               PROVE  ~Covers(Tail(q)[k], m, x)
    BY DEF LastOf
  <2>1. k + 1 > i BY <1>2
  <2> QED BY <1>1, <1>2, <2>1 DEF LastOf
<1>3. CASE LastOf(q, 0, m, x) /\ s = v
  <2>1. ~Covers(Head(q), m, x) BY <1>1, <1>3 DEF LastOf
  <2>2. LastOf(Tail(q), 0, m, x) BY <1>1, <1>2, <1>3
  <2> QED BY <1>3, <2>1, <2>2 DEF LeadsTo
<1>4. ASSUME NEW i \in 1..Len(q), Covers(q[i], m, x), q[i].def.fields[x] = v,
             LastOf(q, i, m, x)
      PROVE  LeadsTo(Tail(q), t, m, x, v)
  <2>1. CASE i = 1
    <3>1. LastOf(Tail(q), 0, m, x) BY <1>1, <1>2, <1>4, <2>1
    <3>2. t = v BY <1>1, <1>4, <2>1
    <3> QED BY <3>1, <3>2 DEF LeadsTo
  <2>2. CASE i # 1
    <3>1. i - 1 \in 1..Len(Tail(q)) /\ Tail(q)[i - 1] = q[i]
      BY <1>1, <2>2
    <3>2. LastOf(Tail(q), i - 1, m, x) BY <1>1, <1>2, <1>4, <3>1
    <3> QED BY <1>4, <3>1, <3>2 DEF LeadsTo
  <2> QED BY <2>1, <2>2
<1> QED BY <1>3, <1>4 DEF LeadsTo

-----------------------------------------------------------------------------
(* What the natives tell a player. *)

\* Packets r tell of a definition that has changed, and of no other.
Tells(r) ==
    \A m \in Models : \A x \in Sent : defs'[m] # None =>
        \/ /\ defs[m] # None /\ defs'[m].fields[x] = defs[m].fields[x]
           /\ LastOf(r, 0, m, x)
        \/ \E i \in 1..Len(r) :
              /\ Covers(r[i], m, x) /\ r[i].def.fields[x] = defs'[m].fields[x]
              /\ LastOf(r, i, m, x)

LEMMA ToldConfig ==
  ASSUME ServerTypeOK, ConfigInv, extended, NEW r \in Seq(Packets), Tells(r),
         wire' = wire \o r, UNCHANGED <<connected, extended, modelConfig>>
  PROVE  ConfigInv'
<1>1. wire \in Seq(Packets) BY DEF ServerTypeOK
<1> SUFFICES ASSUME NEW m \in Models, NEW x \in Sent, defs'[m] # None
             PROVE  LeadsTo(wire \o r, modelConfig[m][x], m, x, defs'[m].fields[x])
  BY DEF ConfigInv
<1>2. CASE /\ defs[m] # None /\ defs'[m].fields[x] = defs[m].fields[x]
           /\ LastOf(r, 0, m, x)
  <2>1. LeadsTo(wire, modelConfig[m][x], m, x, defs[m].fields[x])
    BY <1>2 DEF ConfigInv
  <2> QED BY <1>1, <1>2, <2>1, LeadsStill
<1>3. CASE \E i \in 1..Len(r) :
              /\ Covers(r[i], m, x) /\ r[i].def.fields[x] = defs'[m].fields[x]
              /\ LastOf(r, i, m, x)
  <2>1. PICK i \in 1..Len(r) :
              /\ Covers(r[i], m, x) /\ r[i].def.fields[x] = defs'[m].fields[x]
              /\ LastOf(r, i, m, x)
    BY <1>3
  <2>2. LeadsTo(wire \o r, modelConfig[m][x], m, x, r[i].def.fields[x])
    BY <1>1, <2>1, LeadsLast
  <2> QED BY <2>1, <2>2
<1> QED BY <1>2, <1>3 DEF Tells

\* Nothing is told, or of nothing that is committed.
LEMMA TellsNothing ==
  ASSUME defs' = defs
  PROVE  Tells(<<>>)
BY DEF Tells, LastOf

LEMMA TellsOther ==
  ASSUME NEW r \in Seq(Packets),
         \A i \in 1..Len(r) : r[i].type \in {"destroy", "handling"},
         NEW m, defs' = [defs EXCEPT ![m] = None] \/ defs' = defs,
         DOMAIN defs = Models
  PROVE  Tells(r)
<1>1. \A k \in Models : defs'[k] # None => defs[k] = defs'[k] OBVIOUS
<1>2. \A k, x : LastOf(r, 0, k, x) BY DEF LastOf, Covers
<1> QED BY <1>1, <1>2 DEF Tells

\* One packet about one model, with its definition.
LEMMA TellsOne ==
  ASSUME DOMAIN defs = Models, NEW m \in Models, NEW d, d # None,
         defs' = [defs EXCEPT ![m] = d],
         NEW p, p.model = m, p.def = d,
         \/ p.type = "define"
         \/ /\ p.type = "plate" /\ defs[m] # None
            /\ \A x \in OffsetFields : d.fields[x] = defs[m].fields[x]
  PROVE  Tells(<<p>>)
<1>1. \A k \in Models : defs'[k] = IF k = m THEN d ELSE defs[k] OBVIOUS
<1>2. Len(<<p>>) = 1 /\ <<p>>[1] = p /\ 1..1 = {1} OBVIOUS
<1>3. \A k, x : LastOf(<<p>>, 1, k, x) BY <1>2 DEF LastOf
<1>4. \A k, x : ~Covers(p, k, x) => LastOf(<<p>>, 0, k, x)
  BY <1>2 DEF LastOf
<1> SUFFICES ASSUME NEW k \in Models, NEW x \in Sent, defs'[k] # None
             PROVE  \/ /\ defs[k] # None /\ defs'[k].fields[x] = defs[k].fields[x]
                       /\ LastOf(<<p>>, 0, k, x)
                    \/ /\ Covers(p, k, x) /\ p.def.fields[x] = defs'[k].fields[x]
  BY <1>2, <1>3 DEF Tells
<1>5. CASE k # m
  <2>1. ~Covers(p, k, x) BY <1>5 DEF Covers
  <2> QED BY <1>1, <1>4, <1>5, <2>1
<1>6. CASE k = m /\ Covers(p, m, x)
  BY <1>1, <1>6
<1>7. CASE k = m /\ ~Covers(p, m, x)
  <2>1. p.type = "plate" /\ x \in OffsetFields
    BY <1>7 DEF Covers, Sent
  <2> QED BY <1>1, <1>4, <1>7, <2>1
<1> QED BY <1>5, <1>6, <1>7

\* Scripts load and begin what is not committed, as they are meant to.
Plain == Reloading = FALSE /\ Restaging = FALSE

\* A step of the server that tells of what it changed.
Telling ==
    /\ \E r \in Seq(Packets) : wire' = wire \o r /\ Tells(r)
    /\ UNCHANGED <<connected, extended>>

\* Loading the model.ini of what is not committed tells nothing.
LEMMA Uncommitted ==
  ASSUME ServerTypeOK, NEW m \in Models, defs[m] = None
  PROVE  LoadedDefs(m) = defs /\ LoadPackets(m) = <<>>
<1>1. ConfigApplied(defs[m], m) = defs[m] BY DEF ConfigApplied
<1>2. defs \in [Models -> DefRecords \cup {None}] BY DEF ServerTypeOK
<1>3. LoadedDefs(m) = [defs EXCEPT ![m] = defs[m]]
  BY <1>1 DEF LoadedDefs
<1>4. [defs EXCEPT ![m] = defs[m]] = defs BY <1>2
<1> QED BY <1>3, <1>4 DEF LoadPackets

LEMMA QuietTells ==
  ASSUME ServerTypeOK, defs' = defs, UNCHANGED <<connected, extended>>,
         wire' = wire \/ wire' = wire \o <<>>
  PROVE  Telling
<1>1. wire' = wire \o <<>> BY DEF ServerTypeOK
<1>2. <<>> \in Seq(Packets) OBVIOUS
<1> QED BY <1>1, <1>2, TellsNothing DEF Telling

LEMMA LoadTells ==
  ASSUME ServerTypeOK, Plain, NEW m \in Models,
         \/ LoadCustomVehicleConfig(m) \/ BeginCustomVehicleDef(m)
         \/ /\ DefineCustomVehicleFromConfig(m)
            /\ defs' = LoadedDefs(m) /\ Post(LoadPackets(m), connected)
  PROVE  Telling
<1>1. /\ defs[m] = None /\ defs' = LoadedDefs(m)
      /\ Post(LoadPackets(m), connected) /\ PlayerUnchanged
  BY DEF Plain, LoadCustomVehicleConfig, BeginCustomVehicleDef,
         DefineCustomVehicleFromConfig
<1>2. defs' = defs /\ LoadPackets(m) = <<>>
  BY <1>1, Uncommitted
<1>3. wire' = wire \/ wire' = wire \o <<>>
  BY <1>1, <1>2 DEF Post
<1> QED BY <1>1, <1>2, <1>3, QuietTells DEF PlayerUnchanged

LEMMA CommitTells ==
  ASSUME ServerTypeOK, connected, PlayerUnchanged, NEW m \in Models,
         NEW d \in DefRecords, NEW h, d # None, Commit(m, d, h, <<>>)
  PROVE  Telling
<1> DEFINE p == DefinePacket(m, d)
<1>1. defs' = [defs EXCEPT ![m] = d]
      /\ Post(Append(<<>>, p), connected)
  BY DEF Commit
<1>2. p \in Packets /\ p.type = "define" /\ p.model = m /\ p.def = d
  <2>1. p \in Packets BY PacketTypes
  <2> QED BY <2>1 DEF DefinePacket
<1> HIDE DEF p
<1>3. <<p>> \in Seq(Packets) /\ Append(<<>>, p) = <<p>> BY <1>2
<1>4. wire' = wire \o <<p>> BY <1>1, <1>3 DEF Post
<1>5. Tells(<<p>>)
  <2>1. DOMAIN defs = Models BY DEF ServerTypeOK
  <2> QED BY <1>1, <1>2, <2>1, TellsOne
<1> QED BY <1>3, <1>4, <1>5 DEF Telling, PlayerUnchanged

LEMMA DefineTells ==
  ASSUME ServerTypeOK, Plain, connected, NEW m \in Models,
         CommitCustomVehicleDef(m) \/ DefineCustomVehicleFromConfig(m)
  PROVE  Telling
<1>1. CASE CommitCustomVehicleDef(m)
  <2>1. /\ staged[m] # None /\ Commit(m, staged[m], handling[m], <<>>)
        /\ PlayerUnchanged
    BY <1>1 DEF CommitCustomVehicleDef, Committable
  <2>2. staged[m] \in DefRecords BY <2>1 DEF ServerTypeOK
  <2> QED BY <2>1, <2>2, CommitTells
<1>2. CASE DefineCustomVehicleFromConfig(m)
  <2> DEFINE d == [BegunDef(m) EXCEPT !.assets = @ \cup (directory[m] \ AudioKinds)]
  <2>1. /\ defs[m] = None /\ PlayerUnchanged
        /\ \/ /\ d # None
              /\ Commit(m, d, LoadedHandling(m, NewHandling), LoadPackets(m))
           \/ defs' = LoadedDefs(m) /\ Post(LoadPackets(m), connected)
    BY <1>2 DEF DefineCustomVehicleFromConfig, Committable, Plain
  <2>2. LoadPackets(m) = <<>> BY <2>1, Uncommitted
  <2>3. d \in DefRecords
    <3>1. BegunDef(m) \in DefRecords BY LoadedTypes
    <3>2. directory[m] \subseteq Kinds BY DEF ServerTypeOK
    <3> QED BY <3>1, <3>2 DEF DefRecords
  <2> HIDE DEF d
  <2>4. CASE d # None /\ Commit(m, d, LoadedHandling(m, NewHandling), LoadPackets(m))
    BY <2>1, <2>2, <2>3, <2>4, CommitTells
  <2>5. CASE defs' = LoadedDefs(m) /\ Post(LoadPackets(m), connected)
    BY <1>2, <2>5, LoadTells
  <2> QED BY <2>1, <2>4, <2>5
<1> QED BY <1>1, <1>2

LEMMA DestroyTells ==
  ASSUME ServerTypeOK, connected, NEW m \in Models, DestroyCustomVehicle(m)
  PROVE  Telling
<1> DEFINE p == DestroyPacket(m)
<1>1. defs' = [defs EXCEPT ![m] = None] /\ Post(<<p>>, connected)
      /\ PlayerUnchanged
  BY DEF DestroyCustomVehicle
<1>2. p \in Packets /\ p.type = "destroy"
  <2>1. p \in Packets BY PacketTypes
  <2> QED BY <2>1 DEF DestroyPacket
<1> HIDE DEF p
<1>3. <<p>> \in Seq(Packets) /\ \A i \in 1..Len(<<p>>) : <<p>>[i].type = "destroy"
  BY <1>2
<1>4. Tells(<<p>>)
  <2>1. DOMAIN defs = Models BY DEF ServerTypeOK
  <2> QED BY <1>1, <1>3, <2>1, TellsOther
<1>5. wire' = wire \o <<p>> BY <1>1 DEF Post
<1> QED BY <1>1, <1>3, <1>4, <1>5 DEF Telling, PlayerUnchanged

\* A native that changes the fields S of a definition sends what it changed.
LEMMA ChangeTells ==
  ASSUME ServerTypeOK, connected, extended, NEW m \in Models, NEW S,
         NEW v \in Values,
         \/ ChangeAndDefine(m, S, v)
         \/ ChangePlate(m, S, v) /\ S \subseteq PlateFields
  PROVE  Telling
<1> DEFINE d == Set(defs[m], S, v)
           p == DefinePacket(m, d)
           q == PlatePacket(m, d)
<1>1. defs' = [defs EXCEPT ![m] = d] /\ PlayerUnchanged
  BY DEF ChangeAndDefine, ChangePlate, Change
<1>2. \/ wire' = wire \o (IF d = None THEN <<>> ELSE <<p>>)
      \/ /\ wire' = wire \o (IF d = None THEN <<>> ELSE <<q>>)
         /\ S \subseteq PlateFields
  <2>1. CASE ChangeAndDefine(m, S, v)
    BY <2>1 DEF ChangeAndDefine, SendCustomVehicleDef, Post
  <2>2. CASE ChangePlate(m, S, v) /\ S \subseteq PlateFields
    BY <2>2 DEF ChangePlate, SendModelPlateConfig, Post
  <2> QED BY <2>1, <2>2
<1>3. d \in DefRecords \cup {None}
  BY SetType DEF ServerTypeOK
<1>4. DOMAIN defs = Models /\ defs = [defs EXCEPT ![m] = defs[m]]
  BY DEF ServerTypeOK
<1>5. CASE d = None
  <2>1. defs[m] = None \/ d # defs[m]
    BY <1>5
  <2>2. defs' = [defs EXCEPT ![m] = None] BY <1>1, <1>5
  <2>3. wire' = wire \o <<>> BY <1>2, <1>5
  <2>4. Tells(<<>>)
    <3>1. /\ <<>> \in Seq(Packets)
          /\ \A i \in 1..Len(<<>>) : <<>>[i].type \in {"destroy", "handling"}
      OBVIOUS
    <3> QED BY <1>4, <2>2, <3>1, TellsOther
  <2>5. <<>> \in Seq(Packets) OBVIOUS
  <2> QED BY <1>1, <2>3, <2>4, <2>5 DEF Telling, PlayerUnchanged
<1>6. CASE d # None
  <2>1. d \in DefRecords /\ defs[m] # None
    BY <1>3, <1>6 DEF Set
  <2>2. S \subseteq PlateFields =>
          \A x \in OffsetFields : d.fields[x] = defs[m].fields[x]
    <3>1. \A x \in Fields : x \notin S => d.fields[x] = defs[m].fields[x]
      <4>1. defs[m] \in DefRecords BY <2>1 DEF ServerTypeOK
      <4> QED BY <2>1, <4>1 DEF Set, DefRecords
    <3>2. \A x \in OffsetFields : x \in Fields /\ x \notin PlateFields
      BY DEF Fields, OffsetFields, PlateFields
    <3> QED BY <3>1, <3>2
  <2>3. /\ p \in Packets /\ p.type = "define" /\ p.model = m /\ p.def = d
        /\ q \in Packets /\ q.type = "plate" /\ q.model = m /\ q.def = d
    <3> HIDE DEF d
    <3>1. p \in Packets /\ q \in Packets BY <2>1, PacketTypes
    <3> QED BY <3>1 DEF DefinePacket, PlatePacket
  <2> HIDE DEF d, p, q
  <2>4. Tells(<<p>>) /\ (S \subseteq PlateFields => Tells(<<q>>))
    <3>1. Tells(<<p>>) BY <1>1, <1>4, <1>6, <2>3, TellsOne
    <3>2. ASSUME S \subseteq PlateFields PROVE Tells(<<q>>)
      BY <1>1, <1>4, <1>6, <2>1, <2>2, <2>3, <3>2, TellsOne
    <3> QED BY <3>1, <3>2
  <2>5. <<p>> \in Seq(Packets) /\ <<q>> \in Seq(Packets) BY <2>3
  <2> QED BY <1>1, <1>2, <1>6, <2>4, <2>5 DEF Telling, PlayerUnchanged
<1> QED BY <1>5, <1>6

LEMMA SetTells ==
  ASSUME ServerTypeOK, connected, extended, NEW m \in Models, NEW v \in Values,
         ServerSet(m, v)
  PROVE  Telling
<1>1. \/ \E S : ChangeAndDefine(m, S, v)
      \/ \E S \in {{"texture"}, {"textSize"}, {"mesh"}} : ChangePlate(m, S, v)
  BY Zenon DEF ServerSet, SetCustomVehicleModelInfo,
     SetCustomVehicleWheelModel, SetCustomVehicleWheelScale,
     SetCustomVehicleLightingOffset, SetCustomVehicleModelOffsets,
     SetCustomVehicleModelWheelOffsets, SetCustomVehicleModelChassisOffset,
     SetCustomVehicleModelStance, SetCustomVehicleModelPlateText,
     SetCustomVehicleModelPlateTexture, SetCustomVehicleModelPlateTextSize,
     SetCustomVehicleModelPlateMesh
<1>2. \A S \in {{"texture"}, {"textSize"}, {"mesh"}} : S \subseteq PlateFields
  BY DEF PlateFields
<1> QED BY <1>1, <1>2, ChangeTells

LEMMA TickTells ==
  ASSUME ServerTypeOK, extended, ProcessTick
  PROVE  Telling
<1> DEFINE S == {m \in outgoing : HasMods(handling[m])}
           r == [i \in DOMAIN SetToSeq(S) |->
             HandlingPacket(SetToSeq(S)[i], handling[SetToSeq(S)[i]])]
<1>1. r \in Seq(Packets)
  <2>1. S \subseteq {m \in Models : HasMods(handling[m])} BY DEF ServerTypeOK
  <2> HIDE DEF S
  <2> QED BY <2>1, HandlingPackets
<1>2. Post(r, extended) /\ defs' = defs /\ PlayerUnchanged
  BY DEF ProcessTick
<1>3. \A i \in 1..Len(r) : r[i].type = "handling"
  <2>1. \A t \in Seq(Packets) : DOMAIN t = 1..Len(t) OBVIOUS
  <2>2. DOMAIN r = DOMAIN SetToSeq(S) OBVIOUS
  <2>3. \A i \in DOMAIN r : r[i].type = "handling" BY <2>2 DEF HandlingPacket
  <2> HIDE DEF r
  <2> QED BY <1>1, <2>1, <2>3
<1> HIDE DEF r
<1>4. Tells(r)
  <2>1. DOMAIN defs = Models BY DEF ServerTypeOK
  <2>2. \A i \in 1..Len(r) : r[i].type \in {"destroy", "handling"} BY <1>3
  <2>3. \E m \in {None} : TRUE OBVIOUS
  <2> QED BY <1>1, <1>2, <2>1, <2>2, TellsOther
<1>5. wire' = wire \o r BY <1>2 DEF Post
<1> QED BY <1>1, <1>2, <1>4, <1>5 DEF Telling, PlayerUnchanged

LEMMA ServerTells ==
  ASSUME ServerTypeOK, Plain, connected, extended, ServerNext
  PROVE  Telling
<1>1. CASE \E m \in Models :
        \/ LoadCustomVehicleConfig(m) \/ BeginCustomVehicleDef(m)
        \/ SetCustomVehicleDff(m) \/ SetCustomVehicleTxd(m)
        \/ SetCustomVehicleCol(m) \/ CommitCustomVehicleDef(m)
        \/ DefineCustomVehicleFromConfig(m) \/ DestroyCustomVehicle(m)
        \/ \E v \in Values : ServerSet(m, v)
        \/ \E a \in Attributes, v \in Values : SetModelHandling(m, a, v)
  <2> PICK m \in Models :
        \/ LoadCustomVehicleConfig(m) \/ BeginCustomVehicleDef(m)
        \/ SetCustomVehicleDff(m) \/ SetCustomVehicleTxd(m)
        \/ SetCustomVehicleCol(m) \/ CommitCustomVehicleDef(m)
        \/ DefineCustomVehicleFromConfig(m) \/ DestroyCustomVehicle(m)
        \/ \E v \in Values : ServerSet(m, v)
        \/ \E a \in Attributes, v \in Values : SetModelHandling(m, a, v)
    BY <1>1
  <2>1. CASE LoadCustomVehicleConfig(m) \/ BeginCustomVehicleDef(m)
    BY <2>1, LoadTells
  <2>2. CASE \/ SetCustomVehicleDff(m) \/ SetCustomVehicleTxd(m)
             \/ SetCustomVehicleCol(m)
    BY <2>2, QuietTells
    DEF SetCustomVehicleDff, SetCustomVehicleTxd, SetCustomVehicleCol,
        SetCustomVehicleAsset, SendNothing, PlayerUnchanged
  <2>3. CASE CommitCustomVehicleDef(m) \/ DefineCustomVehicleFromConfig(m)
    BY <2>3, DefineTells
  <2>4. CASE DestroyCustomVehicle(m) BY <2>4, DestroyTells
  <2>5. CASE \E v \in Values : ServerSet(m, v) BY <2>5, SetTells
  <2>6. CASE \E a \in Attributes, v \in Values : SetModelHandling(m, a, v)
    BY <2>6, QuietTells DEF SetModelHandling, SendNothing, PlayerUnchanged
  <2> QED BY <2>1, <2>2, <2>3, <2>4, <2>5, <2>6
<1>2. CASE ProcessTick BY <1>2, TickTells
<1>3. ~OnPlayerAuthorized BY DEF OnPlayerAuthorized
<1> QED BY <1>1, <1>2, <1>3 DEF ServerNext

\* The order of a finite set has each of its members once.
LEMMA SetToSeqOnto ==
  ASSUME NEW S, IsFiniteSet(S)
  PROVE  /\ \A i, k \in DOMAIN SetToSeq(S) : SetToSeq(S)[i] = SetToSeq(S)[k] => i = k
         /\ \A m \in S : \E i \in DOMAIN SetToSeq(S) : SetToSeq(S)[i] = m
<1>1. Cardinality(S) \in Nat /\ ExistsBijection(1..Cardinality(S), S)
  BY FS_CardinalityType
<1>2. PICK f \in [1..Cardinality(S) -> S] : IsInjective(f)
  BY <1>1, Zenon DEF ExistsBijection, Bijection, Injection, IsInjective
<1>3. SetToSeq(S) \in [1..Cardinality(S) -> S] /\ IsInjective(SetToSeq(S))
  BY <1>2, Zenon DEF SetToSeq
<1> DEFINE g == SetToSeq(S)
           n == Cardinality(S)
<1> HIDE DEF g
<1>4. g \in Injection(1..n, S)
  BY <1>3 DEF Injection, g
<1>5. IsFiniteSet(1..n) /\ Cardinality(1..n) = n
  BY <1>1, FS_Interval
<1>6. g \in Surjection(1..n, S)
  BY <1>4, <1>5, FS_Injection
<1>7. DOMAIN g = 1..n BY <1>3 DEF g
<1>8. \A i, k \in DOMAIN g : g[i] = g[k] => i = k
  BY <1>3, Zenon DEF IsInjective, g
<1>9. \A m \in S : \E i \in DOMAIN g : g[i] = m
  BY <1>6, <1>7 DEF Surjection
<1> QED BY <1>8, <1>9 DEF g

\* A player who is authorized is told every definition, behind all else.
LEMMA AuthorizedTells ==
  ASSUME ServerTypeOK, ConfigInv, OnPlayerAuthorized, modelConfig' = modelConfig
  PROVE  ConfigInv'
<1> DEFINE M == {m \in Models : HasMods(handling[m])}
           K == {m \in Models : defs[m] # None}
           a == <<[type |-> "authorized", model |-> None]>>
           b == [i \in DOMAIN SetToSeq(M) |->
             HandlingPacket(SetToSeq(M)[i], handling[SetToSeq(M)[i]])]
           c == [i \in DOMAIN SetToSeq(K) |->
             DefinePacket(SetToSeq(K)[i], defs[SetToSeq(K)[i]])]
<1>1. a \in Seq(Packets) BY PacketTypes
<1>2. b \in Seq(Packets)
  <2> HIDE DEF M
  <2>1. M \subseteq {m \in Models : HasMods(handling[m])} BY DEF M
  <2> QED BY <2>1, HandlingPackets
<1>3. c \in Seq(Packets)
  BY AuthorizedDefines
<1>4. wire' = wire \o (a \o b \o c) /\ connected /\ UNCHANGED <<defs, connected>>
  BY DEF OnPlayerAuthorized, AuthorizedPackets
<1>5. DOMAIN c = DOMAIN SetToSeq(K) /\ IsFiniteSet(K)
      /\ \A i \in DOMAIN c : c[i] = DefinePacket(SetToSeq(K)[i], defs[SetToSeq(K)[i]])
  <2>1. K \subseteq Models OBVIOUS
  <2> QED BY <2>1, FS_Subset, DefinitionsAssumption
<1>6. /\ \A i, k \in DOMAIN SetToSeq(K) : SetToSeq(K)[i] = SetToSeq(K)[k] => i = k
      /\ \A m \in K : \E i \in DOMAIN SetToSeq(K) : SetToSeq(K)[i] = m
  <2> HIDE DEF K
  <2> QED BY <1>5, SetToSeqOnto
<1> DEFINE o == SetToSeq(K)
<1>7. \A m \in Models : defs[m] # None => m \in K OBVIOUS
<1> HIDE DEF a, b, c, o, K
<1>8. DOMAIN c = 1..Len(c) BY <1>3
<1>9. wire \in Seq(Packets) BY DEF ServerTypeOK
<1>10. wire' = (wire \o a \o b) \o c /\ wire \o a \o b \in Seq(Packets)
  BY <1>1, <1>2, <1>3, <1>4, <1>9
<1> SUFFICES ASSUME NEW m \in Models, NEW x \in Sent, defs[m] # None
             PROVE  LeadsTo(wire', modelConfig[m][x], m, x, defs[m].fields[x])
  BY <1>4 DEF ConfigInv
<1>11. PICK i \in 1..Len(c) : o[i] = m
  BY <1>5, <1>6, <1>7, <1>8 DEF o
<1>12. c[i] = DefinePacket(m, defs[m])
  BY <1>5, <1>8, <1>11 DEF o
<1>13. Covers(c[i], m, x) /\ c[i].def.fields[x] = defs[m].fields[x]
  BY <1>12 DEF Covers, DefinePacket
<1>14. LastOf(c, i, m, x)
  <2> SUFFICES ASSUME NEW k \in 1..Len(c), k > i
               PROVE  ~Covers(c[k], m, x)
    BY DEF LastOf
  <2>1. k # i BY <1>11
  <2>2. o[k] # m BY <1>5, <1>6, <1>8, <1>11, <2>1 DEF o
  <2>3. c[k].model = o[k]
    BY <1>5, <1>8 DEF o, DefinePacket
  <2> QED BY <2>2, <2>3 DEF Covers
<1>15. LeadsTo((wire \o a \o b) \o c, modelConfig[m][x], m, x, c[i].def.fields[x])
  <2> DEFINE q == wire \o a \o b
  <2>1. q \in Seq(Packets) BY <1>10
  <2> HIDE DEF q
  <2>2. LeadsTo(q \o c, modelConfig[m][x], m, x, c[i].def.fields[x])
    BY <1>3, <1>13, <1>14, <2>1, LeadsLast
  <2> QED BY <2>2 DEF q
<1> QED BY <1>10, <1>13, <1>15

\* No other native makes or ends a session.
LEMMA PlayerStays ==
  ASSUME ServerNext, ~OnPlayerAuthorized
  PROVE  extended' = extended
<1>1. CASE \E m \in Models :
        \/ LoadCustomVehicleConfig(m) \/ BeginCustomVehicleDef(m)
        \/ SetCustomVehicleDff(m) \/ SetCustomVehicleTxd(m)
        \/ SetCustomVehicleCol(m) \/ CommitCustomVehicleDef(m)
        \/ DefineCustomVehicleFromConfig(m) \/ DestroyCustomVehicle(m)
        \/ \E v \in Values : ServerSet(m, v)
        \/ \E a \in Attributes, v \in Values : SetModelHandling(m, a, v)
  <2> PICK m \in Models :
        \/ LoadCustomVehicleConfig(m) \/ BeginCustomVehicleDef(m)
        \/ SetCustomVehicleDff(m) \/ SetCustomVehicleTxd(m)
        \/ SetCustomVehicleCol(m) \/ CommitCustomVehicleDef(m)
        \/ DefineCustomVehicleFromConfig(m) \/ DestroyCustomVehicle(m)
        \/ \E v \in Values : ServerSet(m, v)
        \/ \E a \in Attributes, v \in Values : SetModelHandling(m, a, v)
    BY <1>1
  <2>1. CASE LoadCustomVehicleConfig(m) \/ BeginCustomVehicleDef(m)
    BY <2>1 DEF LoadCustomVehicleConfig, BeginCustomVehicleDef, PlayerUnchanged
  <2>2. CASE \/ SetCustomVehicleDff(m) \/ SetCustomVehicleTxd(m)
             \/ SetCustomVehicleCol(m)
    BY <2>2
    DEF SetCustomVehicleDff, SetCustomVehicleTxd, SetCustomVehicleCol,
        SetCustomVehicleAsset, PlayerUnchanged
  <2>3. CASE \/ CommitCustomVehicleDef(m) \/ DefineCustomVehicleFromConfig(m)
             \/ DestroyCustomVehicle(m)
    BY <2>3 DEF CommitCustomVehicleDef, DefineCustomVehicleFromConfig,
                DestroyCustomVehicle, PlayerUnchanged
  <2>4. CASE \E v \in Values : ServerSet(m, v)
    <3>1. PICK v \in Values : ServerSet(m, v) BY <2>4
    <3>2. \E S : ChangeAndDefine(m, S, v) \/ ChangePlate(m, S, v)
      BY <3>1, Zenon DEF ServerSet, SetCustomVehicleModelInfo,
         SetCustomVehicleWheelModel, SetCustomVehicleWheelScale,
         SetCustomVehicleLightingOffset, SetCustomVehicleModelOffsets,
         SetCustomVehicleModelWheelOffsets, SetCustomVehicleModelChassisOffset,
         SetCustomVehicleModelStance, SetCustomVehicleModelPlateText,
         SetCustomVehicleModelPlateTexture, SetCustomVehicleModelPlateTextSize,
         SetCustomVehicleModelPlateMesh
    <3> QED BY <3>2 DEF ChangeAndDefine, ChangePlate, Change, PlayerUnchanged
  <2>5. CASE \E a \in Attributes, v \in Values : SetModelHandling(m, a, v)
    BY <2>5 DEF SetModelHandling, PlayerUnchanged
  <2> QED BY <2>1, <2>2, <2>3, <2>4, <2>5
<1>2. CASE ProcessTick BY <1>2 DEF ProcessTick, PlayerUnchanged
<1> QED BY <1>1, <1>2 DEF ServerNext

LEMMA ConfigServed ==
  ASSUME LoadInv, ConfigInv, Plain, OnServer
  PROVE  ConfigInv'
<1>1. ServerNext /\ UNCHANGED modelConfig /\ ServerTypeOK
  BY DEF OnServer, LoadInv
<1>2. CASE OnPlayerAuthorized BY <1>1, <1>2, AuthorizedTells
<1>3. CASE ~OnPlayerAuthorized /\ extended
  <2>1. connected BY <1>3 DEF ConfigInv
  <2>2. Telling BY <1>1, <1>3, <2>1, ServerTells
  <2> QED BY <1>1, <1>3, <2>2, ToldConfig DEF Telling
<1>4. CASE ~OnPlayerAuthorized /\ ~extended
  <2>1. extended' = extended BY <1>1, <1>4, PlayerStays
  <2> QED BY <1>4, <2>1 DEF ConfigInv
<1> QED BY <1>2, <1>3, <1>4

-----------------------------------------------------------------------------
(* The client. *)

LEMMA ConfigKept ==
  ASSUME ConfigInv, UNCHANGED <<defs, connected, extended, wire>>,
         KeepsSent(modelConfig')
  PROVE  ConfigInv'
BY DEF ConfigInv, KeepsSent

LEMMA SameConfig == modelConfig' = modelConfig => KeepsSent(modelConfig')
BY DEF KeepsSent

\* What a packet about a field says, the client takes over.
LEMMA ConfigReceived ==
  ASSUME LoadInv, ConfigInv, Receive
  PROVE  ConfigInv'
<1> DEFINE p == Head(wire)
<1>1. /\ wire # <<>> /\ wire' = Tail(wire)
      /\ \/ ReceiveDefine(p) \/ ReceiveDestroy(p) \/ ReceivePlate(p)
         \/ ReceiveHandling(p) \/ ReceiveAuthorized(p)
      /\ UNCHANGED <<defs, connected, extended>>
  BY DEF Receive
<1>2. /\ p.type \in {"define", "plate"} =>
           p.model \in Models /\ p.def \in DefRecords
  BY <1>1, PacketFields DEF LoadInv
<1>3. wire \in Seq(Packets) /\ ModelTypes BY DEF LoadInv, ServerTypeOK
<1> HIDE DEF p
<1>4. ASSUME NEW m \in Models, NEW x \in Sent
      PROVE  modelConfig'[m][x] = IF Covers(p, m, x) THEN p.def.fields[x]
                                  ELSE modelConfig[m][x]
  <2>1. ASSUME NEW S, p.model \in Models, modelConfig' = ConfigOf(p.model, p.def, S)
        PROVE  modelConfig'[m][x] = IF m = p.model /\ x \in S THEN p.def.fields[x]
                                    ELSE modelConfig[m][x]
    <3>1. modelConfig \in [Models -> [DOMAIN NoConfig -> Values]]
      BY <1>3 DEF ModelTypes
    <3>2. x \in DOMAIN NoConfig /\ x # "text"
      BY DEF Sent, NoConfig, OffsetFields, PlateFields
    <3> QED BY <2>1, <3>1, <3>2 DEF ConfigOf
  <2>2. CASE ReceiveDefine(p)
    <3>1. x \in DOMAIN NoConfig BY DEF Sent, NoConfig
    <3> QED BY <1>2, <2>1, <2>2, <3>1 DEF ReceiveDefine, Covers
  <2>3. CASE ReceivePlate(p)
    BY <1>2, <2>1, <2>3 DEF ReceivePlate, Covers
  <2>4. CASE ReceiveDestroy(p) \/ ReceiveHandling(p) \/ ReceiveAuthorized(p)
    BY <2>4 DEF ReceiveDestroy, ReceiveHandling, ReceiveAuthorized, Covers
  <2> QED BY <1>1, <2>2, <2>3, <2>4
<1> SUFFICES ASSUME extended, NEW m \in Models, NEW x \in Sent, defs[m] # None
             PROVE  LeadsTo(Tail(wire), modelConfig'[m][x], m, x, defs[m].fields[x])
  BY <1>1 DEF ConfigInv
<1>5. LeadsTo(wire, modelConfig[m][x], m, x, defs[m].fields[x])
  BY DEF ConfigInv
<1> QED BY <1>1, <1>3, <1>4, <1>5, LeadsOn DEF p

LEMMA ConfigInSession ==
  ASSUME LoadInv, ConfigInv, Join \/ InitGame \/ GameModeRestart \/ Leave
  PROVE  ConfigInv'
<1>1. KeepsSent(modelConfig') /\ modelConfig' = modelConfig /\ defs' = defs
  BY SameConfig
  DEF Join, InitGame, GameModeRestart, Leave, ClientUnchanged, ServerUnchanged
<1>2. CASE Join
  <2>1. ~extended /\ extended' = extended BY <1>2 DEF Join, ConfigInv
  <2> QED BY <2>1 DEF ConfigInv
<1>3. CASE InitGame
  BY <1>1, <1>3, ConfigKept DEF InitGame
<1>4. CASE GameModeRestart
  <2> DEFINE p == [type |-> "authorized", model |-> None]
  <2>1. wire' = Append(wire, p) /\ extended /\ UNCHANGED <<connected, extended>>
    BY <1>4 DEF GameModeRestart
  <2>2. p \in Packets BY PacketTypes
  <2>3. wire \in Seq(Packets) BY DEF LoadInv, ServerTypeOK
  <2>4. p.type = "authorized" OBVIOUS
  <2> HIDE DEF p
  <2>5. <<p>> \in Seq(Packets) /\ wire' = wire \o <<p>>
    BY <2>1, <2>2, <2>3
  <2>6. \A m, x : LastOf(<<p>>, 0, m, x)
    BY <2>4 DEF LastOf, Covers
  <2>7. Tells(<<p>>)
    BY <1>1, <2>6 DEF Tells
  <2> QED BY <1>1, <2>1, <2>5, <2>7, ToldConfig DEF LoadInv
<1>5. CASE Leave
  BY <1>5 DEF Leave, ConfigInv
<1> QED BY <1>2, <1>3, <1>4, <1>5

LEMMA ConfigStep ==
  ASSUME Plain
  PROVE  LoadInv /\ ConfigInv /\ [Next]_vars => ConfigInv'
<1> SUFFICES ASSUME LoadInv, ConfigInv, [Next]_vars PROVE ConfigInv'
  OBVIOUS
<1>1. CASE OnServer BY <1>1, ConfigServed
<1>2. CASE Receive BY <1>2, ConfigReceived
<1>3. CASE ProcessCompletedDownloads \/ ProcessPendingFinalizations
  <2>1. KeepsSent(modelConfig') BY <1>3, CompletedStep, FinalizationsStep
  <2>2. UNCHANGED <<defs, connected, extended, wire>>
    BY <1>3 DEF ProcessCompletedDownloads, ProcessPendingFinalizations, serverVars
  <2> QED BY <2>1, <2>2, ConfigKept
<1>4. CASE \/ \E f \in Files : \/ TransferEnds(f) \/ TransferRefused(f)
                               \/ TransferFails(f) \/ ManualRetry(f)
           \/ BeginFrame \/ RunTask \/ RunSpawnTask
           \/ ProcessPendingClearAll \/ ProcessPendingDefinitions
           \/ ProcessPendingDestructions
           \/ Spawn \/ \E m \in Models : Use(m)
           \/ UNCHANGED vars
  <2>1. UNCHANGED <<serverVars, modelConfig>>
    <3>1. CASE \E f \in Files : \/ TransferEnds(f) \/ TransferRefused(f)
                                \/ TransferFails(f) \/ ManualRetry(f)
      BY <3>1
      DEF TransferEnds, TransferRefused, TransferFails, ManualRetry, Answer
    <3>2. CASE \/ BeginFrame \/ RunTask \/ RunSpawnTask
               \/ ProcessPendingClearAll \/ ProcessPendingDefinitions
               \/ ProcessPendingDestructions
      BY <3>2 DEF BeginFrame, RunTask, RunSpawnTask, ProcessPendingClearAll,
                  ProcessPendingDefinitions, ProcessPendingDestructions
    <3>3. CASE Spawn \/ \E m \in Models : Use(m)
      BY <3>3 DEF Spawn, Use
    <3>4. CASE UNCHANGED vars BY <3>4 DEF vars
    <3> QED BY <1>4, <3>1, <3>2, <3>3, <3>4
  <2> QED BY <2>1, SameConfig, ConfigKept DEF serverVars
<1>5. CASE Join \/ InitGame \/ GameModeRestart \/ Leave
  BY <1>5, ConfigInSession
<1> QED BY <1>1, <1>2, <1>3, <1>4, <1>5 DEF Next, MainThread

-----------------------------------------------------------------------------
(* The definitions that arrive: what a model's jobs come to. *)

\* The tasks there are, those of this frame first, and the jobs that are still
\* to begin: by a task, or put off until the player spawns.
Tokens == tasks \o mainQueue
Starting(q) == {q[i].job : i \in {n \in DOMAIN q : q[n].type = "start"}}
Members(q)  == {q[i] : i \in DOMAIN q}
Starters    == Starting(Tokens) \cup Members(defQueue)

\* What there is to say of the jobs of a model: how far they are, the files
\* they wait for, and whether they are still to begin.
Owned(tr, m, j) == {k \in Kinds : tr[<<m, k>>] # None /\ tr[<<m, k>>].job = j}
View(jb, tr, U, m) ==
    [j \in {i \in DOMAIN jb : jb[i].model = m} |->
        [txd |-> jb[j].txd, dff |-> jb[j].dff, col |-> jb[j].col,
         remaining |-> jb[j].remaining, queued |-> jb[j].queued,
         own |-> Owned(tr, m, j), begins |-> j \in U]]

Essential(e) == e.txd = "ready" /\ e.dff = "ready"
\* Between two answers: one file is asked for after the other, then the sounds,
\* of which the job counts at least those it waits for.
Between(e) ==
    /\ ~e.queued
    /\ \/ /\ e.col = "pending"
          /\ \/ e.own = {"txd"}
             \/ e.own = {"dff"} /\ e.txd = "ready"
             \/ e.own = {"col"} /\ Essential(e)
       \/ /\ e.col # "pending" /\ Essential(e)
          /\ e.own \subseteq AudioKinds
          /\ e.remaining >= Cardinality(e.own)
\* Every sound that is counted is waited for: the job will end.
Sound(e) == e.col # "pending" => e.remaining = Cardinality(e.own)
Live(e)  == e.begins \/ e.own # {}
Goes(e) ==
    /\ e.begins => e.own = {} /\ e.col = "pending" /\ ~e.queued
    /\ ~e.begins /\ e.own # {} => Between(e)
LiveJobs(w) == {j \in DOMAIN w : Live(w[j])}
Course(w) == \A j \in DOMAIN w : Goes(w[j])

\* One job at most, and it will end.
Alone(w) == \A i, j \in LiveJobs(w) : i = j /\ Sound(w[i])
\* Two at most, that of this session and that of the one before, of which one
\* will end: the other, if it waits in vain for a file that the first has asked
\* for, has not asked for a sound that the first will want.
Lead(w) ==
    \E a, b \in DOMAIN w :
        /\ a \in LiveJobs(w) /\ LiveJobs(w) \subseteq {a, b}
        /\ Sound(w[a])
        /\ w[a].col = "pending" => Sound(w[b])

\* The tasks of a model: each begins a job, or has the answer to a file that is
\* still entered for the job; none is there twice, and no job begins twice.
OfModel(jb, t, m) == t.type # "spawn" /\ jb[t.job].model = m
Alike(t, u) == t.type = u.type /\ t.job = u.job /\ t.kind = u.kind
Awaited(tr, t, m) ==
    /\ tr[<<m, t.kind>>] # None
    /\ tr[<<m, t.kind>>].job = t.job /\ tr[<<m, t.kind>>].state = "answered"
Proper(jb, tr, t, m) ==
    OfModel(jb, t, m) => \/ t.type = "start" /\ t.kind = "txd"
                         \/ t.type = "done" /\ Awaited(tr, t, m)
Tidy(jb, q, dq, tr, m) ==
    /\ \A i \in DOMAIN q : Proper(jb, tr, q[i], m)
    /\ \A i, n \in DOMAIN q : i # n /\ OfModel(jb, q[i], m) => ~Alike(q[i], q[n])
    /\ \A i, n \in DOMAIN dq : i # n /\ jb[dq[i]].model = m => dq[i] # dq[n]
    /\ \A i \in DOMAIN dq : jb[dq[i]].model = m => dq[i] \notin Starting(q)

Ended == Members(completedQueue) \cup Members(finalizeQueue)
\* What a model's jobs, of which w says how far they are, come to: it has won,
\* or one of them leads.
Fate(w, new, active, won) ==
    /\ Course(w)
    /\ new /\ ~active => LiveJobs(w) = {}
    /\ new \/ ~active => Alone(w)
    /\ active => won \/ Lead(w)
Good(m, jb, tr, U, E, there) ==
    /\ \A j \in E : jb[j].model = m => Essential(jb[j])
    /\ Fate(View(jb, tr, U, m), initGame, m \in activeIds,
            there \/ \E j \in E : jb[j].model = m)

\* A model that the server has not destroyed is coming: it is there or about to
\* be created, or one of its jobs will end.
Coming(m) ==
    /\ m \notin destroyQueue
    /\ Tidy(jobs, Tokens, defQueue, transfers, m)
    /\ Good(m, jobs, transfers, Starters, Ended, loaded[m] # None /\ ~clearAll)

\* The main thread does not meet a clearing in the middle of a frame, unless it
\* has emptied the queues.
Clearing ==
    clearAll => \/ pc \in {"idle", "tasks", "clear"}
                \/ /\ pc \in {"completed", "finalizations", "destructions"}
                   /\ completedQueue = <<>> /\ finalizeQueue = <<>>
PutOff == initGame => pc # "definitions" /\ (spawned => defQueue = <<>>)
InRun  == spawnRun => pc \in {"clear", "definitions", "completed", "finalizations"}
Entered(jb, tr) ==
    \A f \in Files : tr[f] # None =>
        tr[f].state # "failed" /\ jb[tr[f].job].model = f[1]
ComingNow ==
    /\ Clearing /\ PutOff /\ InRun /\ Entered(jobs, transfers)
    /\ \A m \in Models \ gone : Whole(m) => Coming(m)
ComingInv == failures \in Nat /\ (failures = 0 => ComingNow)

\* A step of the job a: it ends, asks for its next file, waits for one that
\* another job has asked for, begins to wait for its sounds, or hears of one.
Stalled(w, a) == \E j \in DOMAIN w : j # a /\ w[j].own # {}
Moved(w, v, a, done) ==
    /\ a \in DOMAIN w /\ DOMAIN v = DOMAIN w
    /\ \A j \in DOMAIN w : j # a => v[j] = w[j]
    /\ ~v[a].begins
    /\ \/ done /\ v[a].own = {}
       \/ /\ w[a].col = "pending" /\ v[a].col = "pending"
          /\ v[a].own # {} /\ Between(v[a])
       \/ w[a].col = "pending" /\ v[a].own = {} /\ Stalled(w, a)
       \/ /\ w[a].col = "pending" /\ v[a].col # "pending"
          /\ v[a].own # {} /\ Between(v[a])
          /\ Sound(v[a]) \/ \E j \in DOMAIN w :
                                j # a /\ w[j].own \cap AudioKinds # {}
       \/ /\ w[a].col # "pending" /\ v[a].col # "pending"
          /\ Essential(v[a]) /\ ~v[a].queued
          /\ \E k \in w[a].own : v[a].own = w[a].own \ {k}
          /\ v[a].remaining = w[a].remaining - 1 /\ v[a].remaining # 0
Rows == [txd : States, dff : States, col : States, remaining : Int,
         queued : BOOLEAN, own : SUBSET Kinds, begins : BOOLEAN]

LEMMA KindsFinite == IsFiniteSet(Kinds) /\ IsFiniteSet(AudioKinds)
<1>1. /\ IsFiniteSet({"dff"}) /\ IsFiniteSet({"txd"}) /\ IsFiniteSet({"col"})
      /\ IsFiniteSet({"engine"}) /\ IsFiniteSet({"accel"})
  BY FS_Singleton
<1>2. /\ IsFiniteSet({"dff"} \cup {"txd"})
      /\ IsFiniteSet({"engine"} \cup {"accel"})
  BY <1>1, FS_Union
<1>3. IsFiniteSet(({"dff"} \cup {"txd"}) \cup {"col"})
  BY <1>1, <1>2, FS_Union
<1>4. IsFiniteSet((({"dff"} \cup {"txd"}) \cup {"col"})
                  \cup ({"engine"} \cup {"accel"}))
  BY <1>2, <1>3, FS_Union
<1>5. (({"dff"} \cup {"txd"}) \cup {"col"}) \cup ({"engine"} \cup {"accel"})
        = Kinds /\ {"engine"} \cup {"accel"} = AudioKinds
  BY DEF AudioKinds, Kinds
<1> QED BY <1>2, <1>4, <1>5

\* What a job that is under way may wait for.
LEMMA RowFacts ==
  ASSUME NEW e \in Rows, Goes(e)
  PROVE  /\ Live(e) => ~e.queued
         /\ e.own \cap AudioKinds # {} => ~e.begins /\ e.col # "pending"
         /\ IsFiniteSet(e.own) /\ Cardinality(e.own) \in Nat
         /\ Cardinality(e.own) = 0 <=> e.own = {}
         /\ Live(e) /\ e.col # "pending" =>
              /\ ~e.begins /\ Essential(e) /\ e.own \subseteq AudioKinds
              /\ e.remaining >= Cardinality(e.own)
<1>1. e.own \subseteq Kinds BY DEF Rows
<1>2. IsFiniteSet(e.own) BY <1>1, KindsFinite, FS_Subset
<1>3. Cardinality(e.own) \in Nat /\ (Cardinality(e.own) = 0 <=> e.own = {})
  BY <1>2, FS_CardinalityType, FS_EmptySet
<1> QED BY <1>2, <1>3 DEF Goes, Live, Between, AudioKinds

\* A sound less.
LEMMA OneLess ==
  ASSUME NEW S, IsFiniteSet(S), NEW k \in S
  PROVE  Cardinality(S \ {k}) = Cardinality(S) - 1 /\ Cardinality(S) \in Nat
         /\ IsFiniteSet(S \ {k})
BY FS_RemoveElement, FS_CardinalityType

\* The job that moves goes as it must, and none comes to life.
LEMMA MovedGoes ==
  ASSUME NEW w, NEW v, NEW a, NEW done, Moved(w, v, a, done), Live(w[a]),
         \A j \in DOMAIN w : w[j] \in Rows /\ v[j] \in Rows, Course(w)
  PROVE  /\ Course(v) /\ LiveJobs(v) \subseteq LiveJobs(w)
         /\ w[a].col # "pending" /\ Sound(w[a]) => done \/ Sound(v[a])
         /\ w[a].col # "pending" => done \/ v[a].col # "pending"
         /\ w[a].col # "pending" /\ Sound(w[a]) /\ ~Live(v[a]) => done
<1>1. /\ a \in DOMAIN w /\ DOMAIN v = DOMAIN w /\ ~v[a].begins
      /\ w[a] \in Rows /\ v[a] \in Rows /\ Goes(w[a])
      /\ \A j \in DOMAIN w : j # a => v[j] = w[j]
  BY DEF Moved, Course
<1> DEFINE e == w[a]
           u == v[a]
<1>2. /\ IsFiniteSet(e.own) /\ Cardinality(e.own) \in Nat
      /\ e.col # "pending" => /\ ~e.begins /\ Essential(e)
                              /\ e.own \subseteq AudioKinds
                              /\ e.remaining >= Cardinality(e.own)
  BY <1>1, RowFacts
<1>3. e.remaining \in Int /\ u.remaining \in Int BY <1>1 DEF Rows
<1>4. ASSUME e.col # "pending"
      PROVE  \/ done /\ u.own = {}
             \/ /\ u.col # "pending" /\ Essential(u) /\ ~u.queued
                /\ u.own \subseteq AudioKinds
                /\ u.remaining >= Cardinality(u.own)
                /\ Sound(e) => Sound(u)
                /\ Sound(e) => u.own # {}
  <2>1. CASE done /\ u.own = {} BY <2>1
  <2>2. CASE ~(done /\ u.own = {})
    <3>1. /\ u.col # "pending" /\ Essential(u) /\ ~u.queued
          /\ u.remaining = e.remaining - 1 /\ u.remaining # 0
          /\ \E k \in e.own : u.own = e.own \ {k}
      BY <1>4, <2>2 DEF Moved
    <3>2. PICK k \in e.own : u.own = e.own \ {k} BY <3>1
    <3>3. Cardinality(u.own) = Cardinality(e.own) - 1 BY <1>2, <3>2, OneLess
    <3>4. u.own = {} => Cardinality(u.own) = 0 BY FS_EmptySet
    <3> QED BY <1>2, <1>3, <1>4, <3>1, <3>2, <3>3, <3>4 DEF Sound
  <2> QED BY <2>1, <2>2
<1>5. e.col = "pending" => u.own = {} \/ Between(u)
  BY DEF Moved
<1>6. Goes(u)
  BY <1>1, <1>4, <1>5 DEF Goes, Between
<1>7. Course(v)
  BY <1>1, <1>6 DEF Course
<1>8. LiveJobs(v) \subseteq LiveJobs(w)
  BY <1>1 DEF LiveJobs
<1> QED BY <1>1, <1>4, <1>7, <1>8 DEF Live

\* Alone, a job ends or goes on as it must: there is nobody to wait for.
LEMMA MovedAlone ==
  ASSUME NEW w, NEW v, NEW a, NEW done, Moved(w, v, a, done), Live(w[a]),
         \A j \in DOMAIN w : w[j] \in Rows /\ v[j] \in Rows, Course(w),
         Alone(w), ~done
  PROVE  Alone(v) /\ (Live(v[a]) \/ w[a].col # "pending")
<1>1. /\ a \in DOMAIN w /\ DOMAIN v = DOMAIN w /\ ~v[a].begins
      /\ \A j \in DOMAIN w : j # a => v[j] = w[j]
  BY DEF Moved
<1>2. /\ LiveJobs(v) \subseteq LiveJobs(w)
      /\ w[a].col # "pending" /\ Sound(w[a]) => done \/ Sound(v[a])
  BY MovedGoes
<1>3. \A j \in DOMAIN w : j # a => w[j].own = {}
  BY <1>1 DEF Alone, LiveJobs, Live
<1>4. Sound(v[a]) /\ (Live(v[a]) \/ w[a].col # "pending")
  <2>1. Sound(w[a]) BY <1>1 DEF Alone, LiveJobs
  <2>2. CASE w[a].col # "pending" BY <1>2, <2>1, <2>2
  <2>3. CASE w[a].col = "pending"
    <3>1. ~Stalled(w, a) BY <1>3 DEF Stalled
    <3> QED BY <1>3, <2>3, <3>1 DEF Moved, Sound, Live
  <2> QED BY <2>2, <2>3
<1>5. LiveJobs(w) \subseteq {a}
  BY <1>1 DEF Alone, LiveJobs
<1> QED BY <1>2, <1>4, <1>5 DEF Alone, LiveJobs

\* With one in the lead, the job that moved ends, or one is in the lead still:
\* a job that stalls passes the lead to the one it waits for.
LEMMA MovedLead ==
  ASSUME NEW w, NEW v, NEW a, NEW done, Moved(w, v, a, done), Live(w[a]),
         \A j \in DOMAIN w : w[j] \in Rows /\ v[j] \in Rows, Course(w),
         Lead(w), ~done
  PROVE  Lead(v)
<1>1. /\ a \in DOMAIN w /\ DOMAIN v = DOMAIN w /\ ~v[a].begins
      /\ \A j \in DOMAIN w : j # a => v[j] = w[j]
  BY DEF Moved
<1>2. /\ LiveJobs(v) \subseteq LiveJobs(w)
      /\ w[a].col # "pending" /\ Sound(w[a]) => Sound(v[a])
      /\ w[a].col # "pending" => v[a].col # "pending"
      /\ w[a].col # "pending" /\ Sound(w[a]) => Live(v[a])
  BY MovedGoes
<1>3. PICK x, y \in DOMAIN w :
        /\ x \in LiveJobs(w) /\ LiveJobs(w) \subseteq {x, y}
        /\ Sound(w[x]) /\ (w[x].col = "pending" => Sound(w[y]))
  BY DEF Lead
<1>4. \A j \in DOMAIN w : w[j].own \cap AudioKinds # {} => w[j].col # "pending"
  <2> TAKE j \in DOMAIN w
  <2>1. w[j] \in Rows /\ Goes(w[j]) BY DEF Course
  <2> QED BY <2>1, RowFacts
<1>5. \A j \in DOMAIN w : w[j].own # {} => j \in LiveJobs(w)
  BY DEF LiveJobs, Live
<1>6. a \in LiveJobs(w) BY <1>1 DEF LiveJobs
<1>7. CASE a = x /\ w[x].col # "pending"
  <2>1. x \in LiveJobs(v) /\ Sound(v[x]) /\ v[x].col # "pending"
    BY <1>1, <1>2, <1>3, <1>7 DEF LiveJobs
  <2> QED BY <1>1, <1>2, <1>3, <2>1 DEF Lead
<1>8. CASE a = x /\ w[x].col = "pending"
  <2>0. Sound(w[y]) BY <1>3, <1>8
  <2>1. CASE Live(v[a]) /\ Sound(v[a]) /\ (a # y => Sound(v[y]))
    <3>1. a \in LiveJobs(v) BY <1>1, <2>1 DEF LiveJobs
    <3> QED BY <1>1, <1>2, <1>3, <1>8, <2>1, <3>1 DEF Lead
  <2>2. a # y => v[y] = w[y] BY <1>1
  <2>3. CASE ~Live(v[a])
    <3>1. Stalled(w, a) BY <1>8, <2>3 DEF Moved, Live
    <3>2. a # y /\ y \in LiveJobs(w)
      BY <1>3, <1>5, <1>8, <3>1 DEF Stalled
    <3>3. y \in LiveJobs(v) /\ Sound(v[y])
      BY <1>1, <2>0, <2>2, <3>2 DEF LiveJobs
    <3>4. LiveJobs(v) \subseteq {y}
      BY <1>2, <1>3, <1>8, <2>3 DEF LiveJobs
    <3> QED BY <1>1, <3>3, <3>4 DEF Lead
  <2>4. CASE Live(v[a]) /\ ~Sound(v[a])
    <3>1. \E j \in DOMAIN w : j # a /\ w[j].own \cap AudioKinds # {}
      BY <1>1, <1>8, <2>4 DEF Moved, Sound, Live
    <3>2. a # y /\ y \in LiveJobs(w) /\ w[y].col # "pending"
      BY <1>3, <1>4, <1>5, <1>8, <3>1
    <3>3. y \in LiveJobs(v) /\ Sound(v[y]) /\ v[y].col # "pending"
      BY <1>1, <2>0, <2>2, <3>2 DEF LiveJobs
    <3> QED BY <1>1, <1>2, <1>3, <1>8, <3>3 DEF Lead
  <2> QED BY <2>0, <2>1, <2>2, <2>3, <2>4
<1>9. CASE a # x
  <2>1. a = y /\ x \in LiveJobs(v) /\ v[x] = w[x]
    BY <1>1, <1>3, <1>6, <1>9 DEF LiveJobs
  <2>2. ASSUME w[x].col = "pending", Live(v[a]) PROVE Sound(v[a])
    <3>1. Sound(w[a]) BY <1>3, <2>1, <2>2
    <3>2. CASE w[a].col # "pending" BY <1>2, <3>1, <3>2
    <3>3. CASE w[a].col = "pending"
      <4>1. ~ \E j \in DOMAIN w : j # a /\ w[j].own \cap AudioKinds # {}
        BY <1>3, <1>4, <1>5, <2>1, <2>2
      <4> QED BY <1>1, <2>2, <3>3, <4>1 DEF Moved, Sound, Live
    <3> QED BY <3>2, <3>3
  <2>3. CASE Live(v[a])
    BY <1>1, <1>2, <1>3, <2>1, <2>2, <2>3 DEF Lead
  <2>4. CASE ~Live(v[a])
    <3>1. LiveJobs(v) \subseteq {x} BY <1>2, <1>3, <2>1, <2>4 DEF LiveJobs
    <3> QED BY <1>1, <1>3, <2>1, <3>1 DEF Lead
  <2> QED BY <2>3, <2>4
<1> QED BY <1>7, <1>8, <1>9

-----------------------------------------------------------------------------
(* A job's step: what it asks for, and what it waits for then. *)

\* How far a job is that works on its files.
OwnOf(s) == Owned(s.transfers, s.job.model, s.id)
Row(s) == [txd |-> s.job.txd, dff |-> s.job.dff, col |-> s.job.col,
           remaining |-> s.job.remaining, queued |-> s.job.queued,
           own |-> OwnOf(s), begins |-> FALSE]
SomeEntered(s, K) == \E k \in K : s.transfers[<<s.job.model, k>>] # None

\* What it asks for, nobody has asked for before; it ends, waits for what it has
\* asked for, or waits in vain for what another has.
Asked(s, t) ==
    \A f \in Files :
        \/ t.transfers[f] = s.transfers[f]
        \/ /\ s.transfers[f] = None /\ f[1] = s.job.model
           /\ t.transfers[f] = [job |-> s.id, state |-> "requested"]
Went(s, t) ==
    /\ t.id = s.id /\ t.job.model = s.job.model /\ Asked(s, t)
    /\ \/ t.push /\ Essential(t.job) /\ OwnOf(t) = {}
       \/ /\ ~t.push /\ ~t.job.queued /\ OwnOf(t) # {} /\ Between(Row(t))
          /\ \/ t.job.col = "pending" \/ Sound(Row(t)) \/ SomeEntered(s, AudioKinds)
       \/ /\ ~t.push /\ ~t.job.queued /\ OwnOf(t) = {} /\ SomeEntered(s, Kinds)
Ready(J, s) == s \in Works(J) /\ J \subseteq Nat /\ ~s.push /\ ~s.job.queued
               /\ OwnOf(s) = {}

\* An entry is something else than none.
LEMMA EntryNotNone ==
  ASSUME NEW j \in Nat
  PROVE  [job |-> j, state |-> "requested"] # None
BY LoadAssumption

\* A file that is asked for is waited for, unless another job has asked for it.
LEMMA RequestWent ==
  ASSUME NEW J, NEW s, Ready(J, s), NEW kinds \in SUBSET Kinds
  PROVE  LET t == RequestFiles(s, kinds) IN
         /\ t.id = s.id /\ t.job = s.job /\ t.push = s.push /\ t \in Works(J)
         /\ Asked(s, t)
         /\ OwnOf(t) = {k \in kinds : s.transfers[<<s.job.model, k>>] = None}
         /\ t.transfers = s.transfers <=> OwnOf(t) = {}
<1> DEFINE m == s.job.model
           tr == [f \in Files |->
                    IF s.transfers[f] = None /\ \E k \in kinds : f = FileOf(s, k)
                    THEN [job |-> s.id, state |-> "requested"]
                    ELSE s.transfers[f]]
           t == RequestFiles(s, kinds)
<1>1. /\ s = [job |-> s.job, id |-> s.id, transfers |-> s.transfers,
              stored |-> s.stored, push |-> s.push]
      /\ s \in Works(J) /\ s.id \in Nat /\ s.transfers \in Transfers(J)
      /\ s.job \in JobRecords
  BY DEF Ready, Works
<1>2. m \in Models BY <1>1 DEF JobRecords
<1>3. t = [s EXCEPT !.transfers = tr]
  BY DEF RequestFiles
<1>4. t \in Works(J) BY <1>1, RequestPassed DEF Passed
<1> HIDE DEF t
<1>5. t.id = s.id /\ t.job = s.job /\ t.push = s.push /\ t.transfers = tr
  <2> HIDE DEF tr
  <2> QED BY <1>1, <1>3
<1> DEFINE new == [job |-> s.id, state |-> "requested"]
<1>6. new # None BY <1>1, EntryNotNone
<1>7. \A k \in Kinds :
        tr[<<m, k>>] = IF s.transfers[<<m, k>>] = None /\ k \in kinds
                       THEN new ELSE s.transfers[<<m, k>>]
  BY <1>2 DEF FileOf, Files
<1>8. OwnOf(t) = {k \in kinds : s.transfers[<<m, k>>] = None}
  <2>1. OwnOf(t) = {k \in Kinds : tr[<<m, k>>] # None /\ tr[<<m, k>>].job = s.id}
    BY <1>5 DEF OwnOf, Owned
  <2>2. \A k \in Kinds : ~(s.transfers[<<m, k>>] # None /\ s.transfers[<<m, k>>].job = s.id)
    BY DEF Ready, OwnOf, Owned
  <2>3. new.job = s.id OBVIOUS
  <2> HIDE DEF tr, new, m
  <2>4. ASSUME NEW k \in Kinds
        PROVE  (tr[<<m, k>>] # None /\ tr[<<m, k>>].job = s.id)
                 <=> (k \in kinds /\ s.transfers[<<m, k>>] = None)
    BY <1>6, <1>7, <2>2, <2>3 DEF m
  <2> QED BY <2>1, <2>4
<1>9. Asked(s, t)
  BY <1>5 DEF Asked, FileOf
<1>10. t.transfers = s.transfers <=> OwnOf(t) = {}
  <2>1. s.transfers = [f \in Files |-> s.transfers[f]] BY <1>1 DEF Transfers
  <2>2. ASSUME OwnOf(t) = {} PROVE tr = s.transfers
    <3>1. ASSUME NEW f \in Files PROVE tr[f] = s.transfers[f]
      <4>1. ~(s.transfers[f] = None /\ \E k \in kinds : f = FileOf(s, k))
        BY <1>8, <2>2 DEF FileOf
      <4> QED BY <4>1
    <3> QED BY <2>1, <3>1
  <2>3. ASSUME OwnOf(t) # {} PROVE tr # s.transfers
    <3>1. PICK k \in kinds : s.transfers[<<m, k>>] = None BY <1>8, <2>3
    <3>2. tr[<<m, k>>] = new BY <1>7, <3>1
    <3> QED BY <1>6, <3>1, <3>2
  <2> QED BY <1>5, <2>2, <2>3
<1> QED BY <1>4, <1>5, <1>8, <1>9, <1>10 DEF t, m

\* Other fields of the record of a job stay when one is filled in.
SameFiles(i, j) == /\ j.model = i.model /\ j.def = i.def
                   /\ j.txd = i.txd /\ j.dff = i.dff /\ j.col = i.col

\* The job is queued, and asks for nothing.
LEMMA PushWent ==
  ASSUME NEW J, NEW s \in Works(J), ~s.job.queued
  PROVE  LET t == PushToQueue(s) IN
         /\ t.push /\ t.id = s.id /\ t.transfers = s.transfers
         /\ SameFiles(s.job, t.job)
<1> DEFINE j == [s.job EXCEPT !.queued = TRUE]
           t == [s EXCEPT !.job = j, !.push = TRUE]
<1>1. PushToQueue(s) = t
  BY DEF PushToQueue, Works
<1>2. SameFiles(s.job, j) BY DEF Works, JobRecords, SameFiles
<1>3. s = [job |-> s.job, id |-> s.id, transfers |-> s.transfers,
           stored |-> s.stored, push |-> s.push]
  BY DEF Works
<1> HIDE DEF j
<1>4. t = [job |-> j, id |-> s.id, transfers |-> s.transfers,
           stored |-> s.stored, push |-> TRUE]
  <2> DEFINE r == [s EXCEPT !.job = j]
  <2>1. r = [job |-> j, id |-> s.id, transfers |-> s.transfers,
             stored |-> s.stored, push |-> s.push]
    BY <1>3
  <2>2. t = [r EXCEPT !.push = TRUE] OBVIOUS
  <2> HIDE DEF r, t
  <2> QED BY <2>1, <2>2
<1> HIDE DEF t
<1> QED BY <1>1, <1>2, <1>4

\* What has been asked for is the job's, and nobody else's.
LEMMA OwnSame ==
  ASSUME NEW s, NEW t, t.transfers = s.transfers, t.id = s.id,
         t.job.model = s.job.model
  PROVE  OwnOf(t) = OwnOf(s)
BY DEF OwnOf

\* The sounds: all that are not stored are asked for at once and counted.
LEMMA AudioWent ==
  ASSUME NEW J, NEW s, Ready(J, s), Essential(s.job), s.job.col # "pending"
  PROVE  Went(s, BeginAudio(s))
<1> DEFINE m == s.job.model
           sounds == s.job.def.assets \cap AudioKinds
           hits == {k \in sounds : Stored(s, k)}
           j == [s.job EXCEPT !.audio = hits]
           r == [s EXCEPT !.job = j]
           S == sounds \ hits
           t == RequestFiles(r, S)
           left == Remaining(s) - Cardinality(hits)
           i == [t.job EXCEPT !.remaining = left]
           u == [t EXCEPT !.job = i]
<1>1. BeginAudio(s) = IF left = 0 THEN PushToQueue(t)
                      ELSE IF t.transfers = s.transfers THEN t ELSE u
  BY DEF BeginAudio
<1>2. /\ s = [job |-> s.job, id |-> s.id, transfers |-> s.transfers,
              stored |-> s.stored, push |-> s.push]
      /\ s \in Works(J) /\ s.job \in JobRecords /\ ~s.push /\ ~s.job.queued
      /\ OwnOf(s) = {}
  BY DEF Ready, Works
<1>3. /\ S \subseteq AudioKinds /\ hits \subseteq sounds
      /\ sounds \subseteq AudioKinds /\ hits \subseteq AudioKinds
      /\ AudioKinds \subseteq Kinds
  BY DEF Kinds
<1>4. IsFiniteSet(S) /\ left = Cardinality(S) /\ left \in Nat
  <2>1. IsFiniteSet(sounds) /\ IsFiniteSet(hits) /\ IsFiniteSet(S)
    BY <1>3, KindsFinite, FS_Subset
  <2>2. sounds \cap hits = hits BY <1>3
  <2>3. Cardinality(S) = Cardinality(sounds) - Cardinality(hits)
    BY <2>1, <2>2, FS_Difference
  <2>4. left = Cardinality(S) BY <2>3 DEF Remaining
  <2>5. Cardinality(S) \in Nat BY <2>1, FS_CardinalityType
  <2> QED BY <2>1, <2>4, <2>5
<1>5. j \in JobRecords /\ SameFiles(s.job, j) /\ j.queued = s.job.queued
  BY <1>2, <1>3 DEF JobRecords, SameFiles
<1> HIDE DEF j, left, hits, S, sounds
<1>6. r = [job |-> j, id |-> s.id, transfers |-> s.transfers,
           stored |-> s.stored, push |-> s.push]
  BY <1>2
<1> HIDE DEF r
<1>7. r \in Works(J) /\ OwnOf(r) = {} /\ Ready(J, r) /\ r.job = j
      /\ r.transfers = s.transfers /\ r.id = s.id
  <2>1. r \in Works(J) BY <1>2, <1>5, <1>6 DEF Works
  <2>2. OwnOf(r) = {} BY <1>2, <1>5, <1>6, OwnSame DEF SameFiles
  <2> QED BY <1>2, <1>5, <1>6, <2>1, <2>2 DEF Ready
<1>8. /\ t.id = s.id /\ t.job = j /\ ~t.push /\ t \in Works(J)
      /\ Asked(s, t)
      /\ OwnOf(t) = {k \in S : s.transfers[<<m, k>>] = None}
      /\ t.transfers = s.transfers <=> OwnOf(t) = {}
  <2>1. S \in SUBSET Kinds BY <1>3
  <2>2. /\ t.id = r.id /\ t.job = r.job /\ t.push = r.push /\ t \in Works(J)
        /\ Asked(r, t)
        /\ OwnOf(t) = {k \in S : r.transfers[<<r.job.model, k>>] = None}
        /\ t.transfers = r.transfers <=> OwnOf(t) = {}
    BY <1>7, <2>1, RequestWent
  <2> HIDE DEF t
  <2>3. r.job.model = m /\ ~r.push BY <1>2, <1>5, <1>6 DEF SameFiles
  <2>4. Asked(s, t) BY <1>7, <2>2, <2>3 DEF Asked
  <2> QED BY <1>7, <2>2, <2>3, <2>4
<1> HIDE DEF t
<1>9. CASE left = 0
  <2>1. S = {} BY <1>4, <1>9, FS_EmptySet
  <2>2. OwnOf(t) = {} BY <1>8, <2>1
  <2> DEFINE p == PushToQueue(t)
  <2>3. p.push /\ p.id = t.id /\ p.transfers = t.transfers
        /\ SameFiles(t.job, p.job)
    BY <1>2, <1>5, <1>8, PushWent
  <2>4. p = BeginAudio(s) BY <1>1, <1>9
  <2> HIDE DEF p
  <2>5. OwnOf(p) = {} BY <2>2, <2>3, OwnSame DEF SameFiles
  <2>6. Asked(s, p) BY <1>8, <2>3 DEF Asked
  <2>7. p.job.model = m /\ Essential(p.job)
    BY <1>5, <1>8, <2>3 DEF SameFiles, Essential
  <2> QED BY <1>8, <2>3, <2>4, <2>5, <2>6, <2>7 DEF Went
<1>10. CASE left # 0 /\ t.transfers = s.transfers
  <2>1. S # {} BY <1>4, <1>10, FS_EmptySet
  <2>2. SomeEntered(s, Kinds) BY <1>3, <1>8, <1>10, <2>1 DEF SomeEntered
  <2>3. t.job.model = m /\ ~t.job.queued BY <1>2, <1>5, <1>8 DEF SameFiles
  <2> QED BY <1>1, <1>8, <1>10, <2>2, <2>3 DEF Went
<1>11. CASE left # 0 /\ t.transfers # s.transfers
  <2>1. /\ i.remaining = left /\ SameFiles(j, i) /\ ~i.queued
    BY <1>2, <1>5, <1>8 DEF JobRecords, SameFiles
  <2> HIDE DEF i
  <2>2. /\ u.job = i /\ u.id = t.id /\ u.transfers = t.transfers /\ u.push = t.push
    <3>1. t = [job |-> t.job, id |-> t.id, transfers |-> t.transfers,
               stored |-> t.stored, push |-> t.push]
      BY <1>8 DEF Works
    <3> QED BY <3>1
  <2>3. u = BeginAudio(s) BY <1>1, <1>11 DEF i
  <2> HIDE DEF u
  <2>4. u.job.model = m /\ Essential(u.job) /\ u.job.col # "pending"
    BY <1>5, <2>1, <2>2 DEF SameFiles, Essential
  <2>5. OwnOf(u) = OwnOf(t)
    BY <1>5, <1>8, <2>2, <2>4, OwnSame DEF SameFiles
  <2>6. Asked(s, u) BY <1>8, <2>2 DEF Asked
  <2>7. /\ OwnOf(t) # {} /\ OwnOf(t) \subseteq S
        /\ Cardinality(OwnOf(t)) <= left
        /\ OwnOf(t) # S => \E k \in S : s.transfers[<<m, k>>] # None
    <3>1. OwnOf(t) \subseteq S /\ OwnOf(t) # {} BY <1>8, <1>11
    <3>2. Cardinality(OwnOf(t)) <= Cardinality(S)
      BY <1>4, <3>1, FS_Subset
    <3> QED BY <1>4, <1>8, <3>1, <3>2
  <2>8. Between(Row(u))
    BY <1>3, <2>1, <2>2, <2>4, <2>5, <2>7 DEF Between, Row, Essential
  <2>9. Sound(Row(u)) \/ SomeEntered(s, AudioKinds)
    BY <1>3, <1>4, <2>1, <2>2, <2>5, <2>7 DEF Sound, Row, SomeEntered
  <2> QED BY <1>8, <2>1, <2>2, <2>3, <2>4, <2>5, <2>6, <2>7, <2>8, <2>9 DEF Went
<1> QED BY <1>9, <1>10, <1>11

\* To fill in a field of the job changes nothing of what it asks for.
LEMMA MarkedWent ==
  ASSUME NEW J, NEW s, Ready(J, s), NEW k \in {"txd", "dff", "col"},
         NEW x \in States
  PROVE  LET r == Marked(s, k, x) IN
         /\ Ready(J, r) /\ r.transfers = s.transfers /\ r.id = s.id
         /\ r.job.model = s.job.model
         /\ r.job.txd = IF k = "txd" THEN x ELSE s.job.txd
         /\ r.job.dff = IF k = "dff" THEN x ELSE s.job.dff
         /\ r.job.col = IF k = "col" THEN x ELSE s.job.col
<1> DEFINE j == CASE k = "txd" -> [s.job EXCEPT !.txd = x]
                  [] k = "dff" -> [s.job EXCEPT !.dff = x]
                  [] k = "col" -> [s.job EXCEPT !.col = x]
           r == Marked(s, k, x)
<1>1. /\ s = [job |-> s.job, id |-> s.id, transfers |-> s.transfers,
              stored |-> s.stored, push |-> s.push]
      /\ s \in Works(J) /\ s.job \in JobRecords /\ ~s.push /\ ~s.job.queued
      /\ OwnOf(s) = {}
  BY DEF Ready, Works
<1>2. /\ j.model = s.job.model /\ j.queued = s.job.queued
      /\ j.txd = IF k = "txd" THEN x ELSE s.job.txd
      /\ j.dff = IF k = "dff" THEN x ELSE s.job.dff
      /\ j.col = IF k = "col" THEN x ELSE s.job.col
  <2>1. CASE k = "txd" BY <1>1, <2>1 DEF JobRecords
  <2>2. CASE k = "dff" BY <1>1, <2>2 DEF JobRecords
  <2>3. CASE k = "col" BY <1>1, <2>3 DEF JobRecords
  <2> QED BY <2>1, <2>2, <2>3
<1>3. r = [s EXCEPT !.job = j] BY DEF Marked
<1>4. r \in Works(J)
  <2>1. Passed(J, s, r) BY <1>1, MarkedPassed
  <2> QED BY <2>1 DEF Passed
<1> HIDE DEF j, r
<1>5. r.job = j /\ r.id = s.id /\ r.transfers = s.transfers /\ r.push = s.push
  BY <1>1, <1>3
<1>6. OwnOf(r) = {} BY <1>1, <1>2, <1>5, OwnSame
<1>7. Ready(J, r) BY <1>1, <1>2, <1>4, <1>5, <1>6 DEF Ready
<1> QED BY <1>2, <1>5, <1>7 DEF r

\* Asking for one file after the other.
LEMMA OneWent ==
  ASSUME NEW J, NEW s, Ready(J, s), NEW k \in {"txd", "dff", "col"},
         s.job.col = "pending", k # "txd" => s.job.txd = "ready",
         k = "col" => Essential(s.job)
  PROVE  Went(s, RequestFile(s, k))
<1> DEFINE t == RequestFile(s, k)
<1>1. {k} \in SUBSET Kinds BY DEF Kinds
<1>2. /\ t.id = s.id /\ t.job = s.job /\ t.push = s.push /\ t \in Works(J)
      /\ Asked(s, t)
      /\ OwnOf(t) = {l \in {k} : s.transfers[<<s.job.model, l>>] = None}
  BY <1>1, RequestWent DEF RequestFile
<1> HIDE DEF t
<1>3. ~s.push /\ ~s.job.queued BY DEF Ready
<1>4. CASE OwnOf(t) = {}
  <2>1. SomeEntered(s, Kinds) BY <1>1, <1>2, <1>4 DEF SomeEntered
  <2> QED BY <1>2, <1>3, <1>4, <2>1 DEF Went, t
<1>5. CASE OwnOf(t) # {}
  <2>1. OwnOf(t) = {k} BY <1>2, <1>5
  <2>2. Between(Row(t)) BY <1>2, <1>3, <2>1 DEF Between, Row, Essential
  <2> QED BY <1>2, <1>3, <1>5, <2>2 DEF Went, t
<1> QED BY <1>4, <1>5

\* What goes on from a job of which a field has changed.
LEMMA WentOn ==
  ASSUME NEW s, NEW r, NEW t, Went(r, t), r.transfers = s.transfers,
         r.id = s.id, r.job.model = s.job.model
  PROVE  Went(s, t)
BY DEF Went, Asked, SomeEntered

\* The COL, or the sounds at once.
LEMMA ColWent ==
  ASSUME NEW J, NEW s, Ready(J, s), Essential(s.job), s.job.col = "pending"
  PROVE  Went(s, BeginCol(s))
<1> DEFINE r == Marked(s, "col", "ready")
<1>1. [s EXCEPT !.job.col = "ready"] = r
  BY DEF Marked
<1>2. /\ Ready(J, r) /\ r.transfers = s.transfers /\ r.id = s.id
      /\ r.job.model = s.job.model
      /\ r.job.txd = s.job.txd /\ r.job.dff = s.job.dff /\ r.job.col = "ready"
  BY MarkedWent DEF States
<1> HIDE DEF r
<1>3. Went(s, BeginAudio(r))
  <2>1. Essential(r.job) /\ r.job.col # "pending" BY <1>2 DEF Essential
  <2>2. Went(r, BeginAudio(r)) BY <1>2, <2>1, AudioWent
  <2> QED BY <1>2, <2>2, WentOn
<1>4. Went(s, RequestFile(s, "col"))
  BY OneWent DEF Essential
<1>5. BeginCol(s) \in {BeginAudio(r), RequestFile(s, "col")}
  BY <1>1 DEF BeginCol
<1> QED BY <1>3, <1>4, <1>5

\* The DFF, which has its clump, and what follows.
LEMMA DffWent ==
  ASSUME NEW J, NEW s, Ready(J, s), s.job.txd = "ready", s.job.col = "pending",
         "dff" \notin corrupt[s.job.model]
  PROVE  Went(s, DffReady(s))
<1> DEFINE r == Marked(s, "dff", "ready")
<1>1. [s EXCEPT !.job.dff = "ready"] = r
  BY DEF Marked
<1>2. /\ Ready(J, r) /\ r.transfers = s.transfers /\ r.id = s.id
      /\ r.job.model = s.job.model
      /\ r.job.txd = s.job.txd /\ r.job.dff = "ready" /\ r.job.col = s.job.col
  BY MarkedWent DEF States
<1> HIDE DEF r
<1>3. Went(r, BeginCol(r)) BY <1>2, ColWent DEF Essential
<1>4. DffReady(s) = BeginCol(r) BY <1>1 DEF DffReady
<1> QED BY <1>2, <1>3, <1>4, WentOn

\* The TXD, and what follows.
LEMMA TxdWent ==
  ASSUME NEW J, NEW s, Ready(J, s), s.job.col = "pending",
         "dff" \notin corrupt[s.job.model]
  PROVE  Went(s, TxdReady(s)) /\ Went(s, BeginTransfers(s))
<1> DEFINE r == Marked(s, "txd", "ready")
<1>1. [s EXCEPT !.job.txd = "ready"] = r
  BY DEF Marked
<1>2. /\ Ready(J, r) /\ r.transfers = s.transfers /\ r.id = s.id
      /\ r.job.model = s.job.model
      /\ r.job.txd = "ready" /\ r.job.col = s.job.col
  BY MarkedWent DEF States
<1> HIDE DEF r
<1>3. TxdReady(s) \in {DffReady(r), RequestFile(r, "dff")}
  BY <1>1 DEF TxdReady
<1>4. Went(r, DffReady(r)) BY <1>2, DffWent
<1>5. Went(r, RequestFile(r, "dff")) BY <1>2, OneWent
<1>6. Went(s, TxdReady(s)) BY <1>2, <1>3, <1>4, <1>5, WentOn
<1>7. Went(s, RequestFile(s, "txd")) BY OneWent
<1> QED BY <1>6, <1>7 DEF BeginTransfers

-----------------------------------------------------------------------------
(* The step among the jobs of its model, and among those of others. *)

\* The job a takes a step: entries of its model may go, and it may make some; in
\* order, those that go are its own, and those that come were not there.
Stepped(jb, tr, U, a, jb2, tr2, U2) ==
    /\ a \in DOMAIN jb /\ DOMAIN jb2 = DOMAIN jb
    /\ \A i \in DOMAIN jb : jb2[i].model = jb[i].model /\ (i # a => jb2[i] = jb[i])
    /\ \A f \in Files : tr2[f] # tr[f] =>
          f[1] = jb[a].model /\ tr2[f] \in {None, Entry(a)}
    /\ \A i \in DOMAIN jb : i # a => (i \in U2 <=> i \in U)
InOrder(tr, a, tr2) ==
    \A f \in Files : tr2[f] # tr[f] => tr[f] = None \/ tr[f].job = a

\* The view of a model has a row for each of its jobs.
LEMMA ViewRows ==
  ASSUME NEW jb \in Seq(JobRecords), NEW tr, NEW U, NEW m
  PROVE  /\ DOMAIN View(jb, tr, U, m) = {j \in DOMAIN jb : jb[j].model = m}
         /\ \A j \in DOMAIN View(jb, tr, U, m) : View(jb, tr, U, m)[j] \in Rows
<1>1. DOMAIN View(jb, tr, U, m) = {j \in DOMAIN jb : jb[j].model = m}
  BY DEF View
<1>2. ASSUME NEW j \in DOMAIN jb, jb[j].model = m
      PROVE  View(jb, tr, U, m)[j] \in Rows
  <2>1. jb[j] \in JobRecords OBVIOUS
  <2>2. Owned(tr, m, j) \in SUBSET Kinds BY DEF Owned
  <2> DEFINE o == Owned(tr, m, j)
  <2>3. View(jb, tr, U, m)[j] =
          [txd |-> jb[j].txd, dff |-> jb[j].dff, col |-> jb[j].col,
           remaining |-> jb[j].remaining, queued |-> jb[j].queued,
           own |-> o, begins |-> j \in U]
    BY <1>2 DEF View
  <2> HIDE DEF o
  <2> DEFINE b == j \in U
  <2>4. b \in BOOLEAN OBVIOUS
  <2> HIDE DEF b
  <2>5. [txd |-> jb[j].txd, dff |-> jb[j].dff, col |-> jb[j].col,
           remaining |-> jb[j].remaining, queued |-> jb[j].queued,
           own |-> o, begins |-> b] \in Rows
    BY <2>1, <2>2, <2>4 DEF Rows, JobRecords, o
  <2> QED BY <2>3, <2>5 DEF b
<1> QED BY <1>1, <1>2

\* A step enters files of the job's own model.
LEMMA SteppedEntered ==
  ASSUME NEW jb, NEW tr, NEW U, NEW a, NEW jb2, NEW tr2, NEW U2,
         Stepped(jb, tr, U, a, jb2, tr2, U2), Entered(jb, tr),
         \A f \in Files : tr[f] # None => tr[f].job \in DOMAIN jb
  PROVE  Entered(jb2, tr2)
<1> SUFFICES ASSUME NEW f \in Files, tr2[f] # None
             PROVE  tr2[f].state # "failed" /\ jb2[tr2[f].job].model = f[1]
  BY DEF Entered
<1>1. CASE tr2[f] = tr[f] BY <1>1 DEF Entered, Stepped
<1>2. CASE f[1] = jb[a].model /\ tr2[f] = Entry(a)
  BY <1>2 DEF Stepped, Entry
<1> QED BY <1>1, <1>2 DEF Stepped

\* It changes nothing of another model,
LEMMA SteppedOther ==
  ASSUME NEW jb, NEW tr, NEW U, NEW a, NEW jb2, NEW tr2, NEW U2,
         Stepped(jb, tr, U, a, jb2, tr2, U2),
         NEW m \in Models, m # jb[a].model
  PROVE  View(jb2, tr2, U2, m) = View(jb, tr, U, m)
<1>1. \A k \in Kinds : tr2[<<m, k>>] = tr[<<m, k>>]
  <2> TAKE k \in Kinds
  <2>1. <<m, k>> \in Files /\ <<m, k>>[1] = m BY DEF Files
  <2> QED BY <2>1 DEF Stepped
<1>2. \A j : Owned(tr2, m, j) = Owned(tr, m, j)
  BY <1>1 DEF Owned
<1>3. {i \in DOMAIN jb2 : jb2[i].model = m} = {i \in DOMAIN jb : jb[i].model = m}
  BY DEF Stepped
<1>4. \A i \in DOMAIN jb : jb[i].model = m =>
         i # a /\ jb2[i] = jb[i] /\ (i \in U2 <=> i \in U)
  BY DEF Stepped
<1> QED BY <1>2, <1>3, <1>4 DEF View

\* and nothing of another job of its own.
LEMMA SteppedSame ==
  ASSUME NEW jb, NEW tr, NEW U, NEW a, NEW jb2, NEW tr2, NEW U2,
         Stepped(jb, tr, U, a, jb2, tr2, U2), InOrder(tr, a, tr2), a \notin U2,
         NEW m \in Models, m = jb[a].model
  PROVE  LET w == View(jb, tr, U, m)
             v == View(jb2, tr2, U2, m)
         IN /\ a \in DOMAIN w /\ DOMAIN v = DOMAIN w
            /\ \A j \in DOMAIN w : j # a => v[j] = w[j]
            /\ v[a] = [txd |-> jb2[a].txd, dff |-> jb2[a].dff, col |-> jb2[a].col,
                       remaining |-> jb2[a].remaining, queued |-> jb2[a].queued,
                       own |-> Owned(tr2, m, a), begins |-> FALSE]
<1> DEFINE D == {i \in DOMAIN jb : jb[i].model = m}
<1>1. {i \in DOMAIN jb2 : jb2[i].model = m} = D /\ a \in D
  BY DEF Stepped
<1>2. ASSUME NEW j, j # a PROVE Owned(tr2, m, j) = Owned(tr, m, j)
  <2>1. ASSUME NEW k \in Kinds
        PROVE  (tr2[<<m, k>>] # None /\ tr2[<<m, k>>].job = j)
                <=> (tr[<<m, k>>] # None /\ tr[<<m, k>>].job = j)
    <3>1. <<m, k>> \in Files BY DEF Files
    <3> QED BY <1>2, <3>1 DEF Stepped, InOrder, Entry
  <2> QED BY <2>1 DEF Owned
<1>3. \A i \in D : i # a => jb2[i] = jb[i] /\ (i \in U2 <=> i \in U)
  BY DEF Stepped
<1>4. ASSUME NEW j \in D, j # a
      PROVE  View(jb2, tr2, U2, m)[j] = View(jb, tr, U, m)[j]
  <2>1. jb2[j] = jb[j] /\ (j \in U2 <=> j \in U) /\ j \in DOMAIN jb
        /\ Owned(tr2, m, j) = Owned(tr, m, j)
    BY <1>2, <1>3, <1>4
  <2>2. j \in {i \in DOMAIN jb2 : jb2[i].model = m} BY <1>1
  <2> HIDE DEF D
  <2> QED BY <2>1, <2>2, <1>1 DEF View, D
<1>5. (a \in U2) = FALSE BY DEF Stepped
<1>6. DOMAIN View(jb, tr, U, m) = D /\ DOMAIN View(jb2, tr2, U2, m) = D
  BY <1>1 DEF View
<1>7. View(jb2, tr2, U2, m)[a]
        = [txd |-> jb2[a].txd, dff |-> jb2[a].dff, col |-> jb2[a].col,
           remaining |-> jb2[a].remaining, queued |-> jb2[a].queued,
           own |-> Owned(tr2, m, a), begins |-> FALSE]
  BY <1>1, <1>5 DEF View
<1> QED BY <1>1, <1>4, <1>6, <1>7

\* A job's step begins with its entry of the file that was answered gone.
Erasing(tr, s) ==
    \A f \in Files :
        \/ s.transfers[f] = tr[f]
        \/ /\ f[1] = s.job.model /\ tr[f] # None /\ tr[f].job = s.id
           /\ s.transfers[f] = None
StepOf(jb, tr, U, a, r, t, jb2, tr2, U2) ==
    /\ jb \in Seq(JobRecords) /\ tr \in Transfers(DOMAIN jb) /\ Entered(jb, tr)
    /\ a \in DOMAIN jb /\ r \in Works(DOMAIN jb) /\ r.job = jb[a] /\ r.id = a
    /\ r.transfers = tr /\ Passed(DOMAIN jb, r, t)
    /\ jb2 = [jb EXCEPT ![a] = t.job]
    /\ \A m \in Models, j \in DOMAIN jb : Owned(tr2, m, j) = Owned(t.transfers, m, j)
    /\ \A i \in DOMAIN jb : i # a => (i \in U2 <=> i \in U)
\* What the job works on once the entry is gone.
From(jb, tr, a, s) ==
    s \in Works(DOMAIN jb) /\ s.job = jb[a] /\ s.id = a /\ ~s.push /\ Erasing(tr, s)

\* What works on a job's record, entries and files is such a step.
LEMMA StepStepped ==
  ASSUME NEW jb, NEW tr, NEW U, NEW a, NEW r, NEW t, NEW jb2, NEW tr2, NEW U2,
         StepOf(jb, tr, U, a, r, t, jb2, tr2, U2)
  PROVE  /\ Stepped(jb, tr, U, a, jb2, t.transfers, U2)
         /\ jb2 \in Seq(JobRecords) /\ jb2[a] = t.job
         /\ \A m \in Models : View(jb2, tr2, U2, m) = View(jb2, t.transfers, U2, m)
         /\ \A s : From(jb, tr, a, s) /\ Asked(s, t) => InOrder(tr, a, t.transfers)
<1>1. /\ t.job \in JobRecords /\ t.job.model = jb[a].model /\ a \in DOMAIN jb
      /\ jb \in Seq(JobRecords)
  BY DEF StepOf, Passed, Works
<1>2. /\ jb2 \in Seq(JobRecords) /\ DOMAIN jb2 = DOMAIN jb
      /\ jb2[a] = t.job /\ \A i \in DOMAIN jb : i # a => jb2[i] = jb[i]
  BY <1>1 DEF StepOf
<1>3. Stepped(jb, tr, U, a, jb2, t.transfers, U2)
  <2>1. \A f \in Files : t.transfers[f] # tr[f] =>
          f[1] = jb[a].model /\ t.transfers[f] \in {None, Entry(a)}
    BY DEF StepOf, Passed
  <2>2. \A i \in DOMAIN jb : jb2[i].model = jb[i].model /\ (i # a => jb2[i] = jb[i])
    BY <1>1, <1>2
  <2> QED BY <1>1, <1>2, <2>1, <2>2 DEF Stepped, StepOf
<1>4. ASSUME NEW m \in Models
      PROVE  View(jb2, tr2, U2, m) = View(jb2, t.transfers, U2, m)
  BY <1>2 DEF View, StepOf
<1>5. ASSUME NEW s, From(jb, tr, a, s), Asked(s, t)
      PROVE  InOrder(tr, a, t.transfers)
  <2> SUFFICES ASSUME NEW f \in Files, t.transfers[f] # tr[f]
               PROVE  tr[f] = None \/ tr[f].job = a
    BY DEF InOrder
  <2>1. s.transfers[f] = tr[f] \/ tr[f].job = a
    BY <1>5 DEF From, Erasing
  <2>2. t.transfers[f] = s.transfers[f] \/ s.transfers[f] = None
    BY <1>5 DEF Asked
  <2> QED BY <2>1, <2>2
<1> QED BY <1>2, <1>3, <1>4, <1>5

\* Until the sounds, a job moves as it went.
LEMMA WentMoves ==
  ASSUME NEW jb, NEW tr, NEW U, NEW a, NEW s, NEW t, NEW jb2, NEW tr2, NEW U2,
         NEW r, StepOf(jb, tr, U, a, r, t, jb2, tr2, U2),
         From(jb, tr, a, s), Ready(DOMAIN jb, s), Went(s, t), jb[a].col = "pending",
         a \notin U2
  PROVE  Moved(View(jb, tr, U, jb[a].model), View(jb2, tr2, U2, jb[a].model),
               a, t.push)
<1> DEFINE m == jb[a].model
           w == View(jb, tr, U, m)
           v == View(jb2, tr2, U2, m)
<1>1. /\ jb \in Seq(JobRecords) /\ a \in DOMAIN jb /\ s.job = jb[a] /\ s.id = a
      /\ tr \in Transfers(DOMAIN jb) /\ Entered(jb, tr)
      /\ t.id = s.id /\ t.job.model = m
  BY DEF StepOf, Went, From
<1>2. m \in Models
  <2>1. jb[a] \in JobRecords BY <1>1
  <2> QED BY <2>1 DEF JobRecords
<1>3. /\ Stepped(jb, tr, U, a, jb2, t.transfers, U2)
      /\ jb2[a] = t.job /\ v = View(jb2, t.transfers, U2, m)
      /\ InOrder(tr, a, t.transfers)
  BY <1>2, StepStepped DEF Went
<1>4. /\ a \in DOMAIN w /\ DOMAIN v = DOMAIN w
      /\ \A j \in DOMAIN w : j # a => v[j] = w[j]
      /\ v[a] = Row(t)
  <2>1. Row(t) = [txd |-> t.job.txd, dff |-> t.job.dff, col |-> t.job.col,
                  remaining |-> t.job.remaining, queued |-> t.job.queued,
                  own |-> Owned(t.transfers, m, a), begins |-> FALSE]
    BY <1>1 DEF Row, OwnOf
  <2> HIDE DEF v, w, m
  <2> QED BY <1>2, <1>3, <2>1, SteppedSame DEF v, w, m
<1>5. w[a].col = "pending"
  BY <1>1 DEF View
<1>6. v[a].own = OwnOf(t) /\ v[a].col = t.job.col /\ ~v[a].begins
  BY <1>4 DEF Row
<1>7. ASSUME NEW K \in SUBSET Kinds, SomeEntered(s, K)
      PROVE  \E j \in DOMAIN w : j # a /\ w[j].own \cap K # {}
  <2>1. PICK k \in K : s.transfers[<<m, k>>] # None BY <1>1, <1>7 DEF SomeEntered
  <2>2. <<m, k>> \in Files /\ <<m, k>>[1] = m BY <1>2 DEF Files
  <2>3. tr[<<m, k>>] = s.transfers[<<m, k>>]
    BY <2>1, <2>2 DEF From, Erasing
  <2> DEFINE j == tr[<<m, k>>].job
  <2>4. j \in DOMAIN jb /\ jb[j].model = m
    BY <1>1, <2>1, <2>2, <2>3 DEF Entered, Transfers, EntriesOf
  <2>5. j # a
    BY <1>1, <2>1, <2>3 DEF Ready, OwnOf, Owned
  <2>6. k \in Owned(tr, m, j) BY <2>1, <2>3 DEF Owned
  <2> HIDE DEF j
  <2>7. j \in DOMAIN w /\ w[j].own = Owned(tr, m, j) BY <2>4 DEF View
  <2> QED BY <2>5, <2>6, <2>7
<1>8. SomeEntered(s, Kinds) => Stalled(w, a)
  BY <1>7 DEF Stalled
<1>9. SomeEntered(s, AudioKinds) =>
         \E j \in DOMAIN w : j # a /\ w[j].own \cap AudioKinds # {}
  <2>1. AudioKinds \in SUBSET Kinds BY DEF Kinds
  <2> QED BY <1>7, <2>1
<1> HIDE DEF w, v
<1>10. Moved(w, v, a, t.push)
  BY <1>4, <1>5, <1>6, <1>8, <1>9 DEF Went, Moved
<1> QED BY <1>10 DEF w, v, m

\* Among the sounds, a job counts the one it heard of.
LEMMA SoundMoves ==
  ASSUME NEW jb, NEW tr, NEW U, NEW a, NEW s, NEW k \in AudioKinds,
         NEW jb2, NEW tr2, NEW U2, NEW w0, From(jb, tr, a, s),
         StepOf(jb, tr, U, a, w0, Answered(s, k), jb2, tr2, U2),
         Between(View(jb, tr, U, jb[a].model)[a]), jb[a].col # "pending",
         k \in Owned(tr, jb[a].model, a), a \notin U2,
         OwnOf(s) = Owned(tr, jb[a].model, a) \ {k}
  PROVE  /\ Moved(View(jb, tr, U, jb[a].model), View(jb2, tr2, U2, jb[a].model),
                  a, Answered(s, k).push)
         /\ Essential(jb2[a])
<1> DEFINE m == jb[a].model
           w == View(jb, tr, U, m)
           v == View(jb2, tr2, U2, m)
           t == Answered(s, k)
           p == [s.job EXCEPT !.audio = @ \cup {k}]
           i == [p EXCEPT !.remaining = @ - 1]
           r == [s EXCEPT !.job = i]
<1>1. /\ jb \in Seq(JobRecords) /\ a \in DOMAIN jb /\ s.job = jb[a] /\ s.id = a
      /\ s = [job |-> s.job, id |-> s.id, transfers |-> s.transfers,
              stored |-> s.stored, push |-> s.push]
      /\ s \in Works(DOMAIN jb) /\ s.job \in JobRecords /\ ~s.push
  BY DEF StepOf, Works, From
<1>2. m \in Models BY <1>1 DEF JobRecords
<1>3. t = IF r.job.remaining = 0 THEN PushToQueue(r) ELSE r
  <2>1. [s EXCEPT !.job.audio = @ \cup {k}, !.job.remaining = @ - 1] = r
    BY <1>1 DEF JobRecords
  <2> QED BY <2>1 DEF Answered, AudioKinds
<1>4. i \in JobRecords /\ SameFiles(s.job, i) /\ i.queued = s.job.queued
      /\ i.remaining = s.job.remaining - 1
  <2>1. p \in JobRecords /\ SameFiles(s.job, p) /\ p.queued = s.job.queued
        /\ p.remaining = s.job.remaining
    BY <1>1 DEF JobRecords, SameFiles
  <2> HIDE DEF p
  <2> QED BY <2>1 DEF JobRecords, SameFiles
<1> HIDE DEF i
<1>5. /\ r.job = i /\ r.id = s.id /\ r.transfers = s.transfers /\ r.push = s.push
      /\ r.stored = s.stored
  BY <1>1
<1>6. r \in Works(DOMAIN jb)
  <2>1. r = [job |-> i, id |-> s.id, transfers |-> s.transfers,
             stored |-> s.stored, push |-> s.push]
    BY <1>1
  <2> HIDE DEF r
  <2> QED BY <1>1, <1>4, <2>1 DEF Works
<1> HIDE DEF r, t
<1>7. /\ w[a].own = Owned(tr, m, a) /\ w[a].col = jb[a].col
      /\ w[a].txd = jb[a].txd /\ w[a].dff = jb[a].dff
      /\ w[a].queued = jb[a].queued /\ w[a].remaining = jb[a].remaining
  BY <1>1 DEF View
<1>8. /\ Essential(jb[a]) /\ ~jb[a].queued
      /\ Owned(tr, m, a) \subseteq AudioKinds
      /\ jb[a].remaining >= Cardinality(Owned(tr, m, a))
  BY <1>7 DEF Between, Essential
<1>9. /\ t.id = s.id /\ t.transfers = s.transfers /\ SameFiles(s.job, t.job)
      /\ t.push => i.remaining = 0
      /\ ~t.push => i.remaining # 0 /\ t.job = i
  <2>1. CASE i.remaining = 0
    <3>1. ~r.job.queued BY <1>1, <1>4, <1>5, <1>8
    <3>2. t = PushToQueue(r) BY <1>3, <1>5, <2>1
    <3>3. /\ t.push /\ t.id = r.id /\ t.transfers = r.transfers
          /\ SameFiles(r.job, t.job)
      BY <1>6, <3>1, <3>2, PushWent
    <3> QED BY <1>4, <1>5, <2>1, <3>3 DEF SameFiles
  <2>2. CASE i.remaining # 0
    <3>1. t = r /\ ~t.push BY <1>1, <1>3, <1>5, <2>2
    <3> QED BY <1>4, <1>5, <2>2, <3>1 DEF SameFiles
  <2> QED BY <2>1, <2>2
<1>10. t.job.model = m /\ Essential(t.job) /\ t.job.col # "pending"
  BY <1>1, <1>8, <1>9 DEF SameFiles, Essential
<1>11. OwnOf(t) = Owned(tr, m, a) \ {k}
  BY <1>1, <1>9, <1>10, OwnSame
<1>12. t.push => OwnOf(t) = {}
  <2>1. IsFiniteSet(Owned(tr, m, a)) BY <1>8, KindsFinite, FS_Subset
  <2>2. /\ Cardinality(Owned(tr, m, a) \ {k}) = Cardinality(Owned(tr, m, a)) - 1
        /\ Cardinality(Owned(tr, m, a)) \in Nat
        /\ IsFiniteSet(Owned(tr, m, a) \ {k})
    BY <2>1, OneLess
  <2>3. Cardinality(Owned(tr, m, a) \ {k}) \in Nat
        /\ (Cardinality(Owned(tr, m, a) \ {k}) = 0 <=> Owned(tr, m, a) \ {k} = {})
    BY <2>2, FS_CardinalityType, FS_EmptySet
  <2>4. jb[a].remaining \in Int BY <1>1 DEF JobRecords
  <2>5. t.push => jb[a].remaining = 1 BY <1>1, <1>4, <1>9, <2>4
  <2> QED BY <1>8, <1>11, <2>2, <2>3, <2>5
<1>13. /\ Stepped(jb, tr, U, a, jb2, t.transfers, U2)
       /\ jb2[a] = t.job /\ v = View(jb2, t.transfers, U2, m)
       /\ InOrder(tr, a, t.transfers)
  <2>1. Asked(s, t) BY <1>9 DEF Asked
  <2>2. StepOf(jb, tr, U, a, w0, t, jb2, tr2, U2) BY DEF t
  <2> HIDE DEF m, v
  <2>3. /\ Stepped(jb, tr, U, a, jb2, t.transfers, U2) /\ jb2[a] = t.job
        /\ InOrder(tr, a, t.transfers)
        /\ \A n \in Models : View(jb2, tr2, U2, n) = View(jb2, t.transfers, U2, n)
    BY <2>1, <2>2, StepStepped
  <2> QED BY <1>2, <2>3 DEF v
<1>14. /\ a \in DOMAIN w /\ DOMAIN v = DOMAIN w
       /\ \A j \in DOMAIN w : j # a => v[j] = w[j]
       /\ v[a] = Row(t)
  <2>1. Row(t) = [txd |-> t.job.txd, dff |-> t.job.dff, col |-> t.job.col,
                  remaining |-> t.job.remaining, queued |-> t.job.queued,
                  own |-> Owned(t.transfers, m, a), begins |-> FALSE]
    BY <1>1, <1>9, <1>10 DEF Row, OwnOf
  <2> HIDE DEF v, w, m
  <2> QED BY <1>2, <1>13, <2>1, SteppedSame DEF v, w, m
<1>15. /\ v[a].own = OwnOf(t) /\ v[a].col = t.job.col /\ ~v[a].begins
       /\ v[a].remaining = t.job.remaining /\ v[a].queued = t.job.queued
       /\ Essential(v[a])
  BY <1>10, <1>14 DEF Row, Essential
<1> HIDE DEF w, v
<1>16. Moved(w, v, a, t.push)
  <2>1. CASE t.push BY <1>12, <1>14, <1>15, <2>1 DEF Moved
  <2>2. CASE ~t.push
    <3>1. v[a].remaining = w[a].remaining - 1 /\ v[a].remaining # 0 /\ ~v[a].queued
      BY <1>1, <1>4, <1>7, <1>8, <1>9, <1>15, <2>2
    <3>2. \E l \in w[a].own : v[a].own = w[a].own \ {l}
      BY <1>7, <1>11, <1>15
    <3> QED BY <1>7, <1>10, <1>14, <1>15, <3>1, <3>2 DEF Moved
  <2> QED BY <2>1, <2>2
<1> QED BY <1>10, <1>13, <1>16 DEF w, v, m, t

\* So a model's fate is kept by the step of one of its jobs.
LEMMA MovedFate ==
  ASSUME NEW w, NEW v, NEW a, NEW done, Moved(w, v, a, done), Live(w[a]),
         \A j \in DOMAIN w : w[j] \in Rows /\ v[j] \in Rows,
         NEW new, NEW active, NEW won, NEW won2, Fate(w, new, active, won),
         done \/ won => won2
  PROVE  Fate(v, new, active, won2)
<1>1. Course(v) /\ LiveJobs(v) \subseteq LiveJobs(w)
  BY MovedGoes DEF Fate
<1>2. CASE ~done
  <2>1. Alone(w) => Alone(v) BY <1>2, MovedAlone DEF Fate
  <2>2. Lead(w) => Lead(v) BY <1>2, MovedLead DEF Fate
  <2> QED BY <1>1, <2>1, <2>2 DEF Fate
<1>3. CASE done
  <2>1. a \in LiveJobs(w) /\ DOMAIN v = DOMAIN w BY DEF Moved, LiveJobs
  <2>2. ASSUME Alone(w) PROVE Alone(v)
    <3>1. LiveJobs(w) \subseteq {a} BY <2>1, <2>2 DEF Alone
    <3>2. Sound(w[a]) BY <2>1, <2>2 DEF Alone
    <3>3. ASSUME a \in LiveJobs(v) PROVE Sound(v[a])
      <4>1. Live(v[a]) BY <3>3 DEF LiveJobs
      <4>2. ~v[a].begins /\ v[a].own # {} BY <4>1 DEF Live, Moved
      <4>3. CASE w[a].col # "pending"
        <5>1. /\ v[a].remaining = w[a].remaining - 1 /\ v[a].remaining # 0
              /\ \E k \in w[a].own : v[a].own = w[a].own \ {k}
          BY <4>2, <4>3 DEF Moved
        <5>2. PICK k \in w[a].own : v[a].own = w[a].own \ {k} BY <5>1
        <5>3. w[a].own \subseteq Kinds /\ w[a].remaining \in Int
          BY <2>1 DEF Rows, LiveJobs
        <5>4. IsFiniteSet(w[a].own) BY <5>3, KindsFinite, FS_Subset
        <5>5. Cardinality(v[a].own) = Cardinality(w[a].own) - 1
          BY <5>2, <5>4, OneLess
        <5> QED BY <3>2, <4>3, <5>1, <5>5 DEF Sound
      <4>4. CASE w[a].col = "pending" /\ v[a].col = "pending"
        BY <4>4 DEF Sound
      <4>5. CASE w[a].col = "pending" /\ v[a].col # "pending"
        <5>1. \A j \in DOMAIN w : j # a => w[j].own = {}
          BY <2>1, <3>1 DEF LiveJobs, Live
        <5> QED BY <4>2, <4>5, <5>1 DEF Moved
      <4> QED BY <4>3, <4>4, <4>5
    <3> QED BY <1>1, <3>1, <3>3 DEF Alone
  <2> QED BY <1>1, <1>3, <2>2 DEF Fate
<1> QED BY <1>2, <1>3

\* A job that was to begin does not.
Dropped(w, v) ==
    /\ DOMAIN v = DOMAIN w
    /\ \A j \in DOMAIN w :
          \/ v[j] = w[j]
          \/ w[j].begins /\ ~v[j].begins /\ v[j].own = w[j].own
\* Nothing is worse for it.
LEMMA DroppedGoes ==
  ASSUME NEW w, NEW v, Dropped(w, v), Course(w),
         \A j \in DOMAIN w : w[j] \in Rows
  PROVE  /\ Course(v) /\ LiveJobs(v) \subseteq LiveJobs(w)
         /\ Alone(w) => Alone(v)
         /\ \A j \in DOMAIN w : w[j].begins /\ v[j] # w[j] => ~Live(v[j])
<1>1. ASSUME NEW j \in DOMAIN w, v[j] # w[j]
      PROVE  /\ w[j].begins /\ v[j].own = {} /\ ~v[j].begins /\ ~Live(v[j])
             /\ Goes(v[j])
  <2>1. w[j].begins /\ ~v[j].begins /\ v[j].own = w[j].own BY <1>1 DEF Dropped
  <2>2. Goes(w[j]) BY DEF Course
  <2> QED BY <2>1, <2>2 DEF Goes, Live
<1>2. DOMAIN v = DOMAIN w BY DEF Dropped
<1>3. Course(v) BY <1>1, <1>2 DEF Course
<1>4. LiveJobs(v) \subseteq LiveJobs(w) BY <1>1, <1>2 DEF LiveJobs
<1>5. \A j \in LiveJobs(v) : v[j] = w[j] BY <1>1, <1>2 DEF LiveJobs
<1> QED BY <1>1, <1>3, <1>4, <1>5 DEF Alone

\* A step of a job of the model m, of which E are the jobs that have ended.
StepFor(m, E, there, jb, tr, U, a, r, t, jb2, tr2, U2) ==
    /\ StepOf(jb, tr, U, a, r, t, jb2, tr2, U2) /\ ~r.push /\ a \notin U2
    /\ m = jb[a].model /\ Whole(m)
    /\ E \subseteq DOMAIN jb /\ a \notin E
    /\ Good(m, jb, tr, U, E, there)
EndedBy(E, a, t) == IF t.push THEN E \cup {a} ELSE E

\* A step that moves its job keeps the model good.
LEMMA StepGood ==
  ASSUME NEW jb, NEW tr, NEW U, NEW a, NEW r, NEW t, NEW jb2, NEW tr2, NEW U2,
         NEW m, NEW E, NEW there,
         StepFor(m, E, there, jb, tr, U, a, r, t, jb2, tr2, U2),
         Live(View(jb, tr, U, m)[a]),
         Moved(View(jb, tr, U, m), View(jb2, tr2, U2, m), a, t.push),
         t.push => Essential(jb2[a])
  PROVE  Good(m, jb2, tr2, U2, EndedBy(E, a, t), there)
<1>0. /\ StepOf(jb, tr, U, a, r, t, jb2, tr2, U2) /\ m = jb[a].model
      /\ E \in SUBSET DOMAIN jb /\ a \notin E /\ Good(m, jb, tr, U, E, there)
  BY DEF StepFor
<1> DEFINE F == IF t.push THEN E \cup {a} ELSE E
           w == View(jb, tr, U, m)
           v == View(jb2, tr2, U2, m)
<1>1. /\ jb \in Seq(JobRecords) /\ a \in DOMAIN jb /\ DOMAIN jb2 = DOMAIN jb
      /\ \A i \in DOMAIN jb : i # a => jb2[i] = jb[i]
      /\ jb2 \in Seq(JobRecords) /\ jb2[a] = t.job /\ t.job.model = m
  <2>1. /\ jb \in Seq(JobRecords) /\ a \in DOMAIN jb
        /\ jb2 = [jb EXCEPT ![a] = t.job] /\ t.job \in JobRecords
        /\ t.job.model = m
    BY <1>0 DEF StepOf, Passed, Works
  <2> QED BY <2>1
<1>2. \A j \in DOMAIN w : w[j] \in Rows /\ v[j] \in Rows
  <2>1. DOMAIN w = DOMAIN v BY DEF Moved
  <2> QED BY <1>1, <2>1, ViewRows
<1>3. \A j \in F : jb2[j].model = m => Essential(jb2[j])
  BY <1>0, <1>1 DEF Good
<1>4. (\E j \in E : jb[j].model = m) \/ t.push => \E j \in F : jb2[j].model = m
  BY <1>0, <1>1
<1>5. Fate(w, initGame, m \in activeIds, there \/ \E j \in E : jb[j].model = m)
  BY <1>0 DEF Good
<1> DEFINE won == there \/ \E j \in E : jb[j].model = m
           won2 == there \/ \E j \in F : jb2[j].model = m
           act == m \in activeIds
<1>6. t.push \/ won => won2 BY <1>4
<1>7. Moved(w, v, a, t.push) /\ Live(w[a]) OBVIOUS
<1>8. Fate(w, initGame, act, won) BY <1>5
<1> HIDE DEF w, v, F, won, won2, act
<1>9. Fate(v, initGame, act, won2)
  BY <1>2, <1>6, <1>7, <1>8, MovedFate
<1> QED BY <1>3, <1>9 DEF Good, EndedBy, F, v, act, won2

\* The jobs of the other models.
LEMMA OtherGood ==
  ASSUME NEW jb, NEW tr, NEW U, NEW a, NEW r, NEW t, NEW jb2, NEW tr2, NEW U2,
         StepOf(jb, tr, U, a, r, t, jb2, tr2, U2), NEW m \in Models,
         m # jb[a].model,
         NEW E \in SUBSET DOMAIN jb, NEW F, F = EndedBy(E, a, t), NEW there,
         Good(m, jb, tr, U, E, there)
  PROVE  Good(m, jb2, tr2, U2, F, there)
<1>0. F \in {E, E \cup {a}} BY DEF EndedBy
<1>1. /\ Stepped(jb, tr, U, a, jb2, t.transfers, U2) /\ jb2[a] = t.job
      /\ View(jb2, tr2, U2, m) = View(jb2, t.transfers, U2, m)
  BY StepStepped
<1>2. View(jb2, tr2, U2, m) = View(jb, tr, U, m)
  BY <1>1, SteppedOther
<1>3. \A i \in DOMAIN jb : jb2[i].model = jb[i].model /\ (i # a => jb2[i] = jb[i])
  BY <1>1 DEF Stepped
<1>4. a \in DOMAIN jb BY DEF StepOf
<1>5. \A j \in F : jb2[j].model = m => j \in E /\ jb2[j] = jb[j]
  BY <1>0, <1>3, <1>4
<1>6. \A j \in E : jb[j].model = m => j \in F /\ jb2[j].model = m
  BY <1>0, <1>3
<1>7. (\E j \in F : jb2[j].model = m) <=> (\E j \in E : jb[j].model = m)
  BY <1>3, <1>5, <1>6
<1>8. \A j \in F : jb2[j].model = m => Essential(jb2[j])
  BY <1>3, <1>5 DEF Good
<1> QED BY <1>2, <1>7, <1>8 DEF Good

\* The COL has arrived.
LEMMA ColAnswered ==
  ASSUME NEW J, NEW s, Ready(J, s), Essential(s.job)
  PROVE  Went(s, BeginAudio([s EXCEPT !.job.col = "ready"]))
<1> DEFINE r == Marked(s, "col", "ready")
<1>1. [s EXCEPT !.job.col = "ready"] = r
  BY DEF Marked
<1>2. /\ Ready(J, r) /\ r.transfers = s.transfers /\ r.id = s.id
      /\ r.job.model = s.job.model
      /\ r.job.txd = s.job.txd /\ r.job.dff = s.job.dff /\ r.job.col = "ready"
  BY MarkedWent DEF States
<1> HIDE DEF r
<1>3. Essential(r.job) /\ r.job.col # "pending" BY <1>2 DEF Essential
<1>4. Went(r, BeginAudio(r)) BY <1>2, <1>3, AudioWent
<1> QED BY <1>1, <1>2, <1>4, WentOn

\* A job begins.
LEMMA StartGood ==
  ASSUME NEW jb, NEW tr, NEW U, NEW a, NEW r, NEW t, NEW jb2, NEW tr2, NEW U2,
         NEW m, NEW E, NEW there,
         StepFor(m, E, there, jb, tr, U, a, r, t, jb2, tr2, U2),
         t = BeginTransfers(r), a \in U
  PROVE  /\ Good(m, jb2, tr2, U2, EndedBy(E, a, t), there)
         /\ \A f \in Files : t.transfers[f] # tr[f] => tr[f] = None
<1> DEFINE w == View(jb, tr, U, m)
<1>1. /\ jb \in Seq(JobRecords) /\ a \in DOMAIN jb
      /\ r \in Works(DOMAIN jb) /\ r.job = jb[a] /\ r.id = a /\ r.transfers = tr
      /\ DOMAIN jb \subseteq Nat /\ ~r.push /\ a \notin U2 /\ Whole(m)
      /\ m = jb[a].model /\ Good(m, jb, tr, U, E, there)
      /\ StepOf(jb, tr, U, a, r, t, jb2, tr2, U2)
  BY DEF StepOf, StepFor
<1>2. /\ a \in DOMAIN w /\ w[a].begins /\ w[a].own = Owned(tr, m, a)
      /\ w[a].col = jb[a].col /\ w[a].queued = jb[a].queued
  BY <1>1 DEF View
<1>3. Goes(w[a]) /\ Live(w[a])
  BY <1>1, <1>2 DEF Good, Fate, Course, Live
<1>4. Ready(DOMAIN jb, r) /\ r.job.col = "pending"
  BY <1>1, <1>2, <1>3 DEF Ready, OwnOf, Goes
<1>5. "dff" \notin corrupt[r.job.model]
  BY <1>1 DEF Whole
<1>6. Went(r, t) BY <1>4, <1>5, TxdWent
<1>7. From(jb, tr, a, r) BY <1>1 DEF From, Erasing
<1>8. Moved(w, View(jb2, tr2, U2, m), a, t.push)
  BY <1>1, <1>4, <1>6, <1>7, WentMoves
<1>9. t.push => Essential(jb2[a])
  <2>1. jb2[a] = t.job BY <1>1, StepStepped
  <2> QED BY <1>6, <2>1 DEF Went
<1>10. \A f \in Files : t.transfers[f] # tr[f] => tr[f] = None
  BY <1>1, <1>6 DEF Went, Asked
<1> QED BY <1>3, <1>8, <1>9, <1>10, StepGood

\* A job hears of a file it waited for.
Erase(r, m, k) == [r EXCEPT !.transfers[<<m, k>>] = None]
LEMMA DoneGood ==
  ASSUME NEW jb, NEW tr, NEW U, NEW a, NEW r, NEW s, NEW t, NEW jb2, NEW tr2,
         NEW U2, NEW k \in Kinds, NEW m, NEW E, NEW there,
         StepFor(m, E, there, jb, tr, U, a, r, t, jb2, tr2, U2),
         s = Erase(r, m, k), t = Answered(s, k),
         tr[<<m, k>>] # None, tr[<<m, k>>].job = a
  PROVE  /\ Good(m, jb2, tr2, U2, EndedBy(E, a, t), there)
         /\ \A f \in Files : t.transfers[f] # tr[f] => tr[f] = None \/ f = <<m, k>>
         /\ a \notin U
<1> DEFINE w == View(jb, tr, U, m)
           g == <<m, k>>
<1>a. /\ StepOf(jb, tr, U, a, r, t, jb2, tr2, U2) /\ ~r.push /\ a \notin U2
      /\ m = jb[a].model /\ Whole(m) /\ Good(m, jb, tr, U, E, there)
  BY DEF StepFor
<1>b. /\ jb \in Seq(JobRecords) /\ tr \in Transfers(DOMAIN jb)
      /\ a \in DOMAIN jb /\ r \in Works(DOMAIN jb)
      /\ r.job = jb[a] /\ r.id = a /\ r.transfers = tr
  BY <1>a DEF StepOf
<1>1. /\ jb \in Seq(JobRecords) /\ a \in DOMAIN jb
      /\ r \in Works(DOMAIN jb) /\ r.job = jb[a] /\ r.id = a /\ r.transfers = tr
      /\ DOMAIN jb \subseteq Nat /\ ~r.push /\ a \notin U2 /\ Whole(m)
      /\ m = jb[a].model /\ Good(m, jb, tr, U, E, there)
      /\ StepOf(jb, tr, U, a, r, t, jb2, tr2, U2) /\ tr \in Transfers(DOMAIN jb)
  BY <1>a, <1>b
<1>0. m \in Models /\ g \in Files /\ g[1] = m
  <2>1. jb[a] \in JobRecords BY <1>1
  <2> QED BY <1>1, <2>1 DEF JobRecords, Files
<1>2. /\ a \in DOMAIN w /\ k \in w[a].own /\ w[a].own = Owned(tr, m, a)
      /\ w[a].col = jb[a].col /\ w[a].queued = jb[a].queued
      /\ w[a].txd = jb[a].txd /\ w[a].dff = jb[a].dff
      /\ w[a].begins = (a \in U)
  BY <1>1 DEF View, Owned
<1>3. Live(w[a]) /\ ~w[a].begins /\ Between(w[a])
  BY <1>1, <1>2 DEF Good, Fate, Course, Live, Goes
<1>4. /\ s \in Works(DOMAIN jb) /\ s.job = jb[a] /\ s.id = a /\ ~s.push
      /\ \A f \in Files : s.transfers[f] = IF f = g THEN None ELSE tr[f]
  <2>0. s = [r EXCEPT !.transfers[g] = None] BY DEF Erase
  <2>1. Passed(DOMAIN jb, r, s)
    <3>1. g \in Files /\ g[1] = r.job.model BY <1>0, <1>1
    <3> HIDE DEF g
    <3> QED BY <1>1, <2>0, <3>1, ErasedPassed
  <2>2. r = [job |-> r.job, id |-> r.id, transfers |-> r.transfers,
             stored |-> r.stored, push |-> r.push]
    BY <1>1 DEF Works
  <2>3. s.job = r.job /\ s.id = r.id /\ s.push = r.push
        /\ s.transfers = [tr EXCEPT ![g] = None]
    BY <1>1, <2>0, <2>2
  <2>4. DOMAIN tr = Files BY <1>1 DEF Transfers
  <2> QED BY <1>1, <2>1, <2>3, <2>4 DEF Passed
<1>5. From(jb, tr, a, s)
  BY <1>0, <1>1, <1>4 DEF From, Erasing
<1>6. OwnOf(s) = Owned(tr, m, a) \ {k}
  <2>1. ASSUME NEW l \in Kinds
        PROVE  s.transfers[<<m, l>>] = IF l = k THEN None ELSE tr[<<m, l>>]
    <3>1. <<m, l>> \in Files BY <1>0 DEF Files
    <3> QED BY <1>4, <3>1
  <2> HIDE DEF g
  <2> QED BY <1>1, <1>4, <2>1 DEF OwnOf, Owned
<1> HIDE DEF w, g
<1>7. ~s.job.queued BY <1>2, <1>3, <1>4 DEF Between
<1>8. "dff" \notin corrupt[s.job.model] BY <1>1, <1>4 DEF Whole
<1>9. k \notin AudioKinds => jb[a].col = "pending" /\ w[a].own = {k}
      /\ (k # "txd" => jb[a].txd = "ready") /\ (k = "col" => Essential(jb[a]))
  BY <1>2, <1>3 DEF Between, Essential, AudioKinds
<1>10. CASE k \notin AudioKinds
  <2>1. k \in {"txd", "dff", "col"} BY <1>10 DEF Kinds, AudioKinds
  <2>2. Ready(DOMAIN jb, s) BY <1>1, <1>2, <1>4, <1>6, <1>7, <1>9, <1>10 DEF Ready
  <2>3. Went(s, t)
    <3>1. CASE k = "txd"
      BY <1>4, <1>8, <1>9, <1>10, <2>2, <3>1, TxdWent DEF Answered
    <3>2. CASE k = "dff"
      BY <1>4, <1>8, <1>9, <1>10, <2>2, <3>2, DffWent DEF Answered
    <3>3. CASE k = "col"
      <4>1. Essential(s.job) BY <1>4, <1>9, <1>10, <3>3
      <4>2. t = BeginAudio([s EXCEPT !.job.col = "ready"])
        BY <3>3 DEF Answered
      <4> QED BY <2>2, <4>1, <4>2, ColAnswered
    <3> QED BY <2>1, <3>1, <3>2, <3>3
  <2>4. Moved(w, View(jb2, tr2, U2, m), a, t.push)
    BY <1>1, <1>5, <1>9, <1>10, <2>2, <2>3, WentMoves DEF w
  <2>5. t.push => Essential(jb2[a])
    <3>1. jb2[a] = t.job BY <1>1, StepStepped
    <3> QED BY <2>3, <3>1 DEF Went
  <2>6. \A f \in Files : t.transfers[f] # tr[f] => tr[f] = None \/ f = g
    BY <1>4, <2>3 DEF Went, Asked
  <2>7. Good(m, jb2, tr2, U2, EndedBy(E, a, t), there)
    <3>1. Live(View(jb, tr, U, m)[a]) BY <1>3 DEF w
    <3>2. Moved(View(jb, tr, U, m), View(jb2, tr2, U2, m), a, t.push)
      BY <2>4 DEF w
    <3> QED BY <2>5, <3>1, <3>2, StepGood
  <2> QED BY <1>2, <1>3, <2>6, <2>7 DEF g
<1>11. CASE k \in AudioKinds
  <2>1. jb[a].col # "pending" BY <1>2, <1>3, <1>11 DEF Between, AudioKinds
  <2>2. /\ Moved(w, View(jb2, tr2, U2, m), a, t.push) /\ Essential(jb2[a])
    <3>1. Between(View(jb, tr, U, jb[a].model)[a]) BY <1>1, <1>3 DEF w
    <3>2. k \in Owned(tr, jb[a].model, a) /\ OwnOf(s) = Owned(tr, jb[a].model, a) \ {k}
      BY <1>1, <1>2, <1>6
    <3>3. StepOf(jb, tr, U, a, r, Answered(s, k), jb2, tr2, U2) BY <1>1
    <3>4. Moved(View(jb, tr, U, jb[a].model), View(jb2, tr2, U2, jb[a].model),
                a, Answered(s, k).push) /\ Essential(jb2[a])
      BY <1>1, <1>5, <1>11, <2>1, <3>1, <3>2, <3>3, SoundMoves
    <3> QED BY <1>1, <3>4 DEF w
  <2>3. \A f \in Files : t.transfers[f] # tr[f] => tr[f] = None \/ f = g
    <3>1. t.transfers = s.transfers
      <4> DEFINE u == [s EXCEPT !.job.audio = @ \cup {k}, !.job.remaining = @ - 1]
      <4>1. t \in {PushToQueue(u), u}
        BY <1>11 DEF Answered, AudioKinds
      <4>2. u \in Works(DOMAIN jb)
        BY <1>4, <1>11, SoundPassed DEF Passed
      <4>3. u.transfers = s.transfers BY <1>4 DEF Works
      <4> HIDE DEF u
      <4>4. PushToQueue(u).transfers = u.transfers
        BY <4>2 DEF PushToQueue, Works
      <4> QED BY <4>1, <4>3, <4>4
    <3> QED BY <1>4, <3>1
  <2>4. Good(m, jb2, tr2, U2, EndedBy(E, a, t), there)
    <3>1. Live(View(jb, tr, U, m)[a]) BY <1>3 DEF w
    <3>2. Moved(View(jb, tr, U, m), View(jb2, tr2, U2, m), a, t.push)
      BY <2>2 DEF w
    <3> QED BY <2>2, <3>1, <3>2, StepGood
  <2> QED BY <1>2, <1>3, <2>3, <2>4 DEF g
<1> QED BY <1>10, <1>11

-----------------------------------------------------------------------------
(* The tasks, and what passes in a frame. *)

\* Entries are something else than none.
LEMMA EntriesNotNone ==
  ASSUME NEW J \in SUBSET Nat
  PROVE  None \notin EntriesOf(J)
BY LoadAssumption DEF EntriesOf

\* What passes from a state to another stays whose it is.
LEMMA PassingSame ==
  ASSUME NEW J \in SUBSET Nat, NEW t \in Transfers(J), NEW from,
         NEW to \in {"requested", "sent", "waiting", "answered"}
  PROVE  LET p == Passing(t, from, to) IN
         /\ p \in Transfers(J)
         /\ \A f \in Files : /\ p[f] = None <=> t[f] = None
                             /\ t[f] # None => p[f].job = t[f].job
                             /\ t[f] # None /\ t[f].state # from => p[f] = t[f]
                             /\ t[f] # None => \/ p[f].state = t[f].state
                                               \/ p[f].state = to
         /\ \A m \in Models : \A j : Owned(p, m, j) = Owned(t, m, j)
         /\ \A jb : Entered(jb, t) => Entered(jb, p)
<1> DEFINE p == Passing(t, from, to)
<1>1. p \in Transfers(J) BY PassingType
<1>2. ASSUME NEW f \in Files
      PROVE  /\ p[f] = None <=> t[f] = None
             /\ t[f] # None => p[f].job = t[f].job
             /\ t[f] # None /\ t[f].state # from => p[f] = t[f]
             /\ t[f] # None => p[f].state = t[f].state \/ p[f].state = to
  <2>1. t[f] # None => t[f] \in EntriesOf(J) BY DEF Transfers
  <2>2. p[f] = IF t[f] # None /\ t[f].state = from
               THEN [t[f] EXCEPT !.state = to] ELSE t[f]
    BY DEF Passing
  <2>3. ASSUME t[f] # None
        PROVE  LET e == [t[f] EXCEPT !.state = to] IN
               e \in EntriesOf(J) /\ e.job = t[f].job /\ e.state = to
    BY <2>1, <2>3 DEF EntriesOf
  <2> HIDE DEF p
  <2> QED BY <2>2, <2>3, EntriesNotNone
<1> HIDE DEF p
<1>3. ASSUME NEW m \in Models, NEW j PROVE Owned(p, m, j) = Owned(t, m, j)
  <2>1. \A k \in Kinds : <<m, k>> \in Files BY DEF Files
  <2> QED BY <1>2, <2>1 DEF Owned
<1>4. ASSUME NEW jb, Entered(jb, t) PROVE Entered(jb, p)
  BY <1>2, <1>4 DEF Entered
<1> QED BY <1>1, <1>2, <1>3, <1>4 DEF p

\* The items of a tail, and of a concatenation, by their place.
LEMMA TailItems ==
  ASSUME NEW S, NEW q \in Seq(S), q # <<>>
  PROVE  /\ Tail(q) \in Seq(S) /\ 1 \in DOMAIN q /\ q[1] = Head(q) /\ Head(q) \in S
         /\ \A i \in DOMAIN Tail(q) :
              i + 1 \in DOMAIN q /\ i + 1 # 1 /\ Tail(q)[i] = q[i + 1]
         /\ \A i, n \in DOMAIN Tail(q) : i # n => i + 1 # n + 1
         /\ \A i \in DOMAIN q : i # 1 =>
              i - 1 \in DOMAIN Tail(q) /\ Tail(q)[i - 1] = q[i]
OBVIOUS

LEMMA JoinItems ==
  ASSUME NEW S, NEW q \in Seq(S), NEW r \in Seq(S)
  PROVE  /\ q \o r \in Seq(S)
         /\ \A i \in DOMAIN q : i \in DOMAIN (q \o r) /\ (q \o r)[i] = q[i]
         /\ \A i \in DOMAIN r : Len(q) + i \in DOMAIN (q \o r)
                                /\ (q \o r)[Len(q) + i] = r[i]
         /\ \A i \in DOMAIN (q \o r) :
              i \in DOMAIN q \/ (i - Len(q) \in DOMAIN r
                                 /\ (q \o r)[i] = r[i - Len(q)])
OBVIOUS

\* Whose jobs are to begin, one task less and some more.
LEMMA StartingTail ==
  ASSUME NEW S, NEW q \in Seq(S), q # <<>>
  PROVE  Starting(q) = Starting(Tail(q)) \cup
            (IF Head(q).type = "start" THEN {Head(q).job} ELSE {})
<1>1. /\ \A i \in DOMAIN Tail(q) : i + 1 \in DOMAIN q /\ Tail(q)[i] = q[i + 1]
      /\ \A i \in DOMAIN q : i # 1 =>
              i - 1 \in DOMAIN Tail(q) /\ Tail(q)[i - 1] = q[i]
      /\ 1 \in DOMAIN q /\ q[1] = Head(q)
  BY TailItems
<1> QED BY <1>1 DEF Starting

LEMMA StartingJoin ==
  ASSUME NEW S, NEW q \in Seq(S), NEW r \in Seq(S)
  PROVE  Starting(q \o r) = Starting(q) \cup Starting(r)
<1> DEFINE p == q \o r
<1>1. /\ \A i \in DOMAIN q : i \in DOMAIN p /\ p[i] = q[i]
      /\ \A i \in DOMAIN r : Len(q) + i \in DOMAIN p /\ p[Len(q) + i] = r[i]
      /\ \A i \in DOMAIN p :
              i \in DOMAIN q \/ (i - Len(q) \in DOMAIN r /\ p[i] = r[i - Len(q)])
  BY JoinItems
<1> HIDE DEF p
<1>2. Starting(p) = Starting(q) \cup Starting(r) BY <1>1 DEF Starting
<1> QED BY <1>2 DEF p

LEMMA TaskFacts ==
  ASSUME NEW J, NEW t \in TasksOf(J)
  PROVE  /\ t.type # "spawn" => t.job \in J
         /\ t.kind \in Kinds
BY DEF TasksOf, Task, Kinds

\* The tasks of a model are as they should be still.
LEMMA TidyKept ==
  ASSUME NEW jb, NEW jb2, NEW q \in Seq(TasksOf(DOMAIN jb)),
         NEW dq \in Seq(DOMAIN jb), NEW dq2 \in {dq, <<>>}, NEW tr, NEW tr2, NEW m,
         \A j \in DOMAIN jb : jb2[j].model = jb[j].model,
         Tidy(jb, q, dq, tr, m),
         \A k \in Kinds : tr[<<m, k>>] # None /\ tr[<<m, k>>].state = "answered"
                             => tr2[<<m, k>>] = tr[<<m, k>>]
  PROVE  Tidy(jb2, q, dq2, tr2, m)
<1>1. \A i \in DOMAIN q : /\ q[i].type # "spawn" => q[i].job \in DOMAIN jb
                          /\ q[i].kind \in Kinds
  BY TaskFacts
<1>2. \A i \in DOMAIN q : OfModel(jb2, q[i], m) <=> OfModel(jb, q[i], m)
  BY <1>1 DEF OfModel
<1>3. \A i \in DOMAIN q : Proper(jb2, tr2, q[i], m)
  BY <1>1, <1>2 DEF Tidy, Proper, Awaited
<1>4. \A i \in DOMAIN dq : dq[i] \in DOMAIN jb OBVIOUS
<1> QED BY <1>2, <1>3, <1>4 DEF Tidy

\* One is carried out: the entry it is about may go with it.
LEMMA TidyTail ==
  ASSUME NEW jb, NEW jb2, NEW q \in Seq(TasksOf(DOMAIN jb)), q # <<>>,
         NEW dq \in Seq(DOMAIN jb), NEW tr, NEW tr2, NEW m,
         \A j \in DOMAIN jb : jb2[j].model = jb[j].model,
         Tidy(jb, q, dq, tr, m),
         \A k \in Kinds : tr[<<m, k>>] # None /\ tr[<<m, k>>].state = "answered"
                             => \/ tr2[<<m, k>>] = tr[<<m, k>>]
                                \/ /\ OfModel(jb, Head(q), m)
                                   /\ Head(q).type = "done" /\ Head(q).kind = k
  PROVE  /\ Tidy(jb2, Tail(q), dq, tr2, m)
         /\ OfModel(jb, Head(q), m) /\ Head(q).type = "start" =>
              Head(q).job \notin Starting(Tail(q)) \cup Members(dq)
<1> DEFINE p == Tail(q)
           t == Head(q)
<1>1. /\ 1 \in DOMAIN q /\ q[1] = t
      /\ \A i \in DOMAIN p : i + 1 \in DOMAIN q /\ i + 1 # 1 /\ p[i] = q[i + 1]
      /\ \A i, n \in DOMAIN p : i # n => i + 1 # n + 1
  BY TailItems
<1>2. \A i \in DOMAIN q : /\ q[i].type # "spawn" => q[i].job \in DOMAIN jb
                          /\ q[i].kind \in Kinds
  BY TaskFacts
<1>3. \A i \in DOMAIN q : OfModel(jb2, q[i], m) <=> OfModel(jb, q[i], m)
  BY <1>2 DEF OfModel
<1>4. \A i \in DOMAIN q : Proper(jb, tr, q[i], m)
  BY DEF Tidy
<1>5. \A i \in DOMAIN q : i # 1 /\ OfModel(jb, t, m) => ~Alike(t, q[i])
  BY <1>1 DEF Tidy
<1>6. Starting(p) \subseteq Starting(q)
  BY <1>1 DEF Starting
<1> HIDE DEF p, t
<1>7. ASSUME NEW i \in DOMAIN p PROVE Proper(jb2, tr2, p[i], m)
  <2> DEFINE u == p[i]
  <2>1. i + 1 \in DOMAIN q /\ i + 1 # 1 /\ u = q[i + 1] BY <1>1
  <2>2. Proper(jb, tr, u, m) BY <1>4, <2>1
  <2>3. OfModel(jb2, u, m) <=> OfModel(jb, u, m) BY <1>3, <2>1
  <2>4. u.kind \in Kinds BY <1>2, <2>1
  <2>5. ASSUME OfModel(jb, t, m), t.type = "done", t.kind = u.kind,
               u.type = "done", OfModel(jb, u, m)
        PROVE  FALSE
    <3>1. Awaited(tr, t, m) /\ Awaited(tr, u, m)
      BY <1>1, <1>4, <2>2, <2>5 DEF Proper
    <3>2. Alike(t, u) BY <2>5, <3>1 DEF Awaited, Alike
    <3> QED BY <1>5, <2>1, <2>5, <3>2
  <2> HIDE DEF u
  <2>6. Proper(jb2, tr2, u, m)
    BY <2>2, <2>3, <2>4, <2>5 DEF Proper, Awaited, t
  <2> QED BY <2>6 DEF u
<1>8. \A i, n \in DOMAIN p : i # n /\ OfModel(jb2, p[i], m) => ~Alike(p[i], p[n])
  BY <1>1, <1>3 DEF Tidy
<1>9. \A i \in DOMAIN dq : dq[i] \in DOMAIN jb OBVIOUS
<1>10. Tidy(jb2, p, dq, tr2, m)
  BY <1>6, <1>7, <1>8, <1>9 DEF Tidy
<1>11. ASSUME OfModel(jb, t, m), t.type = "start"
       PROVE  t.job \notin Starting(p) \cup Members(dq)
  <2>1. ASSUME t.job \in Starting(p) PROVE FALSE
    <3>1. PICK i \in DOMAIN p : p[i].type = "start" /\ p[i].job = t.job
      BY <2>1 DEF Starting
    <3>2. i + 1 \in DOMAIN q /\ i + 1 # 1 /\ p[i] = q[i + 1] BY <1>1
    <3>3. OfModel(jb, q[i + 1], m) BY <1>11, <3>1, <3>2 DEF OfModel
    <3>4. t.kind = "txd" /\ q[i + 1].kind = "txd"
      BY <1>1, <1>4, <1>11, <3>1, <3>2, <3>3 DEF Proper
    <3>5. Alike(t, q[i + 1]) BY <1>11, <3>1, <3>2, <3>4 DEF Alike
    <3> QED BY <1>5, <1>11, <3>2, <3>5
  <2>2. ASSUME t.job \in Members(dq) PROVE FALSE
    <3>1. PICK i \in DOMAIN dq : dq[i] = t.job BY <2>2 DEF Members
    <3>2. t.job \in Starting(q) BY <1>1, <1>11 DEF Starting
    <3>3. jb[dq[i]].model = m BY <1>11, <3>1 DEF OfModel
    <3> QED BY <3>1, <3>2, <3>3 DEF Tidy
  <2> QED BY <2>1, <2>2
<1> QED BY <1>10, <1>11 DEF p, t

\* More are pushed, of which those of the model are proper and new.
LEMMA TidyJoin ==
  ASSUME NEW jb, NEW q \in Seq(TasksOf(DOMAIN jb)), NEW r \in Seq(TasksOf(DOMAIN jb)),
         NEW dq \in Seq(DOMAIN jb), NEW tr, NEW m, Tidy(jb, q, dq, tr, m),
         \/ \A i \in DOMAIN r : ~OfModel(jb, r[i], m)
         \/ \E t \in TasksOf(DOMAIN jb) :
              /\ r = <<t>> /\ Proper(jb, tr, t, m)
              /\ t.type = "start" => t.job \notin Members(dq)
              /\ \A i \in DOMAIN q : ~Alike(q[i], t)
  PROVE  Tidy(jb, q \o r, dq, tr, m)
<1> DEFINE p == q \o r
<1>1. /\ \A i \in DOMAIN p :
              \/ i \in DOMAIN q /\ p[i] = q[i]
              \/ i - Len(q) \in DOMAIN r /\ p[i] = r[i - Len(q)] /\ i \notin DOMAIN q
      /\ \A i, n \in DOMAIN p : i # n => i - Len(q) # n - Len(q)
  OBVIOUS
<1>2. Starting(p) = Starting(q) \cup Starting(r) BY StartingJoin
<1> HIDE DEF p
<1>3. CASE \A i \in DOMAIN r : ~OfModel(jb, r[i], m)
  <2>1. \A i \in DOMAIN p : OfModel(jb, p[i], m) => i \in DOMAIN q /\ p[i] = q[i]
    BY <1>1, <1>3
  <2>2. \A i \in DOMAIN p : Proper(jb, tr, p[i], m)
    BY <2>1 DEF Tidy, Proper
  <2>3. ASSUME NEW i \in DOMAIN p, NEW n \in DOMAIN p, i # n, OfModel(jb, p[i], m)
        PROVE  ~Alike(p[i], p[n])
    <3>1. CASE n \in DOMAIN q /\ p[n] = q[n] BY <2>1, <2>3, <3>1 DEF Tidy
    <3>2. CASE n - Len(q) \in DOMAIN r /\ p[n] = r[n - Len(q)]
      BY <1>3, <2>3, <3>2 DEF OfModel, Alike
    <3> QED BY <1>1, <3>1, <3>2
  <2>4. ASSUME NEW i \in DOMAIN dq, jb[dq[i]].model = m PROVE dq[i] \notin Starting(p)
    <3>1. dq[i] \notin Starting(r) BY <1>3, <2>4 DEF Starting, OfModel
    <3> QED BY <1>2, <2>4, <3>1 DEF Tidy
  <2> QED BY <2>2, <2>3, <2>4 DEF Tidy, p
<1>4. CASE \E t \in TasksOf(DOMAIN jb) :
              /\ r = <<t>> /\ Proper(jb, tr, t, m)
              /\ t.type = "start" => t.job \notin Members(dq)
              /\ \A i \in DOMAIN q : ~Alike(q[i], t)
  <2>1. PICK t : /\ r = <<t>> /\ Proper(jb, tr, t, m)
                 /\ t.type = "start" => t.job \notin Members(dq)
                 /\ \A i \in DOMAIN q : ~Alike(q[i], t)
    BY <1>4
  <2>2. DOMAIN r = {1} /\ r[1] = t BY <2>1
  <2>3. \A i \in DOMAIN p : \/ i \in DOMAIN q /\ p[i] = q[i]
                            \/ i - Len(q) = 1 /\ p[i] = t
    BY <1>1, <2>2
  <2>4. \A i \in DOMAIN p : Proper(jb, tr, p[i], m)
    BY <2>1, <2>3 DEF Tidy
  <2>5. \A i, n \in DOMAIN p : i # n /\ OfModel(jb, p[i], m) => ~Alike(p[i], p[n])
    BY <1>1, <2>1, <2>3 DEF Tidy, Alike
  <2>6. \A i \in DOMAIN dq : jb[dq[i]].model = m => dq[i] \notin Starting(p)
    BY <1>2, <2>1, <2>2 DEF Tidy, Starting, Members
  <2> QED BY <2>4, <2>5, <2>6 DEF Tidy, p
<1> QED BY <1>3, <1>4

\* Where the main thread goes on.
LEMMA ContinuePc ==
  ASSUME NEW i \in 0..5, NEW run \in BOOLEAN, Continue(i, run)
  PROVE  /\ pc' = "definitions" => spawned' /\ defQueue' # <<>>
         /\ spawnRun' => pc' \in {"clear", "definitions", "completed",
                                  "finalizations"}
         /\ i = 0 /\ clearAll' => pc' = "clear"
         /\ i >= 2 /\ clearAll' /\ completedQueue' = <<>> /\ finalizeQueue' = <<>>
              => pc' \in {"idle", "tasks", "clear", "destructions"}
<1> DEFINE next  == {k \in (i + 1)..(IF run THEN 4 ELSE 5) : Busy(k)}
           frame == {k \in 1..5 : run /\ Busy(k)}
<1>1. /\ spawnRun' = (run /\ next # {})
      /\ pc' = IF next # {} THEN Phases[Min(next)]
                ELSE IF run /\ tasks' # <<>> THEN "tasks"
                ELSE IF frame # {} THEN Phases[Min(frame)] ELSE "idle"
  BY DEF Continue
<1>2. /\ next \subseteq 1..5 /\ frame \subseteq 1..5
      /\ \A k \in next : Busy(k) /\ k >= i + 1 /\ (run => k <= 4)
      /\ \A k \in frame : Busy(k)
      /\ i = 0 /\ Busy(1) => 1 \in next
      /\ run /\ Busy(1) => 1 \in frame
      /\ frame # {} => run
  OBVIOUS
<1> HIDE DEF next, frame
<1>3. ASSUME NEW S \in SUBSET (1..5), S # {}
      PROVE  Min(S) \in S /\ \A k \in S : Min(S) <= k
  <2>0. S \subseteq Nat OBVIOUS
  <2>1. \E n \in S : \A m \in S : n <= m
    BY <1>3, <2>0, LeastNat
  <2> QED BY <2>1 DEF Min
<1>4. /\ next # {} => Min(next) \in next /\ \A k \in next : Min(next) <= k
      /\ frame # {} => Min(frame) \in frame /\ \A k \in frame : Min(frame) <= k
  BY <1>2, <1>3
<1>5. /\ Phases[1] = "clear" /\ Phases[2] = "definitions" /\ Phases[3] = "completed"
      /\ Phases[4] = "finalizations" /\ Phases[5] = "destructions"
  BY DEF Phases
<1>6. /\ (Busy(1) <=> clearAll') /\ (Busy(2) <=> spawned' /\ defQueue' # <<>>)
      /\ (Busy(3) <=> completedQueue' # <<>>)
      /\ (Busy(4) <=> spawned' /\ finalizeQueue' # <<>>)
  BY DEF Busy
<1>7. \A k \in 1..5 : k = 1 \/ k = 2 \/ k = 3 \/ k = 4 \/ k = 5 OBVIOUS
<1>8. CASE next # {}
  <2> DEFINE n == Min(next)
  <2>1. n \in 1..5 /\ Busy(n) /\ pc' = Phases[n] /\ n >= i + 1 /\ (run => n <= 4)
        /\ \A k \in next : n <= k
    BY <1>1, <1>2, <1>4, <1>8
  <2> HIDE DEF n
  <2>2. n = 1 \/ n = 2 \/ n = 3 \/ n = 4 \/ n = 5 BY <1>7, <2>1
  <2>3. i = 0 /\ clearAll' => n = 1 BY <1>2, <1>6, <2>1
  <2> QED BY <1>1, <1>5, <1>6, <2>1, <2>2, <2>3
<1>9. CASE next = {} /\ run /\ tasks' # <<>>
  BY <1>1, <1>2, <1>6, <1>9
<1>10. CASE next = {} /\ ~(run /\ tasks' # <<>>) /\ frame # {}
  <2> DEFINE n == Min(frame)
  <2>1. n \in 1..5 /\ Busy(n) /\ pc' = Phases[n] /\ \A k \in frame : n <= k
    BY <1>1, <1>2, <1>4, <1>10
  <2> HIDE DEF n
  <2>2. n = 1 \/ n = 2 \/ n = 3 \/ n = 4 \/ n = 5 BY <1>7, <2>1
  <2>3. clearAll' => n = 1 BY <1>2, <1>6, <1>10, <2>1
  <2> QED BY <1>1, <1>2, <1>5, <1>6, <1>10, <2>1, <2>2, <2>3
<1>11. CASE next = {} /\ ~(run /\ tasks' # <<>>) /\ frame = {}
  BY <1>1, <1>2, <1>6, <1>11
<1> QED BY <1>8, <1>9, <1>10, <1>11

\* The tasks of this frame come first.
LEMMA TokenFacts ==
  ASSUME JobTypes
  PROVE  /\ Tokens \in Seq(TasksOf(DOMAIN jobs))
         /\ DOMAIN jobs \subseteq Nat
         /\ Ended \subseteq DOMAIN jobs
         /\ tasks # <<>> => /\ Tokens # <<>> /\ Head(Tokens) = Head(tasks)
                            /\ Tail(Tokens) = Tail(tasks) \o mainQueue
<1> DEFINE Q == TasksOf(DOMAIN jobs)
<1>1. tasks \in Seq(Q) /\ mainQueue \in Seq(Q) BY DEF JobTypes
<1> HIDE DEF Q
<1>2. /\ tasks \o mainQueue \in Seq(Q)
      /\ tasks # <<>> => /\ tasks \o mainQueue # <<>>
                         /\ Head(tasks \o mainQueue) = Head(tasks)
                         /\ Tail(tasks \o mainQueue) = Tail(tasks) \o mainQueue
  BY <1>1
<1>3. DOMAIN jobs \subseteq Nat BY DEF JobTypes
<1>4. Ended \subseteq DOMAIN jobs BY DEF JobTypes, Ended, Members
<1> QED BY <1>2, <1>3, <1>4 DEF Tokens, Q

\* Nothing that a model's coming depends on changes for the worse.
LEMMA ComingKept ==
  ASSUME NEW m \in Models, Coming(m),
         UNCHANGED <<jobs, initGame, activeIds>>, m \notin destroyQueue',
         Tidy(jobs', Tokens', defQueue', transfers', m),
         \A j \in DOMAIN jobs : jobs[j].model = m =>
             /\ j \in Starters' <=> j \in Starters
             /\ Owned(transfers', m, j) = Owned(transfers, m, j)
             /\ j \in Ended' <=> j \in Ended,
         Ended \subseteq DOMAIN jobs, Ended' \subseteq DOMAIN jobs,
         loaded[m] # None /\ ~clearAll => loaded'[m] # None /\ ~clearAll'
  PROVE  Coming(m)'
<1>1. View(jobs', transfers', Starters', m) = View(jobs, transfers, Starters, m)
  BY DEF View
<1> DEFINE won == (loaded[m] # None /\ ~clearAll) \/ \E j \in Ended : jobs[j].model = m
           won2 == (loaded'[m] # None /\ ~clearAll')
                       \/ \E j \in Ended' : jobs'[j].model = m
<1>2. won => won2 OBVIOUS
<1>3. \A j \in Ended' : jobs'[j].model = m => Essential(jobs'[j])
  BY DEF Coming, Good
<1>4. Fate(View(jobs, transfers, Starters, m), initGame, m \in activeIds, won)
  BY DEF Coming, Good
<1> HIDE DEF won, won2
<1>5. Fate(View(jobs', transfers', Starters', m), initGame', m \in activeIds', won2)
  BY <1>1, <1>2, <1>4 DEF Fate
<1> QED BY <1>3, <1>5 DEF Coming, Good, won2

-----------------------------------------------------------------------------
(* The invariant, step by step. *)

\* A phase that goes on as it must keeps what is known of the frame.
LEMMA ContinueFrame ==
  ASSUME NEW i \in 0..5, NEW run \in BOOLEAN, Continue(i, run),
         initGame' /\ spawned' => defQueue' = <<>>,
         \/ i = 0 \/ ~clearAll'
         \/ i >= 2 /\ completedQueue' = <<>> /\ finalizeQueue' = <<>>
  PROVE  Clearing' /\ PutOff' /\ InRun'
<1>1. /\ pc' = "definitions" => spawned' /\ defQueue' # <<>>
      /\ spawnRun' => pc' \in {"clear", "definitions", "completed",
                                  "finalizations"}
      /\ i = 0 /\ clearAll' => pc' = "clear"
      /\ i >= 2 /\ clearAll' /\ completedQueue' = <<>> /\ finalizeQueue' = <<>>
              => pc' \in {"idle", "tasks", "clear", "destructions"}
  BY ContinuePc
<1>2. Clearing' BY <1>1 DEF Clearing
<1>3. PutOff' BY <1>1 DEF PutOff
<1>4. InRun' BY <1>1 DEF InRun
<1> QED BY <1>2, <1>3, <1>4

\* What of the state a model's coming does not depend on.
comingVars == <<spawned, initGame, corrupt, activeIds, jobs, defQueue,
                completedQueue, finalizeQueue, destroyQueue, clearAll, mainQueue,
                tasks, pc, spawnRun, transfers, loaded, gone>>
\* Nothing changes at all.
LEMMA ComingStutters ==
  ASSUME ComingNow, UNCHANGED comingVars
  PROVE  ComingNow'
<1> USE DEF comingVars
<1>1. Tokens' = Tokens BY DEF Tokens
<1>2. Starters' = Starters /\ Ended' = Ended
  BY <1>1 DEF Starters, Ended, Members, Starting
<1>3. Clearing' /\ PutOff' /\ InRun' /\ Entered(jobs, transfers)'
  BY DEF ComingNow, Clearing, PutOff, InRun, Entered
<1>4. ASSUME NEW m \in Models, Coming(m) PROVE Coming(m)'
  <2>1. Good(m, jobs, transfers, Starters, Ended, loaded[m] # None /\ ~clearAll)'
    BY <1>2, <1>4 DEF Coming, Good
  <2>2. Tidy(jobs, Tokens, defQueue, transfers, m)'
    BY <1>1, <1>4 DEF Coming
  <2> QED BY <1>4, <2>1, <2>2 DEF Coming
<1>5. \A m \in Models \ gone : Whole(m)' => Whole(m) BY DEF Whole
<1> QED BY <1>3, <1>4, <1>5 DEF ComingNow

\* The server's steps, and vehicles that take or leave a model.
LEMMA QuietComing ==
  ASSUME ComingNow, OnServer \/ (\E m \in Models : Use(m)) \/ UNCHANGED vars
  PROVE  ComingNow'
<1>1. UNCHANGED comingVars
  <2>1. CASE OnServer
    BY <2>1 DEF OnServer, sessionVars, jobVars, taskVars, fileVars, modelVars,
                comingVars
  <2>2. CASE \E m \in Models : Use(m)
    BY <2>2 DEF Use, sessionVars, jobVars, taskVars, fileVars, modelVars,
                comingVars
  <2>3. CASE UNCHANGED vars
    BY <2>3 DEF vars, sessionVars, jobVars, taskVars, fileVars, modelVars,
                comingVars
  <2> QED BY <2>1, <2>2, <2>3
<1> QED BY <1>1, ComingStutters

\* The tasks and the entries of the frame that begins.
LEMMA BeginFrameComing ==
  ASSUME LoadInv, ComingNow, BeginFrame
  PROVE  ComingNow'
<1>1. /\ tasks' = mainQueue /\ mainQueue' = <<>> /\ pc = "idle"
      /\ transfers' \in {Passing(transfers, "requested", "waiting"),
                         Passing(transfers, "requested", "sent")}
      /\ UNCHANGED <<sessionVars, corrupt, jobVars, modelVars>>
  BY DEF BeginFrame
<1> USE DEF sessionVars, jobVars, modelVars
<1>2. JobTypes /\ PcTypes /\ SessionTypes BY DEF LoadInv
<1>3. tasks = <<>> BY <1>1, <1>2 DEF PcTypes, ComingNow, InRun
<1>4. Tokens' = Tokens
  <2> DEFINE Q == TasksOf(DOMAIN jobs)
  <2>1. mainQueue \in Seq(Q) BY <1>2 DEF JobTypes
  <2> HIDE DEF Q
  <2>2. mainQueue \o <<>> = mainQueue /\ <<>> \o mainQueue = mainQueue BY <2>1
  <2> QED BY <1>1, <1>3, <2>2 DEF Tokens
<1>5. DOMAIN jobs \in SUBSET Nat /\ transfers \in Transfers(DOMAIN jobs)
  BY <1>2 DEF JobTypes
<1>6. /\ \A f \in Files : transfers[f] # None /\ transfers[f].state = "answered"
                              => transfers'[f] = transfers[f]
      /\ \A m \in Models : \A j : Owned(transfers', m, j) = Owned(transfers, m, j)
      /\ Entered(jobs, transfers) => Entered(jobs, transfers')
  BY <1>1, <1>5, PassingSame
<1>7. Starters' = Starters /\ Ended' = Ended
  BY <1>1, <1>4 DEF Starters, Ended, Members, Starting
<1>8. /\ Tokens \in Seq(TasksOf(DOMAIN jobs)) /\ Ended \subseteq DOMAIN jobs
      /\ defQueue \in Seq(DOMAIN jobs)
  BY <1>2, TokenFacts DEF JobTypes
<1>9. ASSUME NEW m \in Models, Coming(m) PROVE Coming(m)'
  <2>1. \A k \in Kinds : <<m, k>> \in Files BY DEF Files
  <2>2. Tidy(jobs', Tokens', defQueue', transfers', m)
    <3>1. \A k \in Kinds :
            transfers[<<m, k>>] # None /\ transfers[<<m, k>>].state = "answered"
               => transfers'[<<m, k>>] = transfers[<<m, k>>]
      BY <1>6, <2>1
    <3>2. Tidy(jobs, Tokens, defQueue, transfers, m) BY <1>9 DEF Coming
    <3>3. Tidy(jobs, Tokens, defQueue, transfers', m)
      BY <1>8, <3>1, <3>2, TidyKept
    <3> QED BY <1>1, <1>4, <3>3
  <2>3. m \notin destroyQueue' /\ Ended' \subseteq DOMAIN jobs
    BY <1>1, <1>7, <1>8, <1>9 DEF Coming
  <2>4. /\ UNCHANGED <<jobs, initGame, activeIds>>
        /\ loaded[m] # None /\ ~clearAll => loaded'[m] # None /\ ~clearAll'
    BY <1>1
  <2>5. \A j \in DOMAIN jobs : jobs[j].model = m =>
             /\ j \in Starters' <=> j \in Starters
             /\ Owned(transfers', m, j) = Owned(transfers, m, j)
             /\ j \in Ended' <=> j \in Ended
    BY <1>6, <1>7
  <2> QED BY <1>8, <1>9, <2>2, <2>3, <2>4, <2>5, ComingKept
<1>10. Clearing' /\ PutOff' /\ InRun'
  <2>0. initGame' /\ spawned' => defQueue' = <<>> BY <1>1 DEF ComingNow, PutOff
  <2>1. CASE mainQueue = <<>>
    <3>1. Continue(0, FALSE) BY <2>1 DEF BeginFrame
    <3>2. 0 \in 0..5 /\ FALSE \in BOOLEAN OBVIOUS
    <3> QED BY <2>0, <3>1, <3>2, ContinueFrame
  <2>2. CASE mainQueue # <<>>
    <3>1. pc' = "tasks" /\ spawnRun' = spawnRun BY <2>2 DEF BeginFrame
    <3>2. ~spawnRun BY <1>1 DEF ComingNow, InRun
    <3> QED BY <2>0, <3>1, <3>2 DEF Clearing, PutOff, InRun
  <2> QED BY <2>1, <2>2
<1>11. \A m \in Models \ gone' : Whole(m)' => m \notin gone /\ Whole(m)
  BY <1>1 DEF Whole
<1>12. Entered(jobs, transfers)' BY <1>1, <1>6 DEF ComingNow
<1> QED BY <1>9, <1>10, <1>11, <1>12 DEF ComingNow

\* Tasks are pushed: that of RPC_Spawn, an answer, or what other models' jobs
\* are told.  Nothing else happens to the jobs that are left alone.
LEMMA PushedComing ==
  ASSUME JobTypes, JobTypes', NEW m \in Models, Coming(m),
         NEW r \in Seq(TasksOf(DOMAIN jobs)), mainQueue' = mainQueue \o r,
         UNCHANGED <<jobs, initGame, activeIds, defQueue, completedQueue,
                     finalizeQueue, tasks, loaded, clearAll>>,
         m \notin destroyQueue',
         \A i \in DOMAIN r : r[i].type # "start",
         \A k \in Kinds : transfers[<<m, k>>] # None
                             /\ transfers[<<m, k>>].state = "answered"
                             => transfers'[<<m, k>>] = transfers[<<m, k>>],
         \A j \in DOMAIN jobs : Owned(transfers', m, j) = Owned(transfers, m, j),
         \/ \A i \in DOMAIN r : ~OfModel(jobs, r[i], m)
         \/ \E t \in TasksOf(DOMAIN jobs) :
              /\ r = <<t>> /\ Proper(jobs, transfers', t, m)
              /\ t.type = "start" => t.job \notin Members(defQueue)
              /\ \A i \in DOMAIN Tokens : ~Alike(Tokens[i], t)
  PROVE  Coming(m)'
<1> DEFINE Q == TasksOf(DOMAIN jobs)
<1>1. tasks \in Seq(Q) /\ mainQueue \in Seq(Q) /\ r \in Seq(Q) BY DEF JobTypes
<1> HIDE DEF Q
<1>2. Tokens' = Tokens \o r
  <2>1. tasks \o (mainQueue \o r) = (tasks \o mainQueue) \o r BY <1>1
  <2> QED BY <2>1 DEF Tokens
<1>3. /\ Tokens \in Seq(TasksOf(DOMAIN jobs)) /\ Ended \subseteq DOMAIN jobs
      /\ defQueue \in Seq(DOMAIN jobs)
  BY TokenFacts DEF JobTypes
<1>4. Starting(r) = {} BY DEF Starting
<1>5. Starters' = Starters /\ Ended' = Ended
  <2>1. Starting(Tokens \o r) = Starting(Tokens) \cup Starting(r)
    BY <1>3, StartingJoin
  <2> QED BY <1>2, <1>4, <2>1 DEF Starters, Ended, Members
<1>6. Tidy(jobs, Tokens, defQueue, transfers', m)
  BY <1>3, TidyKept DEF Coming
<1>7. Tidy(jobs, Tokens \o r, defQueue, transfers', m)
  BY <1>3, <1>6, TidyJoin
<1>8. Tidy(jobs', Tokens', defQueue', transfers', m) BY <1>2, <1>7
<1>9. \A j \in DOMAIN jobs : jobs[j].model = m =>
             /\ j \in Starters' <=> j \in Starters
             /\ Owned(transfers', m, j) = Owned(transfers, m, j)
             /\ j \in Ended' <=> j \in Ended
  BY <1>5
<1> QED BY <1>3, <1>5, <1>8, <1>9, ComingKept

\* RPC_Spawn pushes the task that runs the phases.
LEMMA SpawnComing ==
  ASSUME LoadInv, LoadInv', ComingNow, Spawn
  PROVE  ComingNow'
<1> DEFINE t == Task("spawn", 0, "txd")
<1>1. /\ ~initGame /\ mainQueue' = Append(mainQueue, t)
      /\ UNCHANGED <<initGame, gone, corrupt, jobVars, tasks, pc, spawnRun,
                     transfers, modelVars>>
  BY DEF Spawn, fileVars
<1> USE DEF jobVars, modelVars
<1>2. JobTypes /\ JobTypes' BY DEF LoadInv
<1>3. t \in TasksOf(DOMAIN jobs) /\ t.type = "spawn" BY DEF TasksOf, Task
<1>4. mainQueue' = mainQueue \o <<t>>
  <2> DEFINE Q == TasksOf(DOMAIN jobs)
  <2>1. mainQueue \in Seq(Q) /\ t \in Q BY <1>2, <1>3 DEF JobTypes
  <2> HIDE DEF Q, t
  <2> QED BY <1>1, <2>1
<1> HIDE DEF t
<1>5. /\ <<t>> \in Seq(TasksOf(DOMAIN jobs))
      /\ \A i \in DOMAIN <<t>> : <<t>>[i] = t
  BY <1>3
<1>6. ASSUME NEW m \in Models, Coming(m) PROVE Coming(m)'
  <2>1. ~OfModel(jobs, t, m) /\ t.type # "start" BY <1>3 DEF OfModel
  <2>2. m \notin destroyQueue' BY <1>1, <1>6 DEF Coming
  <2>3. UNCHANGED <<jobs, initGame, activeIds, defQueue, completedQueue,
                     finalizeQueue, tasks, loaded, clearAll, transfers>>
    BY <1>1
  <2>4. \A j : Owned(transfers', m, j) = Owned(transfers, m, j) BY <2>3
  <2>5. /\ \A i \in DOMAIN <<t>> : ~OfModel(jobs, <<t>>[i], m)
        /\ \A i \in DOMAIN <<t>> : <<t>>[i].type # "start"
    BY <1>5, <2>1
  <2>6. \A k \in Kinds : transfers[<<m, k>>] # None
                             /\ transfers[<<m, k>>].state = "answered"
                             => transfers'[<<m, k>>] = transfers[<<m, k>>]
    BY <2>3
  <2> QED BY <1>2, <1>4, <1>5, <1>6, <2>2, <2>3, <2>4, <2>5, <2>6, PushedComing
<1>7. \A m \in Models \ gone' : Whole(m)' => m \notin gone /\ Whole(m)
  BY <1>1 DEF Whole
<1>8. Clearing' /\ PutOff' /\ InRun' /\ Entered(jobs, transfers)'
  BY <1>1 DEF ComingNow, Clearing, PutOff, InRun
<1> QED BY <1>6, <1>7, <1>8 DEF ComingNow

\* OnTransferEnd: the answer is a task for the job that waits.
LEMMA EndsComing ==
  ASSUME LoadInv, LoadInv', ComingNow, NEW f \in Files, TransferEnds(f)
  PROVE  ComingNow'
<1> DEFINE n == f[1]
           k == f[2]
           j == transfers[f].job
           t == Task("done", j, k)
           e == [transfers[f] EXCEPT !.state = "answered"]
<1>1. /\ transfers[f] # None /\ transfers[f].state = "waiting"
      /\ mainQueue' = Append(mainQueue, t)
      /\ transfers' = [transfers EXCEPT ![f].state = "answered"]
      /\ UNCHANGED <<sessionVars, corrupt, jobVars, tasks, pc, spawnRun, modelVars>>
  BY DEF TransferEnds, Answer
<1> USE DEF jobVars, modelVars, sessionVars
<1>2. JobTypes /\ JobTypes' BY DEF LoadInv
<1>3. DOMAIN jobs \in SUBSET Nat BY <1>2 DEF JobTypes
<1>4. n \in Models /\ k \in Kinds /\ f = <<n, k>> BY DEF Files
<1>5. transfers[f] \in EntriesOf(DOMAIN jobs) /\ DOMAIN transfers = Files
  BY <1>1, <1>2 DEF JobTypes, Transfers
<1>6. e \in EntriesOf(DOMAIN jobs) /\ e.job = j /\ e.state = "answered" /\ e # None
      /\ j \in DOMAIN jobs
  <2>1. e \in EntriesOf(DOMAIN jobs) /\ e.job = j /\ e.state = "answered"
        /\ j \in DOMAIN jobs
    BY <1>5 DEF EntriesOf
  <2> HIDE DEF e
  <2> QED BY <1>3, <2>1, EntriesNotNone
<1>7. \A g \in Files : transfers'[g] = IF g = f THEN e ELSE transfers[g]
  BY <1>1, <1>5
<1> HIDE DEF e
<1>8. jobs[j].model = n BY <1>1 DEF ComingNow, Entered
<1>9. /\ t \in TasksOf(DOMAIN jobs)
      /\ t.type = "done" /\ t.job = j /\ t.kind = k
  BY <1>4, <1>6 DEF TasksOf, Task
<1>10. mainQueue' = mainQueue \o <<t>>
  <2> DEFINE Q == TasksOf(DOMAIN jobs)
  <2>1. mainQueue \in Seq(Q) /\ t \in Q BY <1>2, <1>9 DEF JobTypes
  <2> HIDE DEF Q, t
  <2> QED BY <1>1, <2>1
<1> HIDE DEF t, j, n, k
<1>11. /\ <<t>> \in Seq(TasksOf(DOMAIN jobs))
       /\ \A i \in DOMAIN <<t>> : <<t>>[i] = t
  BY <1>9
<1>12. ASSUME NEW m \in Models, Coming(m) PROVE Coming(m)'
  <2>0. \A l \in Kinds : <<m, l>> \in Files BY DEF Files
  <2>1. \A l \in Kinds : <<m, l>> # f => transfers'[<<m, l>>] = transfers[<<m, l>>]
    BY <1>7, <2>0
  <2>2. \A i : Owned(transfers', m, i) = Owned(transfers, m, i)
    <3>1. ASSUME NEW l \in Kinds, NEW i
          PROVE  (transfers'[<<m, l>>] # None /\ transfers'[<<m, l>>].job = i) <=>
                 (transfers[<<m, l>>] # None /\ transfers[<<m, l>>].job = i)
      BY <1>1, <1>6, <1>7, <2>0 DEF j
    <3> QED BY <3>1 DEF Owned
  <2>3. m \notin destroyQueue' BY <1>1, <1>12 DEF Coming
  <2>4. UNCHANGED <<jobs, initGame, activeIds, defQueue, completedQueue,
                     finalizeQueue, tasks, loaded, clearAll>>
    BY <1>1
  <2>5. \A l \in Kinds : transfers[<<m, l>>] # None
                             /\ transfers[<<m, l>>].state = "answered"
                             => transfers'[<<m, l>>] = transfers[<<m, l>>]
    BY <1>1, <2>1
  <2>6. \A i \in DOMAIN <<t>> : <<t>>[i].type # "start" BY <1>9, <1>11
  <2>7. \/ \A i \in DOMAIN <<t>> : ~OfModel(jobs, <<t>>[i], m)
        \/ \E u \in TasksOf(DOMAIN jobs) :
              /\ <<t>> = <<u>> /\ Proper(jobs, transfers', u, m)
              /\ u.type = "start" => u.job \notin Members(defQueue)
              /\ \A i \in DOMAIN Tokens : ~Alike(Tokens[i], u)
    <3>1. CASE m # n
      BY <1>8, <1>9, <1>11, <3>1 DEF OfModel
    <3>2. CASE m = n
      <4>1. <<m, k>> = f BY <1>4, <3>2
      <4>2. Proper(jobs, transfers', t, m)
        BY <1>6, <1>7, <1>9, <4>1 DEF Proper, Awaited
      <4>3. ASSUME NEW i \in DOMAIN Tokens, Alike(Tokens[i], t) PROVE FALSE
        <5>1. OfModel(jobs, Tokens[i], m) /\ Tokens[i].type = "done"
              /\ Tokens[i].kind = k
          BY <1>8, <1>9, <3>2, <4>3 DEF Alike, OfModel
        <5>2. Proper(jobs, transfers, Tokens[i], m)
          BY <1>12 DEF Coming, Tidy
        <5>3. transfers[f].state = "answered"
          BY <4>1, <5>1, <5>2 DEF Proper, Awaited
        <5> QED BY <1>1, <5>3
      <4> QED BY <1>9, <4>2, <4>3
    <3> QED BY <3>1, <3>2
  <2> QED BY <1>2, <1>10, <1>11, <1>12, <2>2, <2>3, <2>4, <2>5, <2>6, <2>7,
             PushedComing
<1>13. \A m \in Models \ gone' : Whole(m)' => m \notin gone /\ Whole(m)
  BY <1>1 DEF Whole
<1>14. Entered(jobs, transfers)'
  BY <1>1, <1>4, <1>6, <1>7, <1>8 DEF ComingNow, Entered
<1>15. Clearing' /\ PutOff' /\ InRun'
  BY <1>1 DEF ComingNow, Clearing, PutOff, InRun
<1> QED BY <1>12, <1>13, <1>14, <1>15 DEF ComingNow

\* What the server destroys is its own affair: nobody else's.
LEMMA ToldItems ==
  ASSUME JobTypes, NEW S, Entered(jobs, transfers)
  PROVE  /\ ToldTasks(S) \in Seq(TasksOf(DOMAIN jobs))
         /\ \A i \in DOMAIN ToldTasks(S) :
              /\ ToldTasks(S)[i].type = "told"
              /\ \E f \in S \cap Files : jobs[ToldTasks(S)[i].job].model = f[1]
<1>1. ToldTasks(S) \in Seq(TasksOf(DOMAIN jobs)) BY ToldType
<1> DEFINE F == Waiting(S)
           s == SetToSeq(F)
<1>2. F \subseteq Files BY DEF Waiting
<1>3. IsFiniteSet(F) BY <1>2, FilesFinite, FS_Subset
<1>4. \A i \in DOMAIN s : s[i] \in F BY <1>3, SetToSeqType
<1>5. /\ DOMAIN ToldTasks(S) = DOMAIN s
      /\ \A i \in DOMAIN s :
           ToldTasks(S)[i] = Task("told", transfers[s[i]].job, s[i][2])
  BY DEF ToldTasks
<1> HIDE DEF s
<1>6. ASSUME NEW i \in DOMAIN s
      PROVE  /\ ToldTasks(S)[i].type = "told"
             /\ \E f \in S \cap Files : jobs[ToldTasks(S)[i].job].model = f[1]
  <2>1. s[i] \in S \cap Files /\ transfers[s[i]] # None
    BY <1>4 DEF Waiting
  <2>2. jobs[transfers[s[i]].job].model = s[i][1] BY <2>1 DEF Entered
  <2>3. ToldTasks(S)[i].type = "told" /\ ToldTasks(S)[i].job = transfers[s[i]].job
    BY <1>5 DEF Task
  <2> QED BY <2>1, <2>2, <2>3
<1> QED BY <1>1, <1>5, <1>6

\* ReceiveDestroy takes away what only the model destroyed had.
LEMMA DestroyComing ==
  ASSUME LoadInv, LoadInv', ComingNow, Receive, ReceiveDestroy(Head(wire))
  PROVE  ComingNow'
<1> DEFINE n == Head(wire).model
           S == {n} \X Kinds
           r == ToldTasks(S)
<1>1. /\ mainQueue' = mainQueue \o r /\ transfers' = Without(S)
      /\ destroyQueue' = destroyQueue \cup {n} /\ gone' = gone \cup {n}
      /\ UNCHANGED <<activeIds, jobs, defQueue, spawned, initGame, corrupt,
                     completedQueue, finalizeQueue, tasks, pc, spawnRun, loaded,
                     clearAll>>
  BY DEF Receive, ReceiveDestroy
<1>2. JobTypes /\ JobTypes' BY DEF LoadInv
<1>3. /\ r \in Seq(TasksOf(DOMAIN jobs))
      /\ \A i \in DOMAIN r :
           r[i].type = "told" /\ \E f \in S \cap Files : jobs[r[i].job].model = f[1]
  BY <1>2, ToldItems DEF ComingNow
<1>4. \A f \in Files : transfers'[f] = IF f \in S THEN None ELSE transfers[f]
  BY <1>1 DEF Without
<1>5. \A f \in S : f[1] = n OBVIOUS
<1> HIDE DEF r, S, n
<1>6. ASSUME NEW m \in Models, m # n, Coming(m) PROVE Coming(m)'
  <2>1. \A k \in Kinds : transfers'[<<m, k>>] = transfers[<<m, k>>]
    <3>1. \A k \in Kinds : <<m, k>> \in Files /\ <<m, k>>[1] = m BY DEF Files
    <3> QED BY <1>4, <1>5, <1>6, <3>1
  <2>2. \A j : Owned(transfers', m, j) = Owned(transfers, m, j) BY <2>1 DEF Owned
  <2>3. \A i \in DOMAIN r : ~OfModel(jobs, r[i], m) /\ r[i].type # "start"
    BY <1>3, <1>5, <1>6 DEF OfModel
  <2>4. m \notin destroyQueue' BY <1>1, <1>6 DEF Coming
  <2>5. UNCHANGED <<jobs, initGame, activeIds, defQueue, completedQueue,
                     finalizeQueue, tasks, loaded, clearAll>>
    BY <1>1
  <2> QED BY <1>1, <1>2, <1>3, <1>6, <2>1, <2>2, <2>3, <2>4, <2>5, PushedComing
<1>7. \A m \in Models \ gone' : Whole(m)' => m \notin gone /\ m # n /\ Whole(m)
  BY <1>1 DEF Whole
<1>8. Entered(jobs, transfers)' BY <1>1, <1>4 DEF ComingNow, Entered
<1>9. Clearing' /\ PutOff' /\ InRun'
  BY <1>1 DEF ComingNow, Clearing, PutOff, InRun
<1> QED BY <1>6, <1>7, <1>8, <1>9 DEF ComingNow

\* A job is added that is to begin.
Joined(w, v, n) ==
    /\ n \notin DOMAIN w /\ DOMAIN v = DOMAIN w \cup {n}
    /\ \A j \in DOMAIN w : v[j] = w[j]
    /\ v[n].begins /\ v[n].own = {} /\ v[n].col = "pending" /\ ~v[n].queued
\* The model had none under way, or one that an earlier session left.
LEMMA JoinedFate ==
  ASSUME NEW w, NEW v, NEW n, Joined(w, v, n), NEW new, NEW won, NEW won2,
         Fate(w, new, FALSE, won)
  PROVE  Fate(v, new, TRUE, won2)
<1>1. Goes(v[n]) /\ Live(v[n]) /\ Sound(v[n]) /\ n \in DOMAIN v
  BY DEF Joined, Goes, Live, Sound
<1>2. Course(v) BY <1>1 DEF Joined, Fate, Course
<1>3. LiveJobs(v) = LiveJobs(w) \cup {n}
  BY <1>1 DEF Joined, LiveJobs
<1>4. \A j \in LiveJobs(w) : j \in DOMAIN w /\ v[j] = w[j] /\ j \in DOMAIN v
  BY DEF LiveJobs, Joined
<1>5. Alone(w) /\ (new => LiveJobs(w) = {}) BY DEF Fate
<1>6. new => Alone(v) BY <1>1, <1>3, <1>5 DEF Alone
<1>7. Lead(v)
  <2>1. \E b \in DOMAIN v : LiveJobs(v) \subseteq {n, b} /\ Sound(v[b])
    <3>1. CASE LiveJobs(w) = {} BY <1>1, <1>3, <3>1
    <3>2. CASE LiveJobs(w) # {}
      <4>1. PICK b \in LiveJobs(w) : TRUE BY <3>2
      <4>2. LiveJobs(w) = {b} /\ Sound(w[b]) BY <1>5, <4>1 DEF Alone
      <4> QED BY <1>3, <1>4, <4>1, <4>2
    <3> QED BY <3>1, <3>2
  <2> QED BY <1>1, <1>3, <2>1 DEF Lead
<1> QED BY <1>2, <1>6, <1>7 DEF Fate

\* A new job is in no queue yet.
LEMMA TidyDefer ==
  ASSUME NEW jb, NEW q, NEW dq \in Seq(DOMAIN jb), NEW tr, NEW m,
         Tidy(jb, q, dq, tr, m), NEW n \in DOMAIN jb,
         n \notin Members(dq) \cup Starting(q)
  PROVE  Tidy(jb, q, Append(dq, n), tr, m)
<1> DEFINE d == Append(dq, n)
<1>1. \A i \in DOMAIN d : \/ i \in DOMAIN dq /\ d[i] = dq[i]
                          \/ i = Len(dq) + 1 /\ d[i] = n
  OBVIOUS
<1> HIDE DEF d
<1>2. \A i \in DOMAIN dq : dq[i] # n BY DEF Members
<1> QED BY <1>1, <1>2 DEF Tidy, d

\* HandleCustomVehicleDef: the model has a job that begins in a task, or is put off.
LEMMA DefineComing ==
  ASSUME LoadInv, LoadInv', ComingNow, Receive, ReceiveDefine(Head(wire))
  PROVE  ComingNow'
<1> DEFINE p == Head(wire)
           new == NewJob(p.model, p.def)
           n == Len(jobs) + 1
           t == Task("start", n, "txd")
<1>1. /\ StartJob(p)
      /\ UNCHANGED <<gone, transfers, destroyQueue, spawned, initGame, corrupt,
                     completedQueue, finalizeQueue, tasks, pc, spawnRun, loaded,
                     clearAll>>
  BY DEF Receive, ReceiveDefine
<1>2. CASE p.model \in activeIds
  <2>1. UNCHANGED comingVars BY <1>1, <1>2 DEF StartJob, comingVars
  <2> QED BY <2>1, ComingStutters
<1>3. CASE p.model \notin activeIds
  <2>1. /\ jobs' = Append(jobs, new) /\ activeIds' = activeIds \cup {p.model}
        /\ \/ spawned /\ mainQueue' = Append(mainQueue, t) /\ defQueue' = defQueue
           \/ /\ ~spawned /\ defQueue' = Append(defQueue, n)
              /\ mainQueue' = mainQueue
    BY <1>1, <1>3 DEF StartJob
  <2>2. JobTypes /\ JobTypes' /\ SessionTypes BY DEF LoadInv
  <2>3. /\ new.model = p.model /\ new.col = "pending" /\ ~new.queued
    BY DEF NewJob
  <2> HIDE DEF new, p
  <2>4. /\ n \notin DOMAIN jobs /\ DOMAIN jobs' = DOMAIN jobs \cup {n}
        /\ jobs'[n] = new /\ \A j \in DOMAIN jobs : jobs'[j] = jobs[j]
        /\ n \in Nat
    BY <2>1, <2>2 DEF JobTypes
  <2>5. /\ Tokens \in Seq(TasksOf(DOMAIN jobs)) /\ Ended \subseteq DOMAIN jobs
        /\ defQueue \in Seq(DOMAIN jobs)
    BY <2>2, TokenFacts DEF JobTypes
  <2>6. t \in TasksOf(DOMAIN jobs') /\ t.type = "start" /\ t.job = n /\ t.kind = "txd"
    BY <2>4 DEF TasksOf, Task, Kinds
  <2> HIDE DEF n, t
  <2>7. TasksOf(DOMAIN jobs) \subseteq TasksOf(DOMAIN jobs')
    BY <2>4 DEF TasksOf
  <2>8. Tokens \in Seq(TasksOf(DOMAIN jobs')) /\ defQueue \in Seq(DOMAIN jobs')
    <3> DEFINE K == DOMAIN jobs
               L == DOMAIN jobs'
               P == TasksOf(K)
               Q == TasksOf(L)
    <3>1. K \subseteq L BY <2>4
    <3>2. P \subseteq Q /\ Tokens \in Seq(P) /\ defQueue \in Seq(K)
      BY <2>5, <2>7
    <3> HIDE DEF K, L, P, Q
    <3>3. Tokens \in Seq(Q) BY <3>2
    <3>4. defQueue \in Seq(L) BY <3>1, <3>2
    <3> QED BY <3>3, <3>4 DEF L, Q
  <2>9. /\ \A i \in DOMAIN Tokens : Tokens[i].type # "spawn" =>
                                      Tokens[i].job \in DOMAIN jobs
        /\ n \notin Starting(Tokens) /\ n \notin Members(defQueue)
    <3>1. \A i \in DOMAIN Tokens : Tokens[i].type # "spawn" =>
                                      Tokens[i].job \in DOMAIN jobs
      BY <2>5, TaskFacts
    <3>2. n \notin Starting(Tokens) BY <2>4, <3>1 DEF Starting
    <3>3. n \notin Members(defQueue) BY <2>4, <2>5 DEF Members
    <3> QED BY <3>1, <3>2, <3>3
  <2>10. /\ \/ Tokens' = Tokens /\ defQueue' = Append(defQueue, n)
            \/ Tokens' = Tokens \o <<t>> /\ defQueue' = defQueue
         /\ Starters' = Starters \cup {n}
    <3>1. CASE spawned /\ mainQueue' = Append(mainQueue, t) /\ defQueue' = defQueue
      <4> DEFINE Q == TasksOf(DOMAIN jobs')
      <4>1. tasks \in Seq(Q) /\ mainQueue \in Seq(Q) /\ t \in Q
        BY <2>2, <2>6, <2>7 DEF JobTypes
      <4> HIDE DEF Q
      <4>2. tasks \o Append(mainQueue, t) = (tasks \o mainQueue) \o <<t>>
        BY <4>1
      <4>3. Tokens' = Tokens \o <<t>> BY <1>1, <3>1, <4>2 DEF Tokens
      <4>4. <<t>> \in Seq(TasksOf(DOMAIN jobs')) BY <2>6
      <4>5. Starting(Tokens \o <<t>>) = Starting(Tokens) \cup Starting(<<t>>)
        BY <2>8, <4>4, StartingJoin
      <4>6. Starting(<<t>>) = {n} BY <2>6 DEF Starting
      <4> QED BY <3>1, <4>3, <4>5, <4>6 DEF Starters
    <3>2. CASE defQueue' = Append(defQueue, n) /\ mainQueue' = mainQueue
      <4>1. Tokens' = Tokens BY <1>1, <3>2 DEF Tokens
      <4>2. Members(defQueue') = Members(defQueue) \cup {n}
        <5>1. \A i \in DOMAIN defQueue' : \/ i \in DOMAIN defQueue
                                             /\ defQueue'[i] = defQueue[i]
                                          \/ defQueue'[i] = n
          BY <2>5, <3>2
        <5>2. /\ Len(defQueue) + 1 \in DOMAIN defQueue'
              /\ defQueue'[Len(defQueue) + 1] = n
              /\ \A i \in DOMAIN defQueue : i \in DOMAIN defQueue'
                                            /\ defQueue'[i] = defQueue[i]
          BY <2>5, <3>2
        <5> QED BY <5>1, <5>2 DEF Members
      <4> QED BY <3>2, <4>1, <4>2 DEF Starters
    <3> QED BY <2>1, <3>1, <3>2 DEF n, t
  <2>11. \A f \in Files : transfers[f] # None => transfers[f].job \in DOMAIN jobs
    BY <2>2 DEF JobTypes, Transfers, EntriesOf
  <2>12. Ended' = Ended BY <1>1 DEF Ended, Members
  <2>13. ASSUME NEW m \in Models, Coming(m) PROVE Coming(m)'
    <3> DEFINE w == View(jobs, transfers, Starters, m)
               v == View(jobs', transfers', Starters', m)
    <3>1. Tidy(jobs', Tokens', defQueue', transfers', m)
      <4>1. Tidy(jobs', Tokens, defQueue, transfers, m)
        <5>1. \A j \in DOMAIN jobs : jobs'[j].model = jobs[j].model BY <2>4
        <5>2. Tidy(jobs, Tokens, defQueue, transfers, m) BY <2>13 DEF Coming
        <5> QED BY <2>5, <5>1, <5>2, TidyKept
      <4>2. CASE Tokens' = Tokens /\ defQueue' = Append(defQueue, n)
        <5>1. Tidy(jobs', Tokens, Append(defQueue, n), transfers, m)
          BY <2>4, <2>8, <2>9, <4>1, TidyDefer
        <5> QED BY <1>1, <4>2, <5>1
      <4>3. CASE Tokens' = Tokens \o <<t>> /\ defQueue' = defQueue
        <5>1. <<t>> \in Seq(TasksOf(DOMAIN jobs')) BY <2>6
        <5>2. Proper(jobs', transfers, t, m) BY <2>6 DEF Proper
        <5>3. \A i \in DOMAIN Tokens : ~Alike(Tokens[i], t)
          BY <2>4, <2>6, <2>9 DEF Alike
        <5>4. Tidy(jobs', Tokens \o <<t>>, defQueue, transfers, m)
          BY <2>6, <2>8, <2>9, <4>1, <5>1, <5>2, <5>3, TidyJoin
        <5> QED BY <1>1, <4>3, <5>4
      <4> QED BY <2>10, <4>2, <4>3
    <3>2. \A j \in Ended' : jobs'[j] = jobs[j] BY <2>4, <2>5, <2>12
    <3>3. \A j \in Ended' : jobs'[j].model = m => Essential(jobs'[j])
      BY <2>12, <2>13, <3>2 DEF Coming, Good
    <3> DEFINE won == (loaded[m] # None /\ ~clearAll)
                          \/ \E j \in Ended : jobs[j].model = m
               won2 == (loaded'[m] # None /\ ~clearAll')
                           \/ \E j \in Ended' : jobs'[j].model = m
    <3>4. won => won2 BY <1>1, <2>12, <3>2
    <3>5. Fate(w, initGame, m \in activeIds, won) BY <2>13 DEF Coming, Good
    <3>6. \A j \in DOMAIN jobs : /\ j \in Starters' <=> j \in Starters
                                 /\ jobs'[j] = jobs[j] /\ transfers' = transfers
      BY <1>1, <2>4, <2>10
    <3>7. CASE m # p.model
      <4>1. v = w
        <5>1. {j \in DOMAIN jobs' : jobs'[j].model = m}
                = {j \in DOMAIN jobs : jobs[j].model = m}
          BY <2>3, <2>4, <3>7
        <5> QED BY <3>6, <5>1 DEF View
      <4>2. m \in activeIds' <=> m \in activeIds BY <2>1, <3>7
      <4> HIDE DEF w, v, won, won2
      <4>3. Fate(v, initGame', m \in activeIds', won2)
        BY <1>1, <3>4, <3>5, <4>1, <4>2 DEF Fate
      <4> QED BY <1>1, <2>13, <3>1, <3>3, <4>3 DEF Coming, Good, v, won2
    <3>8. CASE m = p.model
      <4>1. Joined(w, v, n)
        <5>1. DOMAIN w = {j \in DOMAIN jobs : jobs[j].model = m}
              /\ DOMAIN v = {j \in DOMAIN jobs' : jobs'[j].model = m}
          BY DEF View
        <5>2. DOMAIN v = DOMAIN w \cup {n} /\ n \notin DOMAIN w
          BY <2>3, <2>4, <3>8, <5>1
        <5>3. \A j \in DOMAIN w : v[j] = w[j]
          BY <2>4, <3>6, <5>1, <5>2 DEF View
        <5>4. Owned(transfers', m, n) = {}
          <6>1. \A k \in Kinds : <<m, k>> \in Files BY DEF Files
          <6> QED BY <1>1, <2>4, <2>11, <6>1 DEF Owned
        <5>5. /\ v[n].begins /\ v[n].own = {} /\ v[n].col = "pending"
              /\ ~v[n].queued
          BY <2>3, <2>4, <2>10, <3>8, <5>4 DEF View
        <5> QED BY <5>2, <5>3, <5>5 DEF Joined
      <4>2. (m \in activeIds) = FALSE /\ (m \in activeIds') = TRUE
        BY <1>3, <2>1, <3>8
      <4> HIDE DEF w, v, won, won2
      <4>3. Fate(w, initGame, FALSE, won) BY <3>5, <4>2
      <4>4. Fate(v, initGame, TRUE, won2) BY <4>1, <4>3, JoinedFate
      <4>5. Fate(v, initGame', m \in activeIds', won2) BY <1>1, <4>2, <4>4
      <4> QED BY <1>1, <2>13, <3>1, <3>3, <4>5 DEF Coming, Good, v, won2
    <3> QED BY <3>7, <3>8
  <2>14. \A m \in Models \ gone' : Whole(m)' => m \notin gone /\ Whole(m)
    BY <1>1 DEF Whole
  <2>15. Entered(jobs, transfers)'
    BY <1>1, <2>4, <2>11 DEF ComingNow, Entered
  <2>16. Clearing' /\ PutOff' /\ InRun'
    BY <1>1, <2>1 DEF ComingNow, Clearing, PutOff, InRun
  <2> QED BY <2>13, <2>14, <2>15, <2>16 DEF ComingNow
<1> QED BY <1>2, <1>3

\* All packets.
LEMMA ReceiveComing ==
  ASSUME LoadInv, LoadInv', ComingNow, Receive
  PROVE  ComingNow'
<1> DEFINE p == Head(wire)
<1>1. \/ ReceiveDefine(p) \/ ReceiveDestroy(p)
      \/ ReceivePlate(p) \/ ReceiveHandling(p) \/ ReceiveAuthorized(p)
  BY DEF Receive
<1>2. CASE ReceivePlate(p) \/ ReceiveHandling(p) \/ ReceiveAuthorized(p)
  <2>1. UNCHANGED comingVars
    BY <1>2 DEF Receive, ReceivePlate, ReceiveHandling, ReceiveAuthorized,
                comingVars
  <2> QED BY <2>1, ComingStutters
<1> QED BY <1>1, <1>2, DefineComing, DestroyComing

\* The task that is carried out.
LEMMA PoppedTask ==
  ASSUME JobTypes, tasks # <<>>, tasks' = Tail(tasks), UNCHANGED mainQueue
  PROVE  /\ Tokens \in Seq(TasksOf(DOMAIN jobs)) /\ Tokens # <<>>
         /\ Head(Tokens) = Head(tasks) /\ Tokens' = Tail(Tokens)
         /\ Starting(Tokens) = Starting(Tail(Tokens)) \cup
               (IF Head(tasks).type = "start" THEN {Head(tasks).job} ELSE {})
         /\ Head(tasks) \in TasksOf(DOMAIN jobs)
<1>1. /\ Tokens \in Seq(TasksOf(DOMAIN jobs)) /\ Tokens # <<>>
      /\ Head(Tokens) = Head(tasks) /\ Tail(Tokens) = Tail(tasks) \o mainQueue
  BY TokenFacts
<1>2. Tokens' = Tail(Tokens) BY <1>1 DEF Tokens
<1>3. Starting(Tokens) = Starting(Tail(Tokens)) \cup
               (IF Head(tasks).type = "start" THEN {Head(tasks).job} ELSE {})
  <2> DEFINE Q == TasksOf(DOMAIN jobs)
  <2>1. Tokens \in Seq(Q) BY <1>1
  <2> HIDE DEF Q
  <2> QED BY <1>1, <2>1, StartingTail
<1>4. Head(tasks) \in TasksOf(DOMAIN jobs)
  <2> DEFINE Q == TasksOf(DOMAIN jobs)
  <2>1. tasks \in Seq(Q) BY DEF JobTypes
  <2> HIDE DEF Q
  <2>2. Head(tasks) \in Q BY <2>1
  <2> QED BY <2>2 DEF Q
<1> QED BY <1>1, <1>2, <1>3, <1>4

\* RPC_Spawn's task is no job's.
LEMMA RunSpawnComing ==
  ASSUME LoadInv, LoadInv', ComingNow, RunSpawnTask
  PROVE  ComingNow'
<1>1. /\ pc = "tasks" /\ Head(tasks).type = "spawn" /\ tasks' = Tail(tasks)
      /\ transfers' \in {Passing(transfers, "sent", "waiting"), transfers}
      /\ UNCHANGED <<sessionVars, corrupt, jobVars, mainQueue, modelVars>>
      /\ Continue(0, TRUE)
  BY DEF RunSpawnTask
<1> USE DEF jobVars, modelVars, sessionVars
<1>2. JobTypes /\ tasks # <<>> BY <1>1 DEF LoadInv, PcTypes
<1>3. transfers \in Transfers(DOMAIN jobs) /\ DOMAIN jobs \in SUBSET Nat
      /\ Ended \subseteq DOMAIN jobs /\ defQueue \in Seq(DOMAIN jobs)
  BY <1>2, TokenFacts DEF JobTypes
<1>4. /\ Tokens \in Seq(TasksOf(DOMAIN jobs)) /\ Tokens # <<>>
      /\ Head(Tokens) = Head(tasks) /\ Tokens' = Tail(Tokens)
      /\ Starting(Tokens) = Starting(Tail(Tokens))
  BY <1>1, <1>2, PoppedTask
<1>5. /\ \A f \in Files : transfers[f] # None /\ transfers[f].state # "sent"
                              => transfers'[f] = transfers[f]
      /\ \A m \in Models : \A j : Owned(transfers', m, j) = Owned(transfers, m, j)
      /\ Entered(jobs, transfers) => Entered(jobs, transfers')
  <2>1. CASE transfers' = transfers BY <2>1
  <2>2. CASE transfers' = Passing(transfers, "sent", "waiting")
    BY <1>3, <2>2, PassingSame
  <2> QED BY <1>1, <2>1, <2>2
<1>6. Starters' = Starters /\ Ended' = Ended
  BY <1>1, <1>4 DEF Starters, Ended, Members
<1>7. ASSUME NEW m \in Models, Coming(m) PROVE Coming(m)'
  <2>1. Tidy(jobs', Tokens', defQueue', transfers', m)
    <3>1. Tidy(jobs, Tokens, defQueue, transfers, m) BY <1>7 DEF Coming
    <3>2. ASSUME NEW k \in Kinds, transfers[<<m, k>>] # None,
                 transfers[<<m, k>>].state = "answered"
          PROVE  transfers'[<<m, k>>] = transfers[<<m, k>>]
      <4>1. <<m, k>> \in Files BY DEF Files
      <4> QED BY <1>5, <3>2, <4>1
    <3>3. Tidy(jobs, Tail(Tokens), defQueue, transfers', m)
      BY <1>3, <1>4, <3>1, <3>2, TidyTail
    <3> QED BY <1>1, <1>4, <3>3
  <2>2. m \notin destroyQueue' BY <1>1, <1>7 DEF Coming
  <2>3. UNCHANGED <<jobs, initGame, activeIds>> BY <1>1
  <2>4. loaded[m] # None /\ ~clearAll => loaded'[m] # None /\ ~clearAll'
    BY <1>1
  <2>5. \A j \in DOMAIN jobs : jobs[j].model = m =>
             /\ j \in Starters' <=> j \in Starters
             /\ Owned(transfers', m, j) = Owned(transfers, m, j)
             /\ j \in Ended' <=> j \in Ended
    BY <1>5, <1>6
  <2> QED BY <1>3, <1>6, <1>7, <2>1, <2>2, <2>3, <2>4, <2>5, ComingKept
<1>8. Clearing' /\ PutOff' /\ InRun'
  <2>1. initGame' /\ spawned' => defQueue' = <<>>
    BY <1>1 DEF ComingNow, PutOff
  <2>2. 0 \in 0..5 /\ TRUE \in BOOLEAN OBVIOUS
  <2> QED BY <1>1, <2>1, <2>2, ContinueFrame
<1>9. Entered(jobs, transfers)' BY <1>1, <1>5 DEF ComingNow
<1>10. \A m \in Models \ gone' : Whole(m)' => m \notin gone /\ Whole(m)
  BY <1>1 DEF Whole
<1> QED BY <1>7, <1>8, <1>9, <1>10 DEF ComingNow

\* What is good for the state that follows, said of it.
LEMMA GoodNow ==
  ASSUME NEW m, UNCHANGED <<initGame, activeIds>>, NEW there,
         Good(m, jobs', transfers', Starters', Ended', there),
         there => loaded'[m] # None /\ ~clearAll'
  PROVE  Good(m, jobs, transfers, Starters, Ended, loaded[m] # None /\ ~clearAll)'
<1> DEFINE v == View(jobs', transfers', Starters', m)
           won == there \/ \E j \in Ended' : jobs'[j].model = m
           won2 == (loaded'[m] # None /\ ~clearAll')
                       \/ \E j \in Ended' : jobs'[j].model = m
           act == m \in activeIds
           E == Ended'
<1>1. /\ Fate(v, initGame, act, won)
      /\ \A j \in E : jobs'[j].model = m => Essential(jobs'[j])
  BY DEF Good
<1>2. (won => won2) /\ initGame' = initGame /\ act = act' OBVIOUS
<1> HIDE DEF v, won, won2, act, E
<1>3. Fate(v, initGame', act', won2) BY <1>1, <1>2 DEF Fate
<1> QED BY <1>1, <1>3 DEF Good, v, won2, act, E

\* A job that waits for something has not ended.
LEMMA LiveNotEnded ==
  ASSUME JobTypes, QueueInv, NEW m \in Models, Course(View(jobs, transfers, Starters, m)),
         NEW a \in DOMAIN jobs, jobs[a].model = m,
         Live(View(jobs, transfers, Starters, m)[a])
  PROVE  a \notin Ended
<1> DEFINE w == View(jobs, transfers, Starters, m)
<1>1. a \in DOMAIN w /\ w[a] \in Rows
  <2>1. jobs \in Seq(JobRecords) BY DEF JobTypes
  <2>2. /\ DOMAIN w = {j \in DOMAIN jobs : jobs[j].model = m}
        /\ \A j \in DOMAIN w : w[j] \in Rows
    <3> HIDE DEF w
    <3>1. /\ DOMAIN View(jobs, transfers, Starters, m)
                = {j \in DOMAIN jobs : jobs[j].model = m}
          /\ \A j \in DOMAIN View(jobs, transfers, Starters, m) :
                View(jobs, transfers, Starters, m)[j] \in Rows
      BY ONLY <2>1, ViewRows
    <3> QED BY <3>1 DEF w
  <2> HIDE DEF w
  <2> QED BY <2>2
<1>2. w[a].queued = jobs[a].queued BY <1>1 DEF View
<1> HIDE DEF w
<1>3. Goes(w[a]) /\ Live(w[a]) BY <1>1 DEF Course, w
<1>4. ~jobs[a].queued BY <1>1, <1>2, <1>3, RowFacts
<1> QED BY <1>4 DEF QueueInv, QueuesOK, Open, Ended, Members

\* What the task that comes first is for.
LEMMA HeadFacts ==
  ASSUME JobTypes, QueueInv, NEW m \in Models, Coming(m), Tokens # <<>>,
         OfModel(jobs, Head(Tokens), m)
  PROVE  LET t == Head(Tokens) IN
         /\ t.job \in DOMAIN jobs /\ t.kind \in Kinds /\ t.job \notin Ended
         /\ \/ t.type = "start" /\ t.job \in Starters
            \/ t.type = "done" /\ Awaited(transfers, t, m) /\ t.job \notin Starters
<1> DEFINE t == Head(Tokens)
           w == View(jobs, transfers, Starters, m)
           Q == TasksOf(DOMAIN jobs)
<1>1. 1 \in DOMAIN Tokens /\ Tokens[1] = t /\ t \in Q
  <2>1. Tokens \in Seq(Q) BY TokenFacts
  <2> HIDE DEF Q
  <2> QED BY <2>1, TailItems
<1>2. t.type # "spawn" /\ jobs[t.job].model = m BY DEF OfModel
<1>3. t.job \in DOMAIN jobs /\ t.kind \in Kinds BY <1>1, <1>2, TaskFacts
<1>4. t.type = "start" \/ (t.type = "done" /\ Awaited(transfers, t, m))
  BY <1>1 DEF Coming, Tidy, Proper
<1>5. t.job \in DOMAIN w /\ w[t.job] \in Rows /\ Course(w)
  <2>1. jobs \in Seq(JobRecords) BY DEF JobTypes
  <2>2. /\ DOMAIN w = {j \in DOMAIN jobs : jobs[j].model = m}
        /\ \A j \in DOMAIN w : w[j] \in Rows
    BY <2>1, ViewRows
  <2>3. Course(w) BY DEF Coming, Good, Fate
  <2> HIDE DEF w
  <2> QED BY <1>2, <1>3, <2>2, <2>3
<1>6. w[t.job].begins = (t.job \in Starters)
      /\ w[t.job].own = Owned(transfers, m, t.job)
  BY <1>2, <1>3 DEF View
<1>7. t.type = "start" => t.job \in Starters BY <1>1 DEF Starters, Starting
<1>8. t.type = "done" => t.kind \in w[t.job].own
  BY <1>3, <1>4, <1>6 DEF Awaited, Owned
<1> HIDE DEF w
<1>9. Live(w[t.job]) BY <1>4, <1>6, <1>7, <1>8 DEF Live
<1>10. t.job \notin Ended
  BY <1>2, <1>3, <1>5, <1>9, LiveNotEnded DEF w
<1>11. t.type = "done" => t.job \notin Starters
  BY <1>5, <1>6, <1>8 DEF Course, Goes
<1> HIDE DEF t
<1> QED BY <1>3, <1>4, <1>7, <1>10, <1>11 DEF t

\* The step of the job, whatever its model.
LEMMA TaskStep ==
  ASSUME LoadInv, ComingNow, RunTask
  PROVE  LET t == Head(Tokens)
             s == Outcome(t)
             a == t.job
         IN /\ StepOf(jobs, transfers, Starters, a, Working(a), s,
                      jobs', transfers', Starters')
            /\ Starters' \subseteq Starters
            /\ Ended' = EndedBy(Ended, a, s)
            /\ t.type # "spawn" /\ Tokens # <<>> /\ Tokens' = Tail(Tokens)
            /\ \A f \in Files : s.transfers[f] # None
                                   /\ s.transfers[f].state = "answered"
                                   => transfers'[f] = s.transfers[f]
            /\ Entered(jobs, transfers)'
<1> DEFINE t == Head(Tokens)
           s == Outcome(t)
           a == t.job
           J == DOMAIN jobs
<1>1. /\ tasks # <<>> /\ JobTypes /\ stored \subseteq Files
  BY DEF LoadInv, PcTypes, ModelTypes, RunTask
<1>2. tasks' = Tail(tasks) /\ UNCHANGED mainQueue BY DEF RunTask
<1>3. /\ Head(tasks) = t /\ Tokens # <<>> /\ Tokens' = Tail(Tokens)
      /\ t \in TasksOf(J)
      /\ Starting(Tokens) = Starting(Tail(Tokens)) \cup
               (IF t.type = "start" THEN {t.job} ELSE {})
  BY <1>1, <1>2, PoppedTask
<1> HIDE DEF t
<1>4. /\ pc = "tasks" /\ t.type # "spawn"
      /\ jobs' = [jobs EXCEPT ![a] = s.job]
      /\ transfers' \in {Passing(s.transfers, "sent", "waiting"), s.transfers}
      /\ completedQueue' = IF s.push THEN Append(completedQueue, a)
                           ELSE completedQueue
      /\ UNCHANGED <<defQueue, finalizeQueue>>
  BY <1>3 DEF RunTask
<1>5. a \in J /\ Working(a) \in Works(J) /\ Passed(J, Working(a), s)
  BY <1>1, <1>3, <1>4, OutcomePassed
<1>6. J \in SUBSET Nat /\ transfers \in Transfers(J) /\ completedQueue \in Seq(J)
      /\ jobs \in Seq(JobRecords)
  BY <1>1 DEF JobTypes
<1>7. Working(a).job = jobs[a] /\ Working(a).id = a
      /\ Working(a).transfers = transfers
  BY DEF Working
<1> HIDE DEF s
<1>8. s.transfers \in Transfers(J) BY <1>5 DEF Passed, Works
<1>9. /\ \A f \in Files : s.transfers[f] # None /\ s.transfers[f].state = "answered"
                              => transfers'[f] = s.transfers[f]
      /\ \A m \in Models : \A j : Owned(transfers', m, j) = Owned(s.transfers, m, j)
      /\ \A jb : Entered(jb, s.transfers) => Entered(jb, transfers')
  <2>1. CASE transfers' = s.transfers BY <2>1
  <2>2. CASE transfers' = Passing(s.transfers, "sent", "waiting")
    <3>1. \A f \in Files : s.transfers[f] # None /\ s.transfers[f].state # "sent"
                              => transfers'[f] = s.transfers[f]
      BY <1>6, <1>8, <2>2, PassingSame
    <3> QED BY <1>6, <1>8, <2>2, <3>1, PassingSame
  <2> QED BY <1>4, <2>1, <2>2
<1>10. Starters' \subseteq Starters /\ \A i \in J : i # a => (i \in Starters' <=> i \in Starters)
  BY <1>3, <1>4 DEF Starters, Members
<1>11. StepOf(jobs, transfers, Starters, a, Working(a), s, jobs', transfers', Starters')
  <2>1. Entered(jobs, transfers) BY DEF ComingNow
  <2> QED BY <1>4, <1>5, <1>6, <1>7, <1>9, <1>10, <2>1 DEF StepOf
<1>12. Entered(jobs', transfers')
  <2>1. Stepped(jobs, transfers, Starters, a, jobs', s.transfers, Starters')
    BY <1>11, StepStepped
  <2>2. \A f \in Files : transfers[f] # None => transfers[f].job \in DOMAIN jobs
    BY <1>6 DEF Transfers, EntriesOf
  <2>3. Entered(jobs, transfers) BY DEF ComingNow
  <2>4. Entered(jobs', s.transfers) BY <2>1, <2>2, <2>3, SteppedEntered
  <2> QED BY <1>9, <2>4
<1>13. Ended' = EndedBy(Ended, a, s)
  <2>1. CASE s.push
    <3>1. Members(Append(completedQueue, a)) = Members(completedQueue) \cup {a}
      <4> DEFINE c == Append(completedQueue, a)
                 n == Len(completedQueue)
      <4>1. /\ n \in Nat /\ DOMAIN completedQueue = 1..n /\ DOMAIN c = 1..(n + 1)
            /\ c[n + 1] = a /\ \A i \in 1..n : c[i] = completedQueue[i]
        BY <1>5, <1>6
      <4> HIDE DEF c, n
      <4> QED BY <4>1 DEF Members, c
    <3> QED BY <1>4, <2>1, <3>1 DEF Ended, EndedBy, Members
  <2>2. CASE ~s.push BY <1>4, <2>2 DEF Ended, EndedBy, Members
  <2> QED BY <2>1, <2>2
<1>14. Entered(jobs, transfers)' BY <1>12
<1> QED BY <1>3, <1>4, <1>9, <1>10, <1>11, <1>13, <1>14 DEF s, t

\* The job of the model takes its step; the entries that change are its own.
LEMMA TaskGood ==
  ASSUME LoadInv, ComingNow, RunTask, NEW m \in Models, Coming(m), Whole(m),
         OfModel(jobs, Head(Tokens), m)
  PROVE  LET t == Head(Tokens)
             s == Outcome(t)
         IN /\ Good(m, jobs', transfers', Starters', Ended', loaded[m] # None /\ ~clearAll)
            /\ \A f \in Files : s.transfers[f] # transfers[f] =>
                  transfers[f] = None \/ (t.type = "done" /\ f = <<m, t.kind>>)
<1> DEFINE t == Head(Tokens)
           s == Outcome(t)
           a == t.job
           r == Working(a)
           there == loaded[m] # None /\ ~clearAll
<1>1. /\ StepOf(jobs, transfers, Starters, a, r, s, jobs', transfers', Starters')
      /\ Starters' \subseteq Starters /\ Ended' = EndedBy(Ended, a, s)
      /\ Tokens # <<>> /\ Tokens' = Tail(Tokens)
  BY TaskStep
<1>2. JobTypes /\ QueueInv BY DEF LoadInv
<1>3. Ended \subseteq DOMAIN jobs /\ Tokens \in Seq(TasksOf(DOMAIN jobs))
      /\ defQueue \in Seq(DOMAIN jobs)
  BY <1>2, TokenFacts DEF JobTypes
<1>4. /\ a \in DOMAIN jobs /\ t.kind \in Kinds /\ a \notin Ended
      /\ \/ t.type = "start" /\ a \in Starters
         \/ t.type = "done" /\ Awaited(transfers, t, m) /\ a \notin Starters
  BY <1>1, <1>2, HeadFacts
<1>5. ~r.push /\ r.transfers = transfers BY DEF Working
<1>6. jobs[a].model = m BY DEF OfModel
<1>7. Good(m, jobs, transfers, Starters, Ended, there)
  BY DEF Coming
<1>8. a \notin Starters'
  <2>1. CASE t.type = "done" BY <1>1, <1>4, <2>1
  <2>2. CASE t.type = "start"
    <3>1. Tidy(jobs, Tokens, defQueue, transfers, m) BY DEF Coming
    <3>2. a \notin Starting(Tail(Tokens)) \cup Members(defQueue)
      BY <1>1, <1>3, <2>2, <3>1, TidyTail
    <3>3. UNCHANGED defQueue BY DEF RunTask
    <3> QED BY <1>1, <3>2, <3>3 DEF Starters, Members
  <2> QED BY <1>4, <2>1, <2>2
<1>9. t.type = "start" => s = BeginTransfers(r) BY DEF Outcome
<1>10. t.type = "done" => s = Answered(ErasedBefore(t), t.kind)
  BY DEF Outcome
<1>11. ErasedBefore(t) = Erase(r, m, t.kind)
  BY <1>6 DEF ErasedBefore, Erase
<1> HIDE DEF s, r, t, there
<1>12. StepFor(m, Ended, there, jobs, transfers, Starters, a, r, s,
               jobs', transfers', Starters')
  BY <1>1, <1>3, <1>4, <1>5, <1>6, <1>7, <1>8 DEF StepFor
<1>13. CASE t.type = "start"
  <2>1. /\ Good(m, jobs', transfers', Starters', EndedBy(Ended, a, s), there)
        /\ \A f \in Files : s.transfers[f] # transfers[f] => transfers[f] = None
    BY <1>4, <1>9, <1>12, <1>13, StartGood
  <2> QED BY <1>1, <2>1 DEF s, t, there
<1>14. CASE t.type = "done"
  <2>1. transfers[<<m, t.kind>>] # None /\ transfers[<<m, t.kind>>].job = a
    BY <1>4, <1>14 DEF Awaited
  <2> DEFINE e == ErasedBefore(t)
  <2>2. e = Erase(r, m, t.kind) /\ s = Answered(e, t.kind)
    BY <1>10, <1>11, <1>14
  <2> HIDE DEF e
  <2>3. /\ Good(m, jobs', transfers', Starters', EndedBy(Ended, a, s), there)
        /\ \A f \in Files : s.transfers[f] # transfers[f] =>
              transfers[f] = None \/ f = <<m, t.kind>>
    <3> DEFINE k == t.kind
    <3>1. /\ k \in Kinds /\ e = Erase(r, m, k)
          /\ s = Answered(e, k)
          /\ transfers[<<m, k>>] # None /\ transfers[<<m, k>>].job = a
      BY <1>4, <2>1, <2>2
    <3> HIDE DEF k
    <3>2. /\ Good(m, jobs', transfers', Starters', EndedBy(Ended, a, s), there)
          /\ \A f \in Files : s.transfers[f] # transfers[f] =>
                transfers[f] = None \/ f = <<m, k>>
      BY ONLY <1>12, <3>1, DoneGood
    <3> QED BY <3>2 DEF k
  <2> QED BY <1>1, <1>14, <2>3 DEF s, t, there
<1> QED BY <1>4, <1>13, <1>14

\* A task of a job: one model at most is concerned.
LEMMA RunTaskComing ==
  ASSUME LoadInv, LoadInv', ComingNow, RunTask
  PROVE  ComingNow'
<1> DEFINE t == Head(Tokens)
           s == Outcome(t)
           a == t.job
<1>1. /\ pc = "tasks" /\ tasks' = Tail(tasks)
      /\ UNCHANGED <<sessionVars, corrupt, activeIds, defQueue, finalizeQueue,
                     mainQueue, modelVars>>
      /\ \/ Continue(0, FALSE)
         \/ pc' = "tasks" /\ UNCHANGED spawnRun
  BY DEF RunTask
<1> USE DEF sessionVars, modelVars
<1>2. /\ StepOf(jobs, transfers, Starters, a, Working(a), s,
                jobs', transfers', Starters')
      /\ Ended' = EndedBy(Ended, a, s)
      /\ t.type # "spawn" /\ Tokens # <<>> /\ Tokens' = Tail(Tokens)
      /\ \A f \in Files : s.transfers[f] # None /\ s.transfers[f].state = "answered"
                              => transfers'[f] = s.transfers[f]
      /\ Entered(jobs, transfers)'
  BY TaskStep
<1>3. JobTypes /\ QueueInv BY DEF LoadInv
<1>4. Ended \subseteq DOMAIN jobs /\ Tokens \in Seq(TasksOf(DOMAIN jobs))
      /\ defQueue \in Seq(DOMAIN jobs)
  BY <1>3, TokenFacts DEF JobTypes
<1> HIDE DEF s, t
<1>5. /\ \A j \in DOMAIN jobs : jobs'[j].model = jobs[j].model
      /\ \A f \in Files : s.transfers[f] # transfers[f] => f[1] = jobs[a].model
  <2>1. Stepped(jobs, transfers, Starters, a, jobs', s.transfers, Starters')
    BY <1>2, StepStepped
  <2> QED BY <2>1 DEF Stepped
<1>6. ASSUME NEW m \in Models, Coming(m), Whole(m) PROVE Coming(m)'
  <2> DEFINE there == loaded[m] # None /\ ~clearAll
  <2>1. /\ Good(m, jobs', transfers', Starters', Ended', there)
        /\ \A k \in Kinds : transfers[<<m, k>>] # None
              /\ transfers[<<m, k>>].state = "answered"
              => \/ s.transfers[<<m, k>>] = transfers[<<m, k>>]
                 \/ OfModel(jobs, t, m) /\ t.type = "done" /\ t.kind = k
    <3>1. CASE jobs[a].model = m
      <4>1. OfModel(jobs, t, m) BY <1>2, <3>1 DEF OfModel
      <4>2. /\ Good(m, jobs', transfers', Starters', Ended', there)
            /\ \A f \in Files : s.transfers[f] # transfers[f] =>
                  transfers[f] = None \/ (t.type = "done" /\ f = <<m, t.kind>>)
        BY <1>6, <4>1, TaskGood DEF s, t
      <4>3. \A k \in Kinds : <<m, k>> \in Files BY DEF Files
      <4> QED BY <4>1, <4>2, <4>3
    <3>2. CASE jobs[a].model # m
      <4>1. Good(m, jobs, transfers, Starters, Ended, there) BY <1>6 DEF Coming
      <4> HIDE DEF there
      <4>2. Good(m, jobs', transfers', Starters', Ended', there)
        BY <1>2, <1>4, <3>2, <4>1, OtherGood
      <4>3. \A k \in Kinds : <<m, k>> \in Files /\ <<m, k>>[1] = m BY DEF Files
      <4> QED BY <1>5, <3>2, <4>2, <4>3
    <3> QED BY <3>1, <3>2
  <2>2. Tidy(jobs', Tokens', defQueue', transfers', m)
    <3>1. Tidy(jobs, Tokens, defQueue, transfers, m) BY <1>6 DEF Coming
    <3>2. \A k \in Kinds : transfers[<<m, k>>] # None
              /\ transfers[<<m, k>>].state = "answered"
              => \/ transfers'[<<m, k>>] = transfers[<<m, k>>]
                 \/ /\ OfModel(jobs, Head(Tokens), m)
                    /\ Head(Tokens).type = "done" /\ Head(Tokens).kind = k
      <4>1. \A k \in Kinds : <<m, k>> \in Files BY DEF Files
      <4> QED BY <1>2, <2>1, <4>1 DEF t
    <3>3. Tidy(jobs', Tail(Tokens), defQueue, transfers', m)
      <4>1. \A j \in DOMAIN jobs : jobs'[j].model = jobs[j].model BY <1>5
      <4>2. Tokens # <<>> /\ Tokens \in Seq(TasksOf(DOMAIN jobs))
            /\ defQueue \in Seq(DOMAIN jobs)
        BY <1>2, <1>4
      <4> QED BY ONLY <3>1, <3>2, <4>1, <4>2, TidyTail
    <3> QED BY <1>1, <1>2, <3>3
  <2>3. m \notin destroyQueue' BY <1>1, <1>6 DEF Coming
  <2>4. Good(m, jobs, transfers, Starters, Ended, loaded[m] # None /\ ~clearAll)'
    <3>1. there => loaded'[m] # None /\ ~clearAll' BY <1>1
    <3> HIDE DEF there
    <3> QED BY <1>1, <2>1, <3>1, GoodNow
  <2> QED BY <2>2, <2>3, <2>4 DEF Coming
<1>7. Clearing' /\ PutOff' /\ InRun'
  <2>1. initGame' /\ spawned' => defQueue' = <<>>
    BY <1>1 DEF ComingNow, PutOff
  <2>2. 0 \in 0..5 /\ FALSE \in BOOLEAN OBVIOUS
  <2>3. CASE Continue(0, FALSE)
    BY <2>1, <2>2, <2>3, ContinueFrame
  <2>4. CASE pc' = "tasks" /\ UNCHANGED spawnRun
    <3>1. ~spawnRun BY <1>1 DEF ComingNow, InRun
    <3> QED BY <1>1, <2>1, <2>4, <3>1 DEF Clearing, PutOff, InRun
  <2> QED BY <1>1, <2>3, <2>4
<1>8. \A m \in Models \ gone' : Whole(m)' => m \notin gone /\ Whole(m)
  BY <1>1 DEF Whole
<1> QED BY <1>2, <1>6, <1>7, <1>8 DEF ComingNow

\* Clearing every model: those that are there are there no more, but nothing
\* counted on them while the clearing was due.
LEMMA ClearAllComing ==
  ASSUME LoadInv, LoadInv', ComingNow, ProcessPendingClearAll
  PROVE  ComingNow'
<1>1. /\ clearAll' = FALSE
      /\ clearAll \/ UNCHANGED loaded
      /\ UNCHANGED <<sessionVars, corrupt, jobVars, mainQueue, tasks, transfers,
                     destroyQueue>>
      /\ Continue(1, spawnRun)
  BY DEF ProcessPendingClearAll, fileVars
<1> USE DEF sessionVars, jobVars
<1>2. JobTypes /\ spawnRun \in BOOLEAN BY DEF LoadInv, SessionTypes
<1>3. Ended \subseteq DOMAIN jobs BY <1>2, TokenFacts
<1>4. Tokens' = Tokens /\ Starters' = Starters /\ Ended' = Ended
  BY <1>1 DEF Tokens, Starters, Ended, Members, Starting
<1>5. ASSUME NEW m \in Models, Coming(m) PROVE Coming(m)'
  <2>1. Tidy(jobs', Tokens', defQueue', transfers', m)
        /\ m \notin destroyQueue'
    BY <1>1, <1>4, <1>5 DEF Coming
  <2>2. UNCHANGED <<jobs, initGame, activeIds>> BY <1>1
  <2>3. loaded[m] # None /\ ~clearAll => loaded'[m] # None /\ ~clearAll'
    BY <1>1
  <2>4. \A j \in DOMAIN jobs : jobs[j].model = m =>
             /\ j \in Starters' <=> j \in Starters
             /\ Owned(transfers', m, j) = Owned(transfers, m, j)
             /\ j \in Ended' <=> j \in Ended
    BY <1>1, <1>4
  <2> QED BY <1>3, <1>4, <1>5, <2>1, <2>2, <2>3, <2>4, ComingKept
<1>6. Clearing' /\ PutOff' /\ InRun'
  <2>1. initGame' /\ spawned' => defQueue' = <<>>
    BY <1>1 DEF ComingNow, PutOff
  <2>2. 1 \in 0..5 OBVIOUS
  <2> QED BY <1>1, <1>2, <2>1, <2>2, ContinueFrame
<1>7. Entered(jobs, transfers)' BY <1>1 DEF ComingNow
<1>8. \A m \in Models \ gone' : Whole(m)' => m \notin gone /\ Whole(m)
  BY <1>1 DEF Whole
<1> QED BY <1>5, <1>6, <1>7, <1>8 DEF ComingNow

\* What is destroyed was to be, and is not coming.
LEMMA DestructionsComing ==
  ASSUME LoadInv, LoadInv', ComingNow, ProcessPendingDestructions
  PROVE  ComingNow'
<1>1. /\ pc = "destructions" /\ pc' = "idle" /\ UNCHANGED spawnRun
      /\ destroyQueue' \subseteq destroyQueue
      /\ \A m \in Models \ destroyQueue : loaded'[m] = loaded[m]
      /\ UNCHANGED <<sessionVars, corrupt, jobVars, mainQueue, tasks, transfers,
                     clearAll>>
  BY DEF ProcessPendingDestructions, fileVars
<1> USE DEF sessionVars, jobVars
<1>2. JobTypes BY DEF LoadInv
<1>3. Ended \subseteq DOMAIN jobs BY <1>2, TokenFacts
<1>4. Tokens' = Tokens /\ Starters' = Starters /\ Ended' = Ended
  BY <1>1 DEF Tokens, Starters, Ended, Members, Starting
<1>5. ASSUME NEW m \in Models, Coming(m) PROVE Coming(m)'
  <2>1. Tidy(jobs', Tokens', defQueue', transfers', m)
    BY <1>1, <1>4, <1>5 DEF Coming
  <2>2. UNCHANGED <<jobs, initGame, activeIds>> BY <1>1
  <2>3. m \notin destroyQueue /\ m \notin destroyQueue'
    BY <1>1, <1>5 DEF Coming
  <2>4. loaded[m] # None /\ ~clearAll => loaded'[m] # None /\ ~clearAll'
    BY <1>1, <2>3
  <2>5. \A j \in DOMAIN jobs : jobs[j].model = m =>
             /\ j \in Starters' <=> j \in Starters
             /\ Owned(transfers', m, j) = Owned(transfers, m, j)
             /\ j \in Ended' <=> j \in Ended
    BY <1>1, <1>4
  <2> QED BY <1>3, <1>4, <1>5, <2>1, <2>2, <2>3, <2>4, <2>5, ComingKept
<1>6. Clearing' /\ PutOff' /\ InRun'
  BY <1>1 DEF ComingNow, Clearing, PutOff, InRun
<1>7. Entered(jobs, transfers)' BY <1>1 DEF ComingNow
<1>8. \A m \in Models \ gone' : Whole(m)' => m \notin gone /\ Whole(m)
  BY <1>1 DEF Whole
<1> QED BY <1>5, <1>6, <1>7, <1>8 DEF ComingNow

-----------------------------------------------------------------------------
(* The jobs that were put off. *)

\* Between two of them: who is still to begin, and who has ended.
Still(i)   == Starting(Tokens) \cup {defQueue[l] : l \in (i + 1)..Len(defQueue)}
EndedOf(x) == Members(x.completed) \cup Members(finalizeQueue)
BegunWell(x, i, m) ==
    /\ Good(m, x.jobs, x.transfers, Still(i), EndedOf(x), loaded[m] # None)
    /\ \A k \in Kinds :
          transfers[<<m, k>>] # None /\ transfers[<<m, k>>].state = "answered"
             => x.transfers[<<m, k>>] = transfers[<<m, k>>]
BegunSoFar(x, i) ==
    /\ Entered(x.jobs, x.transfers)
    /\ \A j \in DOMAIN jobs : x.jobs[j].model = jobs[j].model
    /\ \A m \in Models \ gone : Whole(m) => BegunWell(x, i, m)

\* The step of one of them.
LEMMA BegunStep ==
  ASSUME JobTypes, NEW x \in Begins, NEW i \in 1..Len(defQueue),
         Entered(x.jobs, x.transfers),
         loaded[x.jobs[defQueue[i]].model] = None
  PROVE  LET a == defQueue[i]
             y == BegunJob(x, a)
         IN \E r, t :
              /\ StepOf(x.jobs, x.transfers, Still(i - 1), a, r, t,
                        y.jobs, y.transfers, Still(i))
              /\ ~r.push /\ t = BeginTransfers(r) /\ y.transfers = t.transfers
              /\ EndedOf(y) = EndedBy(EndedOf(x), a, t)
              /\ EndedOf(x) \subseteq DOMAIN jobs
<1> DEFINE a == defQueue[i]
           r == [job |-> x.jobs[a], id |-> a, push |-> FALSE,
                 transfers |-> x.transfers, stored |-> x.stored]
           t == BeginTransfers(r)
           jb == [x.jobs EXCEPT ![a] = t.job]
           c == IF t.push THEN Append(x.completed, a) ELSE x.completed
           y == [jobs |-> jb, transfers |-> t.transfers, stored |-> t.stored,
                 completed |-> c]
<1>1. BegunJob(x, a) = y
  BY DEF BegunJob
<1>2. /\ x.jobs \in Seq(JobRecords) /\ x.transfers \in Transfers(DOMAIN jobs)
      /\ x.stored \in SUBSET Files /\ x.completed \in Seq(DOMAIN jobs)
      /\ DOMAIN x.jobs = DOMAIN jobs
      /\ a \in DOMAIN jobs /\ finalizeQueue \in Seq(DOMAIN jobs)
      /\ defQueue \in Seq(DOMAIN jobs)
  BY DEF Begins, JobTypes
<1>3. r \in Works(DOMAIN jobs)
  <2>1. x.jobs[a] \in JobRecords BY <1>2
  <2> HIDE DEF a
  <2> QED BY <1>2, <2>1 DEF Works
<1>4. r.job = x.jobs[a] /\ ~r.push /\ r.id = a /\ r.transfers = x.transfers OBVIOUS
<1>a. t = BeginTransfers(r) OBVIOUS
<1> HIDE DEF r
<1>5. Passed(DOMAIN jobs, r, t) BY <1>3, TxdPassed
<1> HIDE DEF t
<1>6. /\ y.jobs = [x.jobs EXCEPT ![a] = t.job] /\ y.transfers = t.transfers
      /\ y.completed = IF t.push THEN Append(x.completed, a) ELSE x.completed
  OBVIOUS
<1> HIDE DEF y
<1>7. Still(i - 1) = Still(i) \cup {a}
  <2>1. i - 1 + 1 = i /\ i..Len(defQueue) = {i} \cup (i + 1)..Len(defQueue)
    BY <1>2
  <2> QED BY <2>1 DEF Still
<1>8. StepOf(x.jobs, x.transfers, Still(i - 1), a, r, t, y.jobs, y.transfers, Still(i))
  <2>1. \A j \in DOMAIN jobs : j # a => (j \in Still(i) <=> j \in Still(i - 1))
    BY <1>7
  <2> HIDE DEF a
  <2> QED BY <1>2, <1>3, <1>4, <1>5, <1>6, <2>1 DEF StepOf
<1>9. EndedOf(y) = EndedBy(EndedOf(x), a, t)
  <2>1. CASE t.push
    <3>1. Members(Append(x.completed, a)) = Members(x.completed) \cup {a}
      <4> DEFINE d == Append(x.completed, a)
                 n == Len(x.completed)
      <4>1. /\ n \in Nat /\ DOMAIN x.completed = 1..n /\ DOMAIN d = 1..(n + 1)
            /\ d[n + 1] = a /\ \A l \in 1..n : d[l] = x.completed[l]
        BY <1>2
      <4> HIDE DEF d, n
      <4> QED BY <4>1 DEF Members, d
    <3> QED BY <1>6, <2>1, <3>1 DEF EndedOf, EndedBy
  <2>2. CASE ~t.push BY <1>6, <2>2 DEF EndedOf, EndedBy
  <2> QED BY <2>1, <2>2
<1>10. EndedOf(x) \subseteq DOMAIN jobs BY <1>2 DEF EndedOf, Members
<1> HIDE DEF a
<1> QED BY <1>1, <1>4, <1>6, <1>8, <1>9, <1>10, <1>a DEF a

\* Fewer are to begin.
LEMMA DroppedView ==
  ASSUME NEW jb \in Seq(JobRecords), NEW tr, NEW U, NEW U2, U2 \subseteq U, NEW m
  PROVE  Dropped(View(jb, tr, U, m), View(jb, tr, U2, m))
<1> DEFINE w == View(jb, tr, U, m)
           v == View(jb, tr, U2, m)
           D == {i \in DOMAIN jb : jb[i].model = m}
<1>1. DOMAIN w = D /\ DOMAIN v = D BY DEF View
<1>2. ASSUME NEW j \in D
      PROVE  v[j] = w[j] \/ (w[j].begins /\ ~v[j].begins /\ v[j].own = w[j].own)
  <2>1. CASE j \in U2 <=> j \in U
    <3>1. (j \in U2) = (j \in U) BY <2>1
    <3> QED BY <3>1 DEF View
  <2>2. CASE j \notin U2 /\ j \in U BY <2>2 DEF View
  <2> QED BY <2>1, <2>2
<1> HIDE DEF w, v, D
<1>3. Dropped(w, v) BY <1>1, <1>2 DEF Dropped
<1> QED BY <1>3 DEF w, v

\* It makes no difference to a model who else is to begin.
LEMMA SameView ==
  ASSUME NEW jb, NEW tr, NEW U, NEW U2, NEW m,
         \A j \in DOMAIN jb : jb[j].model = m => (j \in U2 <=> j \in U)
  PROVE  View(jb, tr, U2, m) = View(jb, tr, U, m)
BY DEF View

\* A job whose model is there already is not begun.
LEMMA SkippedGood ==
  ASSUME NEW jb \in Seq(JobRecords), NEW tr, NEW U, NEW U2, NEW a \in DOMAIN jb,
         U = U2 \cup {a}, NEW m, NEW E, NEW there, m = jb[a].model => there,
         Good(m, jb, tr, U, E, there)
  PROVE  Good(m, jb, tr, U2, E, there)
<1>1. CASE m # jb[a].model
  <2>1. View(jb, tr, U2, m) = View(jb, tr, U, m)
    BY <1>1, SameView
  <2> QED BY <2>1 DEF Good
<1>2. CASE m = jb[a].model
  <2> DEFINE w == View(jb, tr, U, m)
             v == View(jb, tr, U2, m)
             won == there \/ \E j \in E : jb[j].model = m
             act == m \in activeIds
  <2>1. Dropped(w, v) BY DroppedView
  <2>2. \A j \in DOMAIN w : w[j] \in Rows
    <3> HIDE DEF w
    <3>1. \A j \in DOMAIN View(jb, tr, U, m) : View(jb, tr, U, m)[j] \in Rows
      BY ONLY ViewRows, jb \in Seq(JobRecords)
    <3> QED BY <3>1 DEF w
  <2>3. Fate(w, initGame, act, won) /\ won BY <1>2 DEF Good
  <2> HIDE DEF w, v, won, act
  <2>4. Course(v) /\ LiveJobs(v) \subseteq LiveJobs(w) /\ (Alone(w) => Alone(v))
    BY <2>1, <2>2, <2>3, DroppedGoes DEF Fate
  <2>5. Fate(v, initGame, act, won) BY <2>3, <2>4 DEF Fate
  <2> QED BY <2>5 DEF Good, v, won, act
<1> QED BY <1>1, <1>2

\* One job after the other, the models stay good.
LEMMA BegunOnwards ==
  ASSUME LoadInv, ComingNow, NEW x \in Begins, NEW i \in 1..Len(defQueue),
         BegunSoFar(x, i - 1), ~clearAll
  PROVE  BegunSoFar(BegunJob(x, defQueue[i]), i)
<1> DEFINE a == defQueue[i]
           y == BegunJob(x, a)
<1>1. JobTypes BY DEF LoadInv
<1>2. /\ x.jobs \in Seq(JobRecords) /\ x.transfers \in Transfers(DOMAIN jobs)
      /\ DOMAIN x.jobs = DOMAIN jobs /\ defQueue \in Seq(DOMAIN jobs)
      /\ a \in DOMAIN jobs /\ i \in DOMAIN defQueue
      /\ QueuesOK(x.jobs, x.completed, finalizeQueue)
  BY <1>1 DEF Begins, JobTypes
<1>3. /\ Entered(x.jobs, x.transfers)
      /\ \A j \in DOMAIN jobs : x.jobs[j].model = jobs[j].model
      /\ \A m \in Models \ gone : Whole(m) => BegunWell(x, i - 1, m)
  BY DEF BegunSoFar
<1>4. Still(i - 1) = Still(i) \cup {a}
  <2>1. i - 1 + 1 = i /\ i..Len(defQueue) = {i} \cup (i + 1)..Len(defQueue)
    BY <1>2
  <2> QED BY <2>1 DEF Still
<1>5. CASE loaded[x.jobs[a].model] # None
  <2>1. y = x BY <1>5 DEF BegunJob
  <2> HIDE DEF y
  <2>2. ASSUME NEW m \in Models \ gone, Whole(m) PROVE BegunWell(x, i, m)
    <3> DEFINE there == loaded[m] # None
               U == Still(i - 1)
    <3>1. Good(m, x.jobs, x.transfers, U, EndedOf(x), there)
      BY <1>3, <2>2 DEF BegunWell
    <3>2. m = x.jobs[a].model => there BY <1>5
    <3>3. U = Still(i) \cup {a} /\ a \in DOMAIN x.jobs BY <1>2, <1>4
    <3> HIDE DEF there, U, a
    <3>4. Good(m, x.jobs, x.transfers, Still(i), EndedOf(x), there)
      BY <1>2, <3>1, <3>2, <3>3, SkippedGood
    <3> QED BY <1>3, <2>2, <3>4 DEF BegunWell, there
  <2> QED BY <1>3, <2>1, <2>2 DEF BegunSoFar, y
<1>6. CASE loaded[x.jobs[a].model] = None
  <2>1. PICK r, t :
              /\ StepOf(x.jobs, x.transfers, Still(i - 1), a, r, t,
                        y.jobs, y.transfers, Still(i))
              /\ ~r.push /\ t = BeginTransfers(r) /\ y.transfers = t.transfers
              /\ EndedOf(y) = EndedBy(EndedOf(x), a, t)
              /\ EndedOf(x) \subseteq DOMAIN jobs
    BY <1>1, <1>3, <1>6, BegunStep
  <2> HIDE DEF y
  <2>2. /\ Stepped(x.jobs, x.transfers, Still(i - 1), a, y.jobs, t.transfers, Still(i))
    BY <2>1, StepStepped
  <2>3. \A f \in Files : x.transfers[f] # None => x.transfers[f].job \in DOMAIN x.jobs
    BY <1>2 DEF Transfers, EntriesOf
  <2>4. Entered(y.jobs, y.transfers)
    <3>1. Entered(y.jobs, t.transfers) BY <1>3, <2>2, <2>3, SteppedEntered
    <3> QED BY <2>1, <3>1
  <2>5. /\ \A j \in DOMAIN jobs : y.jobs[j].model = jobs[j].model
        /\ \A f \in Files : y.transfers[f] # x.transfers[f] => f[1] = x.jobs[a].model
    BY <1>2, <1>3, <2>1, <2>2 DEF Stepped
  <2>6. ASSUME NEW m \in Models \ gone, Whole(m) PROVE BegunWell(y, i, m)
    <3> DEFINE there == loaded[m] # None
               E == EndedOf(x)
               U == Still(i - 1)
    <3>1. Good(m, x.jobs, x.transfers, U, E, there)
      BY <1>3, <2>6 DEF BegunWell
    <3>2. /\ Good(m, y.jobs, y.transfers, Still(i), EndedOf(y), there)
          /\ \A k \in Kinds : x.transfers[<<m, k>>] # None
                 => y.transfers[<<m, k>>] = x.transfers[<<m, k>>]
      <4>1. CASE m # x.jobs[a].model
        <5>1. E \in SUBSET DOMAIN x.jobs BY <1>2, <2>1
        <5> HIDE DEF there, E, U
        <5>2. Good(m, y.jobs, y.transfers, Still(i), EndedOf(y), there)
          BY <2>1, <3>1, <4>1, <5>1, OtherGood DEF E, U
        <5>3. \A k \in Kinds : <<m, k>> \in Files /\ <<m, k>>[1] = m BY DEF Files
        <5> QED BY <2>5, <4>1, <5>2, <5>3
      <4>2. CASE m = x.jobs[a].model
        <5>1. a \in U /\ a \notin Still(i)
          <6>1. Tidy(jobs, Tokens, defQueue, transfers, m)
            BY <2>6 DEF ComingNow, Coming
          <6>2. jobs[defQueue[i]].model = m BY <1>2, <1>3, <4>2
          <6>3. defQueue[i] \notin Starting(Tokens)
            BY <1>2, <6>1, <6>2 DEF Tidy
          <6>4. \A l \in (i + 1)..Len(defQueue) : defQueue[l] # defQueue[i]
            <7> TAKE l \in (i + 1)..Len(defQueue)
            <7>1. l \in DOMAIN defQueue /\ l # i BY <1>2
            <7> QED BY <1>2, <6>1, <6>2, <7>1 DEF Tidy
          <6> QED BY <1>4, <6>3, <6>4 DEF Still
        <5>2. a \notin E
          <6> DEFINE w == View(x.jobs, x.transfers, U, m)
          <6>1. a \in DOMAIN w /\ w[a].begins /\ w[a].queued = x.jobs[a].queued
            BY <1>2, <4>2, <5>1 DEF View
          <6>2. w[a] \in Rows
            <7>1. \A j \in DOMAIN View(x.jobs, x.transfers, Still(i - 1), m) :
                     View(x.jobs, x.transfers, Still(i - 1), m)[j] \in Rows
              BY ONLY ViewRows, <1>2
            <7> QED BY <6>1, <7>1
          <6>3. Course(w) BY <3>1 DEF Good, Fate
          <6> HIDE DEF w
          <6>4. ~x.jobs[a].queued
            BY <6>1, <6>2, <6>3 DEF Course, Goes
          <6> HIDE DEF a
          <6> QED BY <1>2, <6>4 DEF QueuesOK, Open, EndedOf, Members, E
        <5> HIDE DEF a, E, U, there
        <5>3. StepFor(m, E, there, x.jobs, x.transfers, U, a, r, t,
                      y.jobs, y.transfers, Still(i))
          BY <1>2, <2>1, <2>6, <3>1, <4>2, <5>1, <5>2 DEF StepFor, U, E
        <5>4. /\ Good(m, y.jobs, y.transfers, Still(i), EndedBy(E, a, t), there)
              /\ \A f \in Files : t.transfers[f] # x.transfers[f]
                                     => x.transfers[f] = None
          BY <2>1, <5>1, <5>3, StartGood
        <5>5. \A k \in Kinds : <<m, k>> \in Files BY DEF Files
        <5> QED BY <2>1, <5>4, <5>5 DEF E
      <4> QED BY <4>1, <4>2
    <3>3. \A k \in Kinds :
            transfers[<<m, k>>] # None /\ transfers[<<m, k>>].state = "answered"
               => y.transfers[<<m, k>>] = transfers[<<m, k>>]
      BY <1>3, <2>6, <3>2 DEF BegunWell
    <3> QED BY <3>2, <3>3 DEF BegunWell
  <2> QED BY <2>4, <2>5, <2>6 DEF BegunSoFar, y
<1> QED BY <1>5, <1>6

\* All of those put off.
LEMMA DefinitionsWell ==
  ASSUME LoadInv, ComingNow, ~clearAll
  PROVE  AllBegun \in Begins /\ BegunSoFar(AllBegun, Len(defQueue))
<1>1. JobTypes /\ stored \subseteq Files /\ QueueInv BY DEF LoadInv, ModelTypes
<1>2. PICK r : /\ r \in [0..Len(defQueue) -> Begins]
               /\ r[0] = [jobs |-> jobs, transfers |-> transfers,
                          stored |-> stored, completed |-> completedQueue]
               /\ \A i \in 1..Len(defQueue) : r[i] = BegunJob(r[i - 1], defQueue[i])
               /\ AllBegun = r[Len(defQueue)]
  BY <1>1, AllBegunFold
<1> DEFINE n == Len(defQueue)
           G == {i \in 0..n : BegunSoFar(r[i], i)}
<1>3. n \in Nat /\ n \in 0..n BY <1>1 DEF JobTypes
<1>4. 0 \in G
  <2>1. /\ r[0].jobs = jobs /\ r[0].transfers = transfers
        /\ r[0].completed = completedQueue
    BY <1>2
  <2>2. EndedOf(r[0]) = Ended BY <2>1 DEF EndedOf, Ended
  <2>3. Still(0) = Starters
    <3>1. DOMAIN defQueue = (0 + 1)..Len(defQueue) BY <1>1 DEF JobTypes
    <3> QED BY <3>1 DEF Still, Starters, Members
  <2>4. ASSUME NEW m \in Models \ gone, Whole(m) PROVE BegunWell(r[0], 0, m)
    <3>1. (loaded[m] # None /\ ~clearAll) = (loaded[m] # None) OBVIOUS
    <3>2. Good(m, jobs, transfers, Starters, Ended, loaded[m] # None)
      BY <2>4, <3>1 DEF ComingNow, Coming
    <3> QED BY <2>1, <2>2, <2>3, <3>2 DEF BegunWell
  <2>5. BegunSoFar(r[0], 0) BY <2>1, <2>4 DEF BegunSoFar, ComingNow
  <2> QED BY <1>3, <2>5
<1>5. ASSUME NEW i \in 1..n, i - 1 \in G PROVE i \in G
  <2>0. i \in 0..n /\ i - 1 \in 0..n BY <1>3
  <2>1. r[i - 1] \in Begins /\ BegunSoFar(r[i - 1], i - 1) BY <1>2, <1>5, <2>0
  <2>2. BegunSoFar(BegunJob(r[i - 1], defQueue[i]), i)
    BY <2>1, BegunOnwards
  <2>3. r[i] = BegunJob(r[i - 1], defQueue[i]) BY <1>2
  <2> QED BY <2>0, <2>2, <2>3
<1> HIDE DEF G
<1>6. n \in G
  <2>1. \A i \in 0..n : i \in G BY <1>3, <1>4, <1>5, UpTo
  <2> QED BY <1>3, <2>1
<1>7. BegunSoFar(r[n], n) BY <1>6 DEF G
<1> QED BY <1>2, <1>3, <1>7

\* ProcessPendingDefinitions.
LEMMA DefinitionsComing ==
  ASSUME LoadInv, LoadInv', ComingNow, ProcessPendingDefinitions
  PROVE  ComingNow'
<1> DEFINE r == AllBegun
<1>1. /\ pc = "definitions" /\ Continue(2, spawnRun)
      /\ \/ /\ jobs' = r.jobs /\ transfers' = r.transfers
            /\ completedQueue' = r.completed
            /\ defQueue' = <<>>
         \/ UNCHANGED <<jobs, fileVars, completedQueue, defQueue>>
      /\ UNCHANGED <<sessionVars, corrupt, activeIds, finalizeQueue, mainQueue,
                     tasks, modelVars>>
  BY DEF ProcessPendingDefinitions
<1> USE DEF sessionVars, modelVars, fileVars
<1>2. JobTypes /\ spawnRun \in BOOLEAN BY DEF LoadInv, SessionTypes
<1>3. /\ Ended \subseteq DOMAIN jobs /\ Tokens \in Seq(TasksOf(DOMAIN jobs))
      /\ defQueue \in Seq(DOMAIN jobs)
  BY <1>2, TokenFacts DEF JobTypes
<1>4. ~clearAll BY <1>1 DEF ComingNow, Clearing
<1>5. r \in Begins /\ BegunSoFar(r, Len(defQueue)) BY <1>4, DefinitionsWell
<1> HIDE DEF r
<1>6. Tokens' = Tokens BY <1>1 DEF Tokens
<1>7. CASE UNCHANGED <<jobs, fileVars, completedQueue, defQueue>>
  <2>1. Starters' = Starters /\ Ended' = Ended
    BY <1>1, <1>6, <1>7 DEF Starters, Ended, Members, Starting
  <2>2. ASSUME NEW m \in Models, Coming(m) PROVE Coming(m)'
    <3>1. Tidy(jobs', Tokens', defQueue', transfers', m) /\ m \notin destroyQueue'
      BY <1>1, <1>6, <1>7, <2>2 DEF Coming
    <3>2. UNCHANGED <<jobs, initGame, activeIds>> BY <1>1, <1>7
    <3>3. loaded[m] # None /\ ~clearAll => loaded'[m] # None /\ ~clearAll'
      BY <1>1
    <3>4. \A j \in DOMAIN jobs : jobs[j].model = m =>
             /\ j \in Starters' <=> j \in Starters
             /\ Owned(transfers', m, j) = Owned(transfers, m, j)
             /\ j \in Ended' <=> j \in Ended
      BY <1>7, <2>1
    <3> QED BY <1>3, <2>1, <2>2, <3>1, <3>2, <3>3, <3>4, ComingKept
  <2>3. \A m \in Models \ gone' : Whole(m)' => m \notin gone /\ Whole(m)
    BY <1>1 DEF Whole
  <2>4. /\ Entered(jobs, transfers)'
        /\ \A m \in Models \ gone' : Whole(m)' => Coming(m)'
    BY <1>7, <2>2, <2>3 DEF ComingNow
  <2>5. Clearing' /\ PutOff' /\ InRun'
    <3>1. initGame' /\ spawned' => defQueue' = <<>>
      BY <1>1, <1>7 DEF ComingNow, PutOff
    <3>2. 2 \in 0..5 OBVIOUS
    <3> QED BY <1>1, <1>2, <1>4, <3>1, <3>2, ContinueFrame
  <2> QED BY <2>4, <2>5 DEF ComingNow
<1>8. CASE jobs' = r.jobs /\ transfers' = r.transfers
           /\ completedQueue' = r.completed /\ defQueue' = <<>>
  <2>1. EndedOf(r) = Ended' BY <1>1, <1>8 DEF EndedOf, Ended, Members
  <2>2. Still(Len(defQueue)) = Starters'
    <3>1. {defQueue[l] : l \in (Len(defQueue) + 1)..Len(defQueue)} = {}
      BY <1>3
    <3>2. Members(<<>>) = {} BY DEF Members
    <3> QED BY <1>6, <1>8, <3>1, <3>2 DEF Still, Starters
  <2>3. ASSUME NEW m \in Models \ gone, Whole(m) PROVE Coming(m)'
    <3>1. BegunWell(r, Len(defQueue), m) BY <1>5, <2>3 DEF BegunSoFar
    <3>2. Coming(m) BY <2>3 DEF ComingNow
    <3> DEFINE there == loaded[m] # None
    <3>3. Good(m, jobs', transfers', Starters', Ended', there)
      BY <1>8, <2>1, <2>2, <3>1 DEF BegunWell
    <3>4. there => loaded'[m] # None /\ ~clearAll' BY <1>1, <1>4
    <3>5. UNCHANGED <<initGame, activeIds>> BY <1>1
    <3>6. \A k \in Kinds :
            transfers[<<m, k>>] # None /\ transfers[<<m, k>>].state = "answered"
               => transfers'[<<m, k>>] = transfers[<<m, k>>]
      BY <1>8, <3>1 DEF BegunWell
    <3>7. Tidy(jobs', Tokens, defQueue', transfers', m)
      <4>1. \A j \in DOMAIN jobs : jobs'[j].model = jobs[j].model
        BY <1>5, <1>8 DEF BegunSoFar
      <4>2. Tidy(jobs, Tokens, defQueue, transfers, m) BY <3>2 DEF Coming
      <4>3. defQueue' \in {defQueue, <<>>} BY <1>8
      <4> QED BY <1>3, <3>6, <4>1, <4>2, <4>3, TidyKept
    <3>8. m \notin destroyQueue' BY <1>1, <3>2 DEF Coming
    <3> HIDE DEF there
    <3>9. Good(m, jobs, transfers, Starters, Ended, loaded[m] # None /\ ~clearAll)'
      BY <3>3, <3>4, <3>5, GoodNow
    <3> QED BY <1>6, <3>7, <3>8, <3>9 DEF Coming
  <2>4. \A m \in Models \ gone' : Whole(m)' => m \notin gone /\ Whole(m)
    BY <1>1 DEF Whole
  <2>5. Entered(jobs, transfers)' BY <1>5, <1>8 DEF BegunSoFar
  <2>6. Clearing' /\ PutOff' /\ InRun'
    <3>1. initGame' /\ spawned' => defQueue' = <<>> BY <1>8
    <3>2. 2 \in 0..5 OBVIOUS
    <3> QED BY <1>1, <1>2, <1>4, <3>1, <3>2, ContinueFrame
  <2> QED BY <2>3, <2>4, <2>5, <2>6 DEF ComingNow
<1> QED BY <1>1, <1>7, <1>8

-----------------------------------------------------------------------------
(* What is finalized, and what is put off again. *)

\* What has ended and is not finalized yet, after i jobs of the queue q: the rest
\* of q, those put off, and the other queue c.
Left(x, i, q, c) ==
    {q[l] : l \in (i + 1)..Len(q)} \cup Members(x.deferred) \cup Members(c)
\* Finalizing changes nothing of how far a job is.
AsFar(e, f) ==
    /\ e.model = f.model /\ e.txd = f.txd /\ e.dff = f.dff /\ e.col = f.col
    /\ e.remaining = f.remaining /\ e.queued = f.queued
Won(m) == (loaded[m] # None /\ ~clearAll) \/ \E j \in Ended : jobs[j].model = m
FinalWell(x, i, q, c, m) ==
    /\ m \notin x.destroy
    /\ Won(m) => \/ x.loaded[m] # None /\ ~clearAll
                 \/ \E j \in Left(x, i, q, c) : jobs[j].model = m
FinalSoFar(x, i, q, c) ==
    /\ Left(x, i, q, c) \subseteq Ended
    /\ \A j \in DOMAIN jobs : AsFar(x.jobs[j], jobs[j])
    /\ \A m \in Models \ gone : Whole(m) => FinalWell(x, i, q, c, m)

\* What a queue has with one more.
LEMMA MembersAppend ==
  ASSUME NEW S, NEW s \in Seq(S), NEW a
  PROVE  Members(Append(s, a)) = Members(s) \cup {a}
<1> DEFINE d == Append(s, a)
           n == Len(s)
<1>1. /\ n \in Nat /\ DOMAIN s = 1..n /\ DOMAIN d = 1..(n + 1)
      /\ d[n + 1] = a /\ \A l \in 1..n : d[l] = s[l]
  OBVIOUS
<1> HIDE DEF d, n
<1> QED BY <1>1 DEF Members, d

\* A job is put off and has ended still, or its model is created: the files of a
\* job that has ended are there, and those of the model are whole.
LEMMA FinalOnwards ==
  ASSUME LoadInv, ComingNow, clearAll => Ended = {}, NEW q \in Seq(DOMAIN jobs),
         NEW c \in Seq(DOMAIN jobs), NEW x \in Ends, NEW i \in 1..Len(q),
         FinalSoFar(x, i - 1, q, c)
  PROVE  FinalSoFar(FinalizeCustomVehicle(x, q[i]), i, q, c)
<1> DEFINE a == q[i]
           y == FinalizeCustomVehicle(x, a)
           rest == {q[l] : l \in (i + 1)..Len(q)} \cup Members(c)
<1>1. /\ JobTypes /\ ModelTypes /\ spawned \in BOOLEAN
  BY DEF LoadInv, SessionTypes
<1>2. a \in DOMAIN jobs OBVIOUS
<1>3. Left(x, i - 1, q, c) = rest \cup {a} \cup Members(x.deferred)
  <2>1. i - 1 + 1 = i /\ i..Len(q) = {i} \cup (i + 1)..Len(q) OBVIOUS
  <2> QED BY <2>1 DEF Left
<1>4. Left(y, i, q, c) = rest \cup Members(y.deferred)
  BY DEF Left
<1>5. x.deferred \in Seq(DOMAIN jobs) BY DEF Ends
<1> HIDE DEF a, y, rest
<1>6. /\ \/ Deferred(x, y, a)
         \/ /\ Finalized(x, y, a)
            /\ Fit(x.jobs[a]) => y.loaded[x.jobs[a].model] # None
      /\ \A k \in Models : \/ Spared(x, y, k)
                           \/ k = x.jobs[a].model /\ ~Fit(x.jobs[a])
  BY <1>1, <1>2, FinalizeOne DEF y
<1>7. /\ Left(x, i - 1, q, c) \subseteq Ended
      /\ \A j \in DOMAIN jobs : AsFar(x.jobs[j], jobs[j])
  BY DEF FinalSoFar
<1>8. ~clearAll /\ a \in Ended BY <1>3, <1>7
<1>9. ASSUME NEW m \in Models \ gone, Whole(m)
      PROVE  /\ Spared(x, y, m)
             /\ jobs[a].model = m => Fit(x.jobs[a]) /\ x.jobs[a].model = m
  <2>1. ASSUME jobs[a].model = m PROVE Fit(x.jobs[a]) /\ x.jobs[a].model = m
    <3>1. Essential(jobs[a])
      BY <1>8, <1>9, <2>1 DEF ComingNow, Coming, Good
    <3>2. AsFar(x.jobs[a], jobs[a]) BY <1>2, <1>7
    <3> QED BY <1>9, <2>1, <3>1, <3>2 DEF AsFar, Essential, Fit
  <2>2. m = x.jobs[a].model => jobs[a].model = m
    BY <1>2, <1>7 DEF AsFar
  <2> QED BY <1>6, <2>1, <2>2
<1>10. ASSUME NEW m \in Models \ gone, Whole(m),
              \/ Left(y, i, q, c) = Left(x, i - 1, q, c)
              \/ jobs[a].model = m => y.loaded[m] # None,
              Left(x, i - 1, q, c) \ {a} \subseteq Left(y, i, q, c)
       PROVE  FinalWell(y, i, q, c, m)
  <2>1. FinalWell(x, i - 1, q, c, m) BY <1>10 DEF FinalSoFar
  <2>2. m \notin y.destroy BY <1>9, <1>10, <2>1 DEF FinalWell, Spared
  <2>3. x.loaded[m] # None => y.loaded[m] # None BY <1>9, <1>10 DEF Spared
  <2> QED BY <1>8, <1>10, <2>1, <2>2, <2>3 DEF FinalWell
<1>11. CASE Deferred(x, y, a)
  <2>1. y.jobs = x.jobs /\ Members(y.deferred) = Members(x.deferred) \cup {a}
    BY <1>5, <1>11, MembersAppend DEF Deferred
  <2>2. Left(y, i, q, c) = Left(x, i - 1, q, c) BY <1>3, <1>4, <2>1
  <2> QED BY <1>7, <1>10, <2>1, <2>2 DEF FinalSoFar, y, a
<1>12. CASE Finalized(x, y, a) /\ (Fit(x.jobs[a]) => y.loaded[x.jobs[a].model] # None)
  <2>1. y.jobs = [x.jobs EXCEPT ![a] = [x.jobs[a] EXCEPT !.finalized = TRUE]]
        /\ y.deferred = x.deferred
    BY <1>12 DEF Finalized
  <2>2. /\ Left(y, i, q, c) \subseteq Left(x, i - 1, q, c)
        /\ Left(x, i - 1, q, c) \ {a} \subseteq Left(y, i, q, c)
    BY <1>3, <1>4, <2>1
  <2>3. ASSUME NEW j \in DOMAIN jobs PROVE AsFar(y.jobs[j], jobs[j])
    <3>1. DOMAIN x.jobs = DOMAIN jobs /\ x.jobs[j] \in JobRecords BY DEF Ends
    <3>2. AsFar(x.jobs[j], jobs[j]) BY <1>7
    <3> DEFINE e == [x.jobs[j] EXCEPT !.finalized = TRUE]
    <3>3. /\ e.model = x.jobs[j].model /\ e.txd = x.jobs[j].txd
          /\ e.dff = x.jobs[j].dff /\ e.col = x.jobs[j].col
          /\ e.remaining = x.jobs[j].remaining /\ e.queued = x.jobs[j].queued
      BY <3>1 DEF JobRecords
    <3>4. y.jobs[j] \in {x.jobs[j], e} BY <2>1, <3>1
    <3> HIDE DEF e
    <3> QED BY <3>2, <3>3, <3>4 DEF AsFar
  <2>4. \A m \in Models \ gone : Whole(m) => (jobs[a].model = m => y.loaded[m] # None)
    BY <1>9, <1>12
  <2> QED BY <1>7, <1>10, <2>2, <2>3, <2>4 DEF FinalSoFar, y, a
<1> QED BY <1>6, <1>11, <1>12

\* All of them.
LEMMA FinalWhole ==
  ASSUME LoadInv, ComingNow, clearAll => Ended = {},
         NEW q \in Seq(DOMAIN jobs), NEW d \in Seq(DOMAIN jobs),
         NEW c \in Seq(DOMAIN jobs),
         Members(q) \cup Members(d) \cup Members(c) = Ended
  PROVE  Finalization(q, d) \in Ends /\ FinalSoFar(Finalization(q, d), Len(q), q, c)
<1>1. /\ JobTypes /\ ModelTypes /\ spawned \in BOOLEAN
      /\ \A m \in inUse : loaded[m] # None
  BY DEF LoadInv, SessionTypes, UsedIsKept
<1>2. PICK r : /\ r \in [0..Len(q) -> Ends]
               /\ r[0].jobs = jobs /\ r[0].deferred = d
               /\ r[0].loaded = loaded /\ r[0].destroy = destroyQueue
               /\ \A i \in 1..Len(q) :
                     /\ r[i] = FinalizeCustomVehicle(r[i - 1], q[i])
                     /\ \/ Deferred(r[i - 1], r[i], q[i])
                        \/ Finalized(r[i - 1], r[i], q[i])
               /\ Finalization(q, d) = r[Len(q)]
  BY <1>1, FinalizationType
<1> DEFINE n == Len(q)
           G == {i \in 0..n : FinalSoFar(r[i], i, q, c)}
<1>3. n \in Nat /\ n \in 0..n /\ (0 + 1)..n = DOMAIN q OBVIOUS
<1>4. 0 \in G
  <2>1. Left(r[0], 0, q, c) = Ended BY <1>2, <1>3 DEF Left, Members
  <2>2. \A j \in DOMAIN jobs : AsFar(r[0].jobs[j], jobs[j]) BY <1>2 DEF AsFar
  <2>3. ASSUME NEW m \in Models \ gone, Whole(m) PROVE FinalWell(r[0], 0, q, c, m)
    <3>1. m \notin destroyQueue BY <2>3 DEF ComingNow, Coming
    <3> QED BY <1>2, <2>1, <3>1 DEF FinalWell, Won
  <2> QED BY <1>3, <2>1, <2>2, <2>3 DEF FinalSoFar
<1>5. ASSUME NEW i \in 1..n, i - 1 \in G PROVE i \in G
  <2>0. i \in 0..n /\ i - 1 \in 0..n BY <1>3
  <2>1. r[i - 1] \in Ends /\ FinalSoFar(r[i - 1], i - 1, q, c) BY <1>2, <1>5, <2>0
  <2>2. FinalSoFar(FinalizeCustomVehicle(r[i - 1], q[i]), i, q, c)
    BY <2>1, FinalOnwards
  <2> QED BY <1>2, <2>0, <2>2
<1> HIDE DEF G
<1>6. n \in G
  <2>1. \A i \in 0..n : i \in G BY <1>3, <1>4, <1>5, UpTo
  <2> QED BY <1>3, <2>1
<1>7. FinalSoFar(r[n], n, q, c) BY <1>6 DEF G
<1> QED BY <1>2, <1>3, <1>7

\* A phase that finalizes: what it takes over is all that changes.
LEMMA FinalComing ==
  ASSUME LoadInv, LoadInv', ComingNow, clearAll => Ended = {},
         NEW q \in Seq(DOMAIN jobs), NEW d \in Seq(DOMAIN jobs),
         NEW c \in Seq(DOMAIN jobs),
         Members(q) \cup Members(d) \cup Members(c) = Ended,
         TakeOver(Finalization(q, d)),
         Members(finalizeQueue') \cup Members(c) = Ended',
         UNCHANGED <<sessionVars, corrupt, activeIds, defQueue, mainQueue, tasks,
                     transfers, clearAll>>
  PROVE  /\ \A m \in Models \ gone' : Whole(m)' => Coming(m)'
         /\ Entered(jobs, transfers)' /\ Ended' \subseteq Ended
<1> DEFINE r == Finalization(q, d)
<1>1. r \in Ends /\ FinalSoFar(r, Len(q), q, c) BY FinalWhole
<1>2. /\ jobs' = r.jobs /\ loaded' = r.loaded /\ destroyQueue' = r.destroy
      /\ finalizeQueue' = r.deferred
  BY DEF TakeOver
<1> HIDE DEF r
<1> USE DEF sessionVars
<1>3. JobTypes BY DEF LoadInv
<1>4. /\ Ended \subseteq DOMAIN jobs /\ Tokens \in Seq(TasksOf(DOMAIN jobs))
      /\ defQueue \in Seq(DOMAIN jobs)
  BY <1>3, TokenFacts DEF JobTypes
<1>5. Left(r, Len(q), q, c) = Ended'
  <2>1. {q[l] : l \in (Len(q) + 1)..Len(q)} = {} OBVIOUS
  <2> QED BY <1>2, <2>1 DEF Left
<1>6. /\ Ended' \subseteq Ended /\ DOMAIN jobs' = DOMAIN jobs
      /\ \A j \in DOMAIN jobs : AsFar(jobs'[j], jobs[j])
      /\ \A m \in Models \ gone : Whole(m) => FinalWell(r, Len(q), q, c, m)
  BY <1>1, <1>2, <1>5 DEF FinalSoFar, Ends
<1>7. Tokens' = Tokens /\ Starters' = Starters
  BY DEF Tokens, Starters
<1>8. Entered(jobs, transfers)'
  <2>1. \A f \in Files : transfers[f] # None => transfers[f].job \in DOMAIN jobs
    BY <1>3 DEF JobTypes, Transfers, EntriesOf
  <2> QED BY <1>6, <2>1 DEF ComingNow, Entered, AsFar
<1>9. ASSUME NEW m \in Models \ gone, Whole(m) PROVE Coming(m)'
  <2>1. Coming(m) BY <1>9 DEF ComingNow
  <2>2. FinalWell(r, Len(q), q, c, m) BY <1>6, <1>9
  <2>3. m \notin destroyQueue' BY <1>2, <2>2 DEF FinalWell
  <2>4. Tidy(jobs', Tokens', defQueue', transfers', m)
    <3>1. \A j \in DOMAIN jobs : jobs'[j].model = jobs[j].model BY <1>6 DEF AsFar
    <3>2. Tidy(jobs, Tokens, defQueue, transfers, m) BY <2>1 DEF Coming
    <3>3. Tidy(jobs', Tokens, defQueue, transfers, m)
      BY <1>4, <3>1, <3>2, TidyKept
    <3> QED BY <1>7, <3>3
  <2>5. View(jobs', transfers', Starters', m) = View(jobs, transfers, Starters, m)
    <3>1. transfers' = transfers OBVIOUS
    <3> QED BY <1>6, <1>7, <3>1 DEF View, AsFar
  <2>6. \A j \in Ended' : jobs'[j].model = m => Essential(jobs'[j])
    BY <1>4, <1>6, <2>1 DEF Coming, Good, AsFar, Essential
  <2>7. Won(m) => \/ loaded'[m] # None /\ ~clearAll'
                  \/ \E j \in Ended' : jobs'[j].model = m
    BY <1>2, <1>4, <1>5, <1>6, <2>2 DEF FinalWell, AsFar
  <2>8. Fate(View(jobs, transfers, Starters, m), initGame, m \in activeIds, Won(m))
    BY <2>1 DEF Coming, Good, Won
  <2> DEFINE won == Won(m)
             won2 == (loaded'[m] # None /\ ~clearAll')
                         \/ \E j \in Ended' : jobs'[j].model = m
             v == View(jobs, transfers, Starters, m)
             act == m \in activeIds
  <2>9. won => won2 BY <2>7
  <2>10. Fate(v, initGame, act, won) BY <2>8
  <2> HIDE DEF won, won2, v, act
  <2>11. Fate(v, initGame, act, won2) BY <2>9, <2>10 DEF Fate
  <2> QED BY <2>3, <2>4, <2>5, <2>6, <2>11 DEF Coming, Good, won2, v, act
<1>10. \A m \in Models \ gone' : Whole(m)' => m \notin gone /\ Whole(m)
  BY DEF Whole
<1> QED BY <1>6, <1>8, <1>9, <1>10

\* ProcessCompletedDownloads puts off for the queue of finalizations.
LEMMA CompletedComing ==
  ASSUME LoadInv, LoadInv', ComingNow, ProcessCompletedDownloads
  PROVE  ComingNow'
<1>1. /\ pc = "completed" /\ Continue(3, spawnRun)
      /\ TakeOver(Finalization(completedQueue, finalizeQueue))
      /\ completedQueue' = <<>>
      /\ UNCHANGED <<sessionVars, corrupt, activeIds, defQueue, mainQueue, tasks,
                     transfers, clearAll>>
  BY DEF ProcessCompletedDownloads
<1>2. JobTypes /\ JobTypes' /\ spawnRun \in BOOLEAN
  BY DEF LoadInv, SessionTypes
<1>3. /\ completedQueue \in Seq(DOMAIN jobs) /\ finalizeQueue \in Seq(DOMAIN jobs)
      /\ <<>> \in Seq(DOMAIN jobs) /\ Members(<<>>) = {}
  BY <1>2 DEF JobTypes, Members
<1>4. clearAll => Ended = {}
  BY <1>1, <1>3 DEF ComingNow, Clearing, Ended
<1>5. /\ Members(completedQueue) \cup Members(finalizeQueue) \cup Members(<<>>) = Ended
      /\ Members(finalizeQueue') \cup Members(<<>>) = Ended'
  BY <1>1, <1>3 DEF Ended
<1>6. /\ \A m \in Models \ gone' : Whole(m)' => Coming(m)'
      /\ Entered(jobs, transfers)' /\ Ended' \subseteq Ended
  BY <1>1, <1>3, <1>4, <1>5, FinalComing
<1>7. Clearing' /\ PutOff' /\ InRun'
  <2>1. initGame' /\ spawned' => defQueue' = <<>>
    BY <1>1 DEF ComingNow, PutOff, sessionVars
  <2>2. clearAll' => finalizeQueue' = <<>>
    <3>1. clearAll' => Ended' = {} BY <1>1, <1>4, <1>6
    <3>2. finalizeQueue' \in Seq(DOMAIN jobs') BY <1>2 DEF JobTypes
    <3>3. Members(finalizeQueue') = {} => finalizeQueue' = <<>>
      BY <3>2 DEF Members
    <3> QED BY <3>1, <3>3 DEF Ended
  <2>3. 3 \in 0..5 /\ 3 >= 2 OBVIOUS
  <2> QED BY <1>1, <1>2, <2>1, <2>2, <2>3, ContinueFrame
<1> QED BY <1>6, <1>7 DEF ComingNow

\* ProcessPendingFinalizations puts off into that queue itself.
LEMMA FinalizationsComing ==
  ASSUME LoadInv, LoadInv', ComingNow, ProcessPendingFinalizations
  PROVE  ComingNow'
<1>1. /\ pc = "finalizations" /\ Continue(4, spawnRun)
      /\ \/ TakeOver(Finalization(finalizeQueue, <<>>))
         \/ UNCHANGED <<jobs, loaded, destroyQueue, finalizeQueue>>
      /\ UNCHANGED <<sessionVars, corrupt, activeIds, defQueue, completedQueue,
                     mainQueue, tasks, transfers, clearAll>>
  BY DEF ProcessPendingFinalizations
<1>2. JobTypes /\ JobTypes' /\ spawnRun \in BOOLEAN
  BY DEF LoadInv, SessionTypes
<1>3. /\ completedQueue \in Seq(DOMAIN jobs) /\ finalizeQueue \in Seq(DOMAIN jobs)
      /\ <<>> \in Seq(DOMAIN jobs) /\ Members(<<>>) = {}
  BY <1>2 DEF JobTypes, Members
<1>4. clearAll => Ended = {} /\ completedQueue = <<>> /\ finalizeQueue = <<>>
  BY <1>1, <1>3 DEF ComingNow, Clearing, Ended
<1>5. initGame' /\ spawned' => defQueue' = <<>>
  BY <1>1 DEF ComingNow, PutOff, sessionVars
<1>6. 4 \in 0..5 /\ 4 >= 2 OBVIOUS
<1>7. CASE TakeOver(Finalization(finalizeQueue, <<>>))
  <2>1. /\ Members(finalizeQueue) \cup Members(<<>>) \cup Members(completedQueue) = Ended
        /\ Members(finalizeQueue') \cup Members(completedQueue) = Ended'
    BY <1>1, <1>3 DEF Ended
  <2>2. /\ \A m \in Models \ gone' : Whole(m)' => Coming(m)'
        /\ Entered(jobs, transfers)' /\ Ended' \subseteq Ended
    BY <1>1, <1>3, <1>4, <1>7, <2>1, FinalComing
  <2>3. clearAll' => finalizeQueue' = <<>> /\ completedQueue' = <<>>
    <3>1. clearAll' => Ended' = {} BY <1>1, <1>4, <2>2
    <3>2. finalizeQueue' \in Seq(DOMAIN jobs') BY <1>2 DEF JobTypes
    <3>3. Members(finalizeQueue') = {} => finalizeQueue' = <<>>
      BY <3>2 DEF Members
    <3> QED BY <1>1, <1>4, <3>1, <3>3 DEF Ended
  <2>4. Clearing' /\ PutOff' /\ InRun'
    BY <1>1, <1>2, <1>5, <1>6, <2>3, ContinueFrame
  <2> QED BY <2>2, <2>4 DEF ComingNow
<1>8. CASE UNCHANGED <<jobs, loaded, destroyQueue, finalizeQueue>>
  <2> USE DEF sessionVars
  <2>1. Tokens' = Tokens /\ Starters' = Starters /\ Ended' = Ended
    BY <1>1, <1>8 DEF Tokens, Starters, Ended
  <2>2. Ended \subseteq DOMAIN jobs BY <1>2, TokenFacts
  <2>3. ASSUME NEW m \in Models, Coming(m) PROVE Coming(m)'
    <3>1. Tidy(jobs', Tokens', defQueue', transfers', m) /\ m \notin destroyQueue'
      BY <1>1, <1>8, <2>1, <2>3 DEF Coming
    <3>2. UNCHANGED <<jobs, initGame, activeIds>> BY <1>1, <1>8
    <3>3. loaded[m] # None /\ ~clearAll => loaded'[m] # None /\ ~clearAll'
      BY <1>1, <1>8
    <3>4. \A j \in DOMAIN jobs : jobs[j].model = m =>
             /\ j \in Starters' <=> j \in Starters
             /\ Owned(transfers', m, j) = Owned(transfers, m, j)
             /\ j \in Ended' <=> j \in Ended
      BY <1>1, <2>1
    <3> QED BY <2>1, <2>2, <2>3, <3>1, <3>2, <3>3, <3>4, ComingKept
  <2>4. \A m \in Models \ gone' : Whole(m)' => m \notin gone /\ Whole(m)
    BY <1>1 DEF Whole
  <2>5. Entered(jobs, transfers)' BY <1>1, <1>8 DEF ComingNow
  <2>6. Clearing' /\ PutOff' /\ InRun'
    <3>1. clearAll' => finalizeQueue' = <<>> /\ completedQueue' = <<>>
      BY <1>1, <1>4, <1>8
    <3> QED BY <1>1, <1>2, <1>5, <1>6, <3>1, ContinueFrame
  <2> QED BY <2>3, <2>4, <2>5, <2>6 DEF ComingNow
<1> QED BY <1>1, <1>7, <1>8

-----------------------------------------------------------------------------
(* The session. *)

\* Of jobs that neither begin nor wait for anything, nothing is to come.
LEMMA NothingFate ==
  ASSUME NEW jb, NEW tr, NEW m \in Models, \A f \in Files : tr[f] = None,
         NEW new, NEW won
  PROVE  /\ LiveJobs(View(jb, tr, {}, m)) = {}
         /\ Fate(View(jb, tr, {}, m), new, FALSE, won)
<1> DEFINE v == View(jb, tr, {}, m)
<1>1. \A k \in Kinds : <<m, k>> \in Files BY DEF Files
<1>2. \A j \in DOMAIN jb : Owned(tr, m, j) = {} BY <1>1 DEF Owned
<1>3. \A j \in DOMAIN v : v[j].own = {} /\ ~v[j].begins
  <2> TAKE j \in DOMAIN v
  <2>1. j \in DOMAIN jb /\ v[j].own = Owned(tr, m, j) /\ (v[j].begins <=> j \in {})
    BY DEF View
  <2> QED BY <1>2, <2>1
<1> HIDE DEF v
<1>4. Course(v) /\ LiveJobs(v) = {}
  BY <1>3 DEF Course, Goes, LiveJobs, Live
<1> QED BY <1>4 DEF Fate, Alone, v

\* A session begins or ends while nothing is under way: nothing is left of it,
\* but for what waits to be destroyed.
LEMMA AfreshComing ==
  ASSUME LoadInv', ComingNow, gone' = destroyQueue,
         UNCHANGED <<destroyQueue, pc, spawnRun>>,
         pc = "idle", tasks' = <<>>, mainQueue' = <<>>,
         defQueue' = <<>>, completedQueue' = <<>>, finalizeQueue' = <<>>,
         activeIds' = {}, \A f \in Files : transfers'[f] = None
  PROVE  ComingNow'
<1>1. Tokens' = <<>>
  <2>1. <<>> \o <<>> = <<>> OBVIOUS
  <2> QED BY <2>1 DEF Tokens
<1>2. Starters' = {} /\ Ended' = {}
  BY <1>1 DEF Starters, Starting, Members, Ended
<1>3. ASSUME NEW m \in Models \ gone' PROVE Coming(m)'
  <2> DEFINE v == View(jobs', transfers', {}, m)
  <2>1. ASSUME NEW won PROVE Fate(v, initGame', FALSE, won) BY NothingFate
  <2>2. (m \in activeIds') = FALSE OBVIOUS
  <2>3. View(jobs', transfers', Starters', m) = v BY <1>2
  <2> HIDE DEF v
  <2>4. Good(m, jobs, transfers, Starters, Ended, loaded[m] # None /\ ~clearAll)'
    BY <1>2, <2>1, <2>2, <2>3 DEF Good
  <2>5. Tidy(jobs, Tokens, defQueue, transfers, m)'
    BY <1>1 DEF Tidy
  <2> QED BY <2>4, <2>5 DEF Coming
<1>4. Clearing' /\ PutOff' /\ InRun'
  BY DEF Clearing, PutOff, InRun, ComingNow
<1>5. Entered(jobs, transfers)' BY DEF Entered
<1> QED BY <1>3, <1>4, <1>5 DEF ComingNow

\* Join, the restart of the game mode, and the end of the connection.
LEMMA SessionComing ==
  ASSUME LoadInv, LoadInv', ComingNow, ~Hurried, Join \/ GameModeRestart \/ Leave
  PROVE  ComingNow'
<1>1. /\ pc = "idle" /\ mainQueue = <<>> /\ Waiting(Files) = {}
      /\ gone' = destroyQueue /\ UNCHANGED <<destroyQueue, pc, spawnRun, tasks>>
      /\ defQueue' = <<>> /\ completedQueue' = <<>> /\ finalizeQueue' = <<>>
      /\ activeIds' = {}
      /\ \/ UNCHANGED <<mainQueue, transfers>>
         \/ CancelAll
  BY DEF Join, GameModeRestart, Leave, Idle, ClientUnchanged, RequestClearAll
<1>2. tasks = <<>> BY <1>1 DEF LoadInv, PcTypes, ComingNow, InRun
<1>3. \A f \in Files : transfers[f] = None BY <1>1 DEF Waiting
<1>4. ASSUME CancelAll
      PROVE  mainQueue' = <<>> /\ \A f \in Files : transfers'[f] = None
  <2>1. mainQueue' = mainQueue \o ToldTasks(Files) /\ transfers' = Without(Files)
    BY <1>4 DEF CancelAll
  <2>2. ToldTasks(Files) = <<>>
    <3>1. ToldTasks(Files) \in Seq(TasksOf(DOMAIN jobs))
      BY ToldType DEF LoadInv
    <3>2. DOMAIN ToldTasks(Files) = {}
      <4>1. IsFiniteSet({}) /\ Cardinality({}) = 0 BY FS_EmptySet
      <4>2. DOMAIN SetToSeq({}) = 1..0 BY <4>1, SetToSeqType
      <4> QED BY <1>1, <4>2 DEF ToldTasks
    <3> QED BY <3>1, <3>2
  <2>3. <<>> \o <<>> = <<>> OBVIOUS
  <2>4. \A f \in Files : Without(Files)[f] = None BY DEF Without
  <2> QED BY <1>1, <2>1, <2>2, <2>3, <2>4
<1>5. mainQueue' = <<>> /\ \A f \in Files : transfers'[f] = None
  BY <1>1, <1>3, <1>4
<1>6. tasks' = <<>> BY <1>1, <1>2
<1> QED BY <1>1, <1>5, <1>6, AfreshComing

\* RPC_InitGame: the session goes on as it is, or what was asked for between the
\* connection and the RPC is alone and comes to nothing that counts.
LEMMA InitGameComing ==
  ASSUME LoadInv, LoadInv', ComingNow, InitGame
  PROVE  ComingNow'
<1>1. /\ initGame = TRUE /\ initGame' = FALSE
      /\ UNCHANGED <<corrupt, jobs, tasks, pc, spawnRun, stored, loaded,
                     destroyQueue, gone, mainQueue, transfers>>
      /\ \/ UNCHANGED <<defQueue, completedQueue, finalizeQueue, clearAll,
                        activeIds>>
         \/ RequestClearAll
  BY DEF InitGame, ClientUnchanged, LoadInv, SessionTypes
<1>2. JobTypes /\ PcTypes BY DEF LoadInv
<1>3. /\ Tokens \in Seq(TasksOf(DOMAIN jobs)) /\ defQueue \in Seq(DOMAIN jobs)
      /\ jobs \in Seq(JobRecords)
  BY <1>2, TokenFacts DEF JobTypes
<1>4. Tokens' = Tokens BY <1>1 DEF Tokens
<1>5. InRun' /\ PutOff' /\ Entered(jobs, transfers)'
  BY <1>1 DEF ComingNow, InRun, PutOff
<1>6. \A m \in Models \ gone' : Whole(m)' => m \notin gone /\ Whole(m)
  BY <1>1 DEF Whole
<1>7. CASE UNCHANGED <<defQueue, completedQueue, finalizeQueue, clearAll, activeIds>>
  <2>1. Starters' = Starters /\ Ended' = Ended BY <1>4, <1>7 DEF Starters, Ended
  <2>2. ASSUME NEW m \in Models, Coming(m) PROVE Coming(m)'
    <3> DEFINE w == View(jobs, transfers, Starters, m)
               won == (loaded[m] # None /\ ~clearAll)
                          \/ \E j \in Ended : jobs[j].model = m
               act == m \in activeIds
    <3>1. /\ Fate(w, initGame, act, won)
          /\ \A j \in Ended : jobs[j].model = m => Essential(jobs[j])
      BY <2>2 DEF Coming, Good
    <3>2. w' = w /\ won' = won /\ act' = act BY <1>1, <1>7, <2>1
    <3> HIDE DEF w, won, act
    <3>3. Fate(w, initGame', act, won) BY <1>1, <3>1 DEF Fate
    <3>4. Good(m, jobs, transfers, Starters, Ended, loaded[m] # None /\ ~clearAll)'
      BY <1>1, <1>7, <2>1, <3>1, <3>3 DEF Good, w, won, act
    <3>5. Tidy(jobs, Tokens, defQueue, transfers, m)' /\ m \notin destroyQueue'
      BY <1>1, <1>4, <1>7, <2>2 DEF Coming
    <3> QED BY <3>4, <3>5 DEF Coming
  <2>3. Clearing' BY <1>1, <1>7 DEF ComingNow, Clearing
  <2> QED BY <1>5, <1>6, <2>2, <2>3 DEF ComingNow
<1>8. CASE RequestClearAll
  <2>1. /\ defQueue' = <<>> /\ completedQueue' = <<>> /\ finalizeQueue' = <<>>
        /\ clearAll' = TRUE /\ activeIds' = {}
    BY <1>8 DEF RequestClearAll
  <2>2. Starters' \subseteq Starters /\ Ended' = {}
    BY <1>4, <2>1 DEF Starters, Ended, Members
  <2>3. ASSUME NEW m \in Models, Coming(m) PROVE Coming(m)'
    <3> DEFINE w == View(jobs, transfers, Starters, m)
               v == View(jobs, transfers, Starters', m)
    <3>1. Course(w) /\ Alone(w) BY <1>1, <2>3 DEF Coming, Good, Fate
    <3>2. Dropped(w, v) BY <1>3, <2>2, DroppedView
    <3>3. \A j \in DOMAIN w : w[j] \in Rows
      <4>0. jobs \in Seq(JobRecords) BY <1>3
      <4> HIDE DEF w
      <4>1. \A j \in DOMAIN View(jobs, transfers, Starters, m) :
               View(jobs, transfers, Starters, m)[j] \in Rows
        BY ONLY ViewRows, <4>0
      <4> QED BY <4>1 DEF w
    <3> HIDE DEF w, v
    <3>4. Course(v) /\ Alone(v) BY <3>1, <3>2, <3>3, DroppedGoes
    <3>5. ASSUME NEW won PROVE Fate(v, FALSE, FALSE, won) BY <3>4 DEF Fate
    <3>6. Good(m, jobs, transfers, Starters, Ended, loaded[m] # None /\ ~clearAll)'
      <4>1. (m \in activeIds') = FALSE BY <2>1
      <4>2. View(jobs', transfers', Starters', m) = v BY <1>1 DEF v
      <4> QED BY <1>1, <2>2, <3>5, <4>1, <4>2 DEF Good
    <3>7. Tidy(jobs', Tokens', defQueue', transfers', m)
      <4>1. Tidy(jobs, Tokens, defQueue, transfers, m) BY <2>3 DEF Coming
      <4>2. Tidy(jobs, Tokens, <<>>, transfers, m)
        BY <1>3, <4>1, TidyKept
      <4> QED BY <1>1, <1>4, <2>1, <4>2
    <3>8. m \notin destroyQueue' BY <1>1, <2>3 DEF Coming
    <3> QED BY <3>6, <3>7, <3>8 DEF Coming
  <2>4. Clearing'
    <3>1. pc # "definitions" BY <1>1 DEF ComingNow, PutOff
    <3> QED BY <1>1, <1>2, <2>1, <3>1 DEF Clearing, PcTypes
  <2> QED BY <1>5, <1>6, <2>3, <2>4 DEF ComingNow
<1> QED BY <1>1, <1>7, <1>8

-----------------------------------------------------------------------------
(* All of them. *)

\* At the start nothing is under way.
LEMMA ComingInitially == Init => ComingInv
<1> SUFFICES ASSUME Init PROVE ComingInv OBVIOUS
<1>1. Tokens = <<>>
  <2>1. <<>> \o <<>> = <<>> OBVIOUS
  <2> QED BY <2>1 DEF Tokens, Init
<1>2. Starters = {} /\ Ended = {}
  BY <1>1 DEF Starters, Starting, Members, Ended, Init
<1>3. \A f \in Files : transfers[f] = None BY DEF Init
<1>4. ASSUME NEW m \in Models PROVE Coming(m)
  <2> DEFINE v == View(jobs, transfers, {}, m)
  <2>1. ASSUME NEW won PROVE Fate(v, initGame, FALSE, won) BY <1>3, NothingFate
  <2>2. (m \in activeIds) = FALSE BY DEF Init
  <2>3. View(jobs, transfers, Starters, m) = v BY <1>2
  <2> HIDE DEF v
  <2>4. Good(m, jobs, transfers, Starters, Ended, loaded[m] # None /\ ~clearAll)
    BY <1>2, <2>1, <2>2, <2>3 DEF Good
  <2>5. Tidy(jobs, Tokens, defQueue, transfers, m) BY <1>1 DEF Tidy, Init
  <2>6. m \notin destroyQueue BY DEF Init
  <2> QED BY <2>4, <2>5, <2>6 DEF Coming
<1>5. Clearing /\ PutOff /\ InRun BY DEF Clearing, PutOff, InRun, Init
<1>6. Entered(jobs, transfers) BY <1>3 DEF Entered
<1>7. failures = 0 BY DEF Init
<1> QED BY <1>4, <1>5, <1>6, <1>7 DEF ComingNow, ComingInv

\* Only a transfer that fails counts.
LEMMA FailuresStep ==
  ASSUME LoadInv, [Next]_vars, failures \in Nat
  PROVE  /\ failures' \in Nat /\ (failures' = 0 => failures = 0)
         /\ failures' = 0 => ~\E f \in Files : TransferRefused(f) \/ TransferFails(f)
<1>1. CASE \E f \in Files : TransferRefused(f) \/ TransferFails(f)
  <2>1. failures' = failures + 1 BY <1>1 DEF TransferRefused, TransferFails
  <2> QED BY <2>1
<1>2. CASE ~\E f \in Files : TransferRefused(f) \/ TransferFails(f)
  <2>1. UNCHANGED failures
    <3>1. CASE OnServer BY <3>1 DEF OnServer
    <3>2. CASE Receive BY <3>2 DEF Receive
    <3>3. CASE \E f \in Files : TransferEnds(f) \/ ManualRetry(f)
      BY <3>3 DEF TransferEnds, ManualRetry
    <3>4. CASE MainThread
      BY <3>4 DEF MainThread, BeginFrame, RunTask, RunSpawnTask,
                  ProcessPendingClearAll, ProcessPendingDefinitions,
                  ProcessCompletedDownloads, ProcessPendingFinalizations,
                  ProcessPendingDestructions
    <3>5. CASE Join \/ InitGame \/ GameModeRestart \/ Leave
      BY <3>5 DEF Join, InitGame, GameModeRestart, Leave, ClientUnchanged
    <3>6. CASE Spawn \/ \E m \in Models : Use(m)
      BY <3>6 DEF Spawn, Use
    <3>7. CASE UNCHANGED vars BY <3>7 DEF vars
    <3> QED BY <1>2, <3>1, <3>2, <3>3, <3>4, <3>5, <3>6, <3>7 DEF Next
  <2> QED BY <1>2, <2>1
<1> QED BY <1>1, <1>2

\* A step at a time, for as long as nobody is hurried.
LEMMA ComingStep ==
  ASSUME Hurried = FALSE
  PROVE  LoadInv /\ LoadInv' /\ ComingInv /\ [Next]_vars => ComingInv'
<1> SUFFICES ASSUME LoadInv, LoadInv', ComingInv, [Next]_vars PROVE ComingInv'
  OBVIOUS
<1>1. /\ failures' \in Nat /\ (failures' = 0 => failures = 0)
      /\ failures' = 0 => ~\E f \in Files : TransferRefused(f) \/ TransferFails(f)
  BY FailuresStep DEF ComingInv
<1>2. ASSUME failures' = 0 PROVE ComingNow'
  <2>0. ComingNow BY <1>1, <1>2 DEF ComingInv
  <2>1. CASE OnServer \/ (\E m \in Models : Use(m)) \/ UNCHANGED vars
    BY <2>0, <2>1, QuietComing
  <2>2. CASE Receive BY <2>0, <2>2, ReceiveComing
  <2>3. ASSUME NEW f \in Files, TransferEnds(f) PROVE ComingNow'
    BY <2>0, <2>3, EndsComing
  <2>4. ASSUME NEW f \in Files, ManualRetry(f) PROVE FALSE
    BY <2>0, <2>4 DEF ManualRetry, ComingNow, Entered
  <2>5. CASE MainThread
    <3>1. CASE BeginFrame BY <2>0, <3>1, BeginFrameComing
    <3>2. CASE RunTask BY <2>0, <3>2, RunTaskComing
    <3>3. CASE RunSpawnTask BY <2>0, <3>3, RunSpawnComing
    <3>4. CASE ProcessPendingClearAll BY <2>0, <3>4, ClearAllComing
    <3>5. CASE ProcessPendingDefinitions BY <2>0, <3>5, DefinitionsComing
    <3>6. CASE ProcessCompletedDownloads BY <2>0, <3>6, CompletedComing
    <3>7. CASE ProcessPendingFinalizations BY <2>0, <3>7, FinalizationsComing
    <3>8. CASE ProcessPendingDestructions BY <2>0, <3>8, DestructionsComing
    <3> QED
      BY <2>5, <3>1, <3>2, <3>3, <3>4, <3>5, <3>6, <3>7, <3>8 DEF MainThread
  <2>6. CASE Join \/ GameModeRestart \/ Leave BY <2>0, <2>6, SessionComing
  <2>7. CASE InitGame BY <2>0, <2>7, InitGameComing
  <2>8. CASE Spawn BY <2>0, <2>8, SpawnComing
  <2> QED BY <1>1, <1>2, <2>1, <2>2, <2>3, <2>4, <2>5, <2>6, <2>7, <2>8 DEF Next
<1> QED BY <1>1, <1>2 DEF ComingInv

\* Where nothing is under way, no job leads: the model is there.
LEMMA ComingLoaded ==
  ASSUME LoadInv, ComingInv
  PROVE  DefinedIsLoaded
<1> SUFFICES ASSUME Rest, failures = 0, NEW m \in activeIds \ gone, Whole(m)
             PROVE  loaded[m] # None
  BY DEF DefinedIsLoaded
<1>1. ComingNow /\ m \in Models
  BY DEF ComingInv, LoadInv, JobTypes, SessionTypes
<1>2. /\ spawned /\ pc = "idle" /\ mainQueue = <<>> /\ clearAll = FALSE
      /\ completedQueue = <<>> /\ defQueue = <<>> /\ finalizeQueue = <<>>
      /\ \A f \in Files : transfers[f] # None => transfers[f].state = "failed"
  BY DEF Rest, HasWork, Waiting, LoadInv, ModelTypes
<1>3. tasks = <<>> BY <1>1, <1>2 DEF LoadInv, PcTypes, ComingNow, InRun
<1>4. Starters = {} /\ Ended = {}
  <2>1. <<>> \o <<>> = <<>> OBVIOUS
  <2>2. Tokens = <<>> BY <1>2, <1>3, <2>1 DEF Tokens
  <2> QED BY <1>2, <2>2 DEF Starters, Starting, Members, Ended
<1>5. \A f \in Files : transfers[f] = None BY <1>1, <1>2 DEF ComingNow, Entered
<1> DEFINE v == View(jobs, transfers, {}, m)
<1>6. LiveJobs(v) = {}
  BY <1>1, <1>5, NothingFate
<1>7. Fate(v, initGame, m \in activeIds, loaded[m] # None)
  <2>1. Good(m, jobs, transfers, Starters, Ended, loaded[m] # None /\ ~clearAll)
    BY <1>1 DEF ComingNow, Coming
  <2> DEFINE act == m \in activeIds
             won == (loaded[m] # None /\ ~clearAll) \/ \E j \in {} : jobs[j].model = m
             won2 == loaded[m] # None
  <2>2. Fate(v, initGame, act, won) BY <1>4, <2>1 DEF Good
  <2>3. won => won2 OBVIOUS
  <2> HIDE DEF v, act, won, won2
  <2>4. Fate(v, initGame, act, won2) BY <2>2, <2>3 DEF Fate
  <2> QED BY <2>4 DEF act, won2
<1> HIDE DEF v
<1> QED BY <1>6, <1>7 DEF Fate, Lead

-----------------------------------------------------------------------------
(* What a reader should know. *)

\* Server and client keep to their types together: what a handler takes from
\* the wire, from a task or from a queue names a job that exists, and the main
\* thread is never left in the tasks of a frame that has none
\* (ProcessPendingDefinitions to ProcessPendingDestructions, RPC_Spawn).
THEOREM TypeCorrect == Spec => []TypeOK
<1>1. LoadInv => TypeOK BY TypeGroups DEF LoadInv
<1> QED BY <1>1, LoadInvariant, PTL

\* However often a transfer's callbacks come, and whatever of the session ends
\* in between, a job waits for its finalization once and is finalized once
\* (pushToQueue and queuedForFinalize of Plugin.cpp).
THEOREM FinalizedAtMostOnce == Spec => []FinalizedOnce
<1>1. LoadInv => FinalizedOnce BY QueuedAtMostOnce DEF LoadInv
<1> QED BY <1>1, LoadInvariant, PTL

\* No failed file, destruction or end of a session unloads a model that a
\* binding counts (IsCustomModelCurrentlyInUse, m_destructionQueue).
THEOREM UsedModelsStay == Spec => []UsedIsKept
<1>1. LoadInv => UsedIsKept BY DEF LoadInv
<1> QED BY <1>1, LoadInvariant, PTL

\* What natives set of a committed definition arrives, in whatever order it is
\* set, defined, destroyed and defined again, and whenever the player comes and
\* leaves: once nothing is under way, the client has the offsets and the plate
\* that the getters return (SendCustomVehicleDefToAll, OnPlayerAuthorized,
\* HandleCustomVehicleDef).
THEOREM ConfigArrives ==
  ASSUME Plain
  PROVE  Spec => []ConfigAgrees
<1>1. Init => ConfigInv
  BY DEF Init, ServerInit, ConfigInv
<1>2. LoadInv /\ ConfigInv /\ [Next]_vars => ConfigInv'
  BY ConfigStep
<1>3. ASSUME LoadInv, ConfigInv PROVE ConfigAgrees
  <2> SUFFICES ASSUME Rest, NEW m \in Models, Told(m), NEW x \in Sent
               PROVE  modelConfig[m][x] = GetField(m, x)
    BY DEF ConfigAgrees, Sent
  <2>1. extended /\ wire = <<>> /\ defs[m] # None BY DEF Rest, Told
  <2>2. LeadsTo(<<>>, modelConfig[m][x], m, x, defs[m].fields[x])
    BY <1>3, <2>1 DEF ConfigInv
  <2>3. modelConfig[m][x] = defs[m].fields[x]
    <3>1. \A i \in 1..Len(<<>>) : FALSE OBVIOUS
    <3> QED BY <2>2, <3>1 DEF LeadsTo
  <2> QED BY <2>1, <2>3 DEF GetField, First
<1>4. LoadInv /\ ConfigInv => ConfigAgrees BY <1>3
<1> QED BY <1>1, <1>2, <1>4, LoadInvariant, PTL DEF Spec

\* A definition that the client was told of becomes a model, whether or not the
\* player has spawned, whatever of earlier sessions is still in a queue or being
\* cleared, and whatever else is destroyed meanwhile, if its files are whole, no
\* transfer has failed, and no session begins or ends while the client works
\* (HandleCustomVehicleDef to ProcessPendingClearAll).  Excepted is what the
\* server destroys, and what an earlier session left to destroy:
\* RequestClearAllCustomModels keeps m_destructionQueue.
THEOREM DefinitionsArrive ==
  ASSUME Hurried = FALSE
  PROVE  Spec => []DefinedIsLoaded
<1>1. LoadInv /\ LoadInv' /\ ComingInv /\ [Next]_vars => ComingInv'
  BY ComingStep
<1>2. LoadInv /\ ComingInv => DefinedIsLoaded BY ComingLoaded
<1> QED BY <1>1, <1>2, ComingInitially, LoadInvariant, PTL DEF Spec
=============================================================================
