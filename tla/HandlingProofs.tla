----------------------------- MODULE HandlingProofs -----------------------------
(***************************************************************************)
(* HandlingSync for every finite set of vehicles and every set of masses,  *)
(* any number of calls, rides and packets under way.                       *)
(*                                                                         *)
(* BlocksStay: no vehicle drives with a block of handling data that was    *)
(* freed, whatever the answers to IdReuse, RidesToTheEnd, SameFrame and    *)
(* EarlyPlayer.                                                            *)
(*                                                                         *)
(* ClientArrives: a client at rest drives as the server says, when ids are *)
(* not used again, the player leaves a vehicle before it goes, packets are *)
(* handled after the frame that finds a vehicle, and no handling is given  *)
(* to a player who is not authorized (Orderly).  Each of the four is       *)
(* needed: without it the code does lose handling.                         *)
(*                                                                         *)
(* Its invariant, SyncInv, says for the doors, the player, a vehicle's own *)
(* handling and its model's, each, that the client has what the server     *)
(* has, or that the last packet under way about it says so (Tells); and    *)
(* where a vehicle that has been in a frame is pointed.                    *)
(*                                                                         *)
(* And of ModelConfig, for files of any lines and length: HandlingCorrect, *)
(* PlatesCorrect, ScriptsCorrect and ConfigTypesCorrect.  What was made of *)
(* a file's lines is what its last line of each kind says (ConfigInv).     *)
(***************************************************************************)
EXTENDS HandlingSync, ModelConfig, TLAPS, FiniteSetTheorems,
        SequenceTheorems, WellFoundedInduction

\* What holds of the blocks and of the vehicles that are pointed at them.
Domains ==
    /\ pool \subseteq Vehicles /\ shown \subseteq Vehicles
    /\ DOMAIN own = Vehicles /\ DOMAIN applied = Vehicles
    /\ DOMAIN pending = Vehicles /\ DOMAIN binding = Vehicles
    /\ pointer \in [Vehicles -> {"own", "applied", "static"} \cup Models]
    /\ DOMAIN model = Models

\* The block of a vehicle is there; a model's block belongs to its own model,
\* and the vehicle has no other: ProcessModelMods and ResetModel find it.
Backed(v) ==
    /\ pointer[v] = "own" => own[v] # None
    /\ pointer[v] = "applied" => applied[v] # None
    /\ pointer[v] \in Models =>
           /\ pointer[v] = ModelOf(v) /\ own[v] = None /\ applied[v] = None
           /\ model[pointer[v]] # None

\* Unbind leaves the block of its model to vehicles that do not show it.
BlockInv ==
    /\ Domains
    /\ \A v \in pool \ strayed : Backed(v)
    /\ \A v \in shown : binding[v] # None

-----------------------------------------------------------------------------
LEMMA Distinct ==
    /\ "own" \notin Models /\ "applied" \notin Models /\ "static" \notin Models
    /\ None # Junk /\ None # Stock /\ None \notin Models
    /\ Base \in Models /\ Custom \in Models
BY HandlingAssumption DEF Models

LEMMA ModelOfIsModel == \A v : ModelOf(v) \in Models
BY Distinct DEF ModelOf

LEMMA DrivenIsNot == \A v : Driven(v) # None
BY Distinct DEF Driven, Dangling

LEMMA Kept == \A x, y : OrElse(x, y) = None => x = None /\ y = None
BY DEF OrElse

\* A vehicle whose block is there does not drive with what was freed.
LEMMA BackedHolds ==
  ASSUME Domains, NEW v \in pool, Backed(v)
  PROVE  ~Dangling(v)
<1>1. v \in Vehicles /\ pointer[v] \in {"own", "applied", "static"} \cup Models
  BY DEF Domains
<1>2. CASE pointer[v] = "own"
  BY <1>2 DEF Backed, Dangling, Held
<1>3. CASE pointer[v] = "applied"
  BY <1>3 DEF Backed, Dangling, Held
<1>4. CASE pointer[v] = "static"
  BY <1>4, Distinct DEF Dangling, Held
<1>5. CASE pointer[v] \in Models
  BY <1>5, Distinct DEF Backed, Dangling, Held
<1> QED BY <1>1, <1>2, <1>3, <1>4, <1>5

LEMMA InitBlocks == Init => BlockInv
<1> SUFFICES ASSUME Init PROVE BlockInv
  OBVIOUS
<1>1. Domains
  BY DEF Init, Domains
<1> QED BY <1>1 DEF Init, BlockInv

\* What disturbs no block, pointer or binding.
LEMMA SameBlocks ==
  ASSUME BlockInv,
         UNCHANGED <<pointer, own, model, applied, binding>>,
         DOMAIN pending' = Vehicles,
         pool' \subseteq pool, shown' \subseteq shown, pool' \cap strayed \subseteq strayed'
  PROVE  BlockInv'
<1>1. \A v : Backed(v)' <=> Backed(v)
  BY DEF Backed, ModelOf
<1> QED BY <1>1 DEF BlockInv, Domains

LEMMA NativeBlocks ==
  ASSUME BlockInv, Natives
  PROVE  BlockInv'
<1>1. UNCHANGED clientVars
  BY DEF Natives, OnCreateVehicle, OnDestroyVehicle, SetVehicleHandling,
         ResetVehicleHandling, BroadcastVehicleCorrection, SetVehicleDoorMissing,
         BindVehicle, UnbindVehicle, OnVehicleStreamIn, StreamOut,
         SetModelHandling, ResetModelHandling, SetPlayerHandling,
         ResetPlayerHandling, ResetAll, ProcessTick, OnPlayerAuthorized
<1> QED BY <1>1, SameBlocks
        DEF clientVars, worldVars, blocks, bindVars, BlockInv, Domains

\* One vehicle is pointed elsewhere, and the others keep what they have.
LEMMA OtherBlocks ==
  ASSUME BlockInv, NEW v \in Vehicles,
         pool' \subseteq pool \cup {v}, shown' \subseteq shown \cup {v},
         strayed \ {v} \subseteq strayed' \cup (Vehicles \ pool'),
         UNCHANGED model,
         DOMAIN own' = Vehicles, DOMAIN applied' = Vehicles,
         DOMAIN pending' = Vehicles, DOMAIN binding' = Vehicles,
         pointer' \in [Vehicles -> {"own", "applied", "static"} \cup Models],
         \A w \in Vehicles \ {v} :
             /\ pointer'[w] = pointer[w] /\ own'[w] = own[w]
             /\ applied'[w] = applied[w] /\ binding'[w] = binding[w],
         v \in pool' \ strayed' => Backed(v)',
         v \in shown' => binding'[v] # None
  PROVE  BlockInv'
<1>1. Domains'
  BY DEF BlockInv, Domains
<1>2. ASSUME NEW w \in Vehicles \ {v}
      PROVE  Backed(w)' <=> Backed(w)
  BY <1>2 DEF Backed, ModelOf
<1>3. \A w \in pool' \ strayed' : Backed(w)'
  BY <1>2 DEF BlockInv, Domains
<1>4. \A w \in shown' : binding'[w] # None
  BY DEF BlockInv, Domains
<1> QED BY <1>1, <1>3, <1>4 DEF BlockInv

-----------------------------------------------------------------------------
(* Packets. *)

LEMMA VehicleModsBlocks ==
  ASSUME BlockInv, ProcessVehicleMods
  PROVE  BlockInv'
<1> PICK v : v = Msg.vehicle
  OBVIOUS
<1>1. UNCHANGED <<pool, model, applied, binding, shown>>
  BY DEF ProcessVehicleMods, worldVars, bindVars
<1>2. CASE v \in pool
  <2> PICK mass : mass = OrElse(Msg.mods.mass, OrElse(own[v], Driven(v)))
    OBVIOUS
  <2>1. /\ own' = [own EXCEPT ![v] = mass]
        /\ pointer' = [pointer EXCEPT ![v] = "own"]
        /\ strayed' = strayed \ {v} /\ UNCHANGED pending
    BY <1>2 DEF ProcessVehicleMods
  <2>2. mass # None
    BY DrivenIsNot, Kept
  <2>3. v \in Vehicles
    BY <1>2 DEF BlockInv, Domains
  <2>4. pointer'[v] = "own" /\ own'[v] = mass /\ "own" \notin Models
    BY <2>1, <2>3, Distinct DEF BlockInv, Domains
  <2>5. Backed(v)'
    BY <2>2, <2>4 DEF Backed
  <2> QED BY <1>1, <2>1, <2>3, <2>5, OtherBlocks DEF BlockInv, Domains
<1>3. CASE v \notin pool
  BY <1>1, <1>3, SameBlocks DEF ProcessVehicleMods, BlockInv, Domains
<1> QED BY <1>2, <1>3

LEMMA ResetVehicleBlocks ==
  ASSUME BlockInv, ResetVehicle
  PROVE  BlockInv'
<1> PICK v : v = Msg.vehicle
  OBVIOUS
<1>1. UNCHANGED <<pool, model, applied, binding, shown>>
  BY DEF ResetVehicle, worldVars, bindVars
<1>2. /\ own' = [own EXCEPT ![v] = None] /\ DOMAIN pending' = Vehicles
      /\ pointer' = IF own[v] # None /\ v \in pool
                    THEN [pointer EXCEPT ![v] = Fallback(v)] ELSE pointer
      /\ strayed' = IF own[v] = None \/ v \notin pool THEN strayed
                    ELSE IF pointer'[v] \in Models \ {ModelOf(v)}
                    THEN strayed \cup {v} ELSE strayed \ {v}
  BY DEF ResetVehicle, BlockInv, Domains
<1>3. CASE v \notin Vehicles
  <2>1. v \notin pool /\ UNCHANGED <<pointer, strayed>>
    BY <1>2, <1>3 DEF BlockInv, Domains
  <2>2. DOMAIN own' = Vehicles /\ \A w \in Vehicles : own'[w] = own[w]
    BY <1>2, <1>3 DEF BlockInv, Domains
  <2>3. \A w \in Vehicles : Backed(w)' <=> Backed(w)
    BY <1>1, <2>1, <2>2 DEF Backed, ModelOf
  <2> QED BY <1>1, <1>2, <2>1, <2>2, <2>3 DEF BlockInv, Domains
<1>4. CASE v \in Vehicles /\ (own[v] = None \/ v \notin pool)
  <2>1. v \in pool \ strayed => Backed(v)
    BY DEF BlockInv
  <2>2. v \in pool \ strayed => Backed(v)'
    BY <1>1, <1>2, <1>4, <2>1 DEF Backed, ModelOf, BlockInv, Domains
  <2> QED BY <1>1, <1>2, <1>4, <2>2, OtherBlocks DEF BlockInv, Domains
<1>5. CASE v \in Vehicles /\ own[v] # None /\ v \in pool
  <2>1. /\ pointer'[v] = Fallback(v) /\ own'[v] = None
        /\ pointer' = [pointer EXCEPT ![v] = Fallback(v)]
    BY <1>2, <1>5 DEF BlockInv, Domains
  <2>2. Fallback(v) \in {"applied", "static"} \cup Models
    BY Distinct DEF Fallback, ModelOrStatic
  <2>3. v \notin strayed' => Backed(v)'
    <3>1. CASE applied[v] # None
      BY <1>1, <2>1, <3>1, Distinct DEF Backed, Fallback
    <3>2. CASE applied[v] = None
      <4>1. pointer'[v] = ModelOrStatic(Base)
        BY <2>1, <3>2 DEF Fallback
      <4>2. v \notin strayed' => pointer'[v] \notin Models \ {ModelOf(v)}
        BY <1>2, <1>5
      <4>3. ModelOf(v)' = ModelOf(v)
        BY <1>1 DEF ModelOf
      <4> QED BY <1>1, <2>1, <3>2, <4>1, <4>2, <4>3, Distinct DEF Backed, ModelOrStatic
    <3> QED BY <3>1, <3>2
  <2>4. pointer' \in [Vehicles -> {"own", "applied", "static"} \cup Models]
    BY <2>1, <2>2 DEF BlockInv, Domains
  <2> QED BY <1>1, <1>2, <1>5, <2>1, <2>3, <2>4, OtherBlocks DEF BlockInv, Domains
<1> QED BY <1>3, <1>4, <1>5

\* A vehicle follows its model when it has no block of another kind: the
\* others that drive with the block are counted out.
LEMMA ModelModsBlocks ==
  ASSUME BlockInv, ProcessModelMods
  PROVE  BlockInv'
<1> PICK m : m = Msg.model
  OBVIOUS
<1> PICK mass : mass = OrElse(Msg.mods.mass, OrElse(model[m], Stock))
  OBVIOUS
<1>1. UNCHANGED <<pool, own, applied, binding, pending, shown>>
  BY DEF ProcessModelMods, worldVars, bindVars
<1>2. CASE m = Base \/ ready
  <2>1. /\ model' = [model EXCEPT ![m] = mass]
        /\ pointer' = [v \in Vehicles |-> IF Follows(v, m) THEN m ELSE pointer[v]]
        /\ strayed' = {v \in strayed : ~Follows(v, m)}
    BY <1>2 DEF ProcessModelMods
  <2>2. mass # None
    BY Distinct, Kept
  <2>3. \A v : /\ ModelOf(v)' = ModelOf(v)
               /\ Follows(v, m) => m \in Models
    BY <1>1, ModelOfIsModel DEF ModelOf, Follows
  <2>4. DOMAIN model' = Models /\ \A n \in Models : model[n] # None => model'[n] # None
    BY <2>1, <2>2 DEF BlockInv, Domains
  <2>5. ASSUME NEW v \in pool \ strayed'
        PROVE  Backed(v)'
    <3>1. v \in Vehicles
      BY <1>1, <2>5 DEF BlockInv, Domains
    <3>2. CASE Follows(v, m)
      <4>1. pointer'[v] = m /\ m \in Models /\ model'[m] # None
        BY <2>1, <2>2, <2>3, <3>1, <3>2 DEF BlockInv, Domains
      <4> QED BY <1>1, <2>3, <3>2, <4>1, Distinct DEF Backed, Follows
    <3>3. CASE ~Follows(v, m)
      <4>1. Backed(v) /\ pointer'[v] = pointer[v]
        BY <2>1, <2>5, <3>1, <3>3 DEF BlockInv
      <4> QED BY <1>1, <2>3, <2>4, <4>1 DEF Backed
    <3> QED BY <3>2, <3>3
  <2>6. pointer' \in [Vehicles -> {"own", "applied", "static"} \cup Models]
    BY <2>1, <2>3 DEF BlockInv, Domains
  <2> QED BY <1>1, <2>4, <2>5, <2>6 DEF BlockInv, Domains
<1>3. CASE ~(m = Base \/ ready)
  BY <1>1, <1>3, SameBlocks DEF ProcessModelMods, BlockInv, Domains
<1> QED BY <1>2, <1>3

\* The vehicles that follow the model are led away before its block goes.
LEMMA ResetModelBlocks ==
  ASSUME BlockInv, ResetModel
  PROVE  BlockInv'
<1> PICK m : m = Msg.model
  OBVIOUS
<1>1. UNCHANGED <<pool, own, applied, binding, pending, shown, strayed>>
  BY DEF ResetModel, worldVars, bindVars
<1>2. CASE model[m] = None
  BY <1>1, <1>2, SameBlocks DEF ResetModel, BlockInv, Domains
<1>3. CASE model[m] # None
  <2>1. /\ model' = [model EXCEPT ![m] = None]
        /\ pointer' = [v \in Vehicles |-> IF Follows(v, m) THEN "static" ELSE pointer[v]]
    BY <1>3 DEF ResetModel
  <2>2. \A v : ModelOf(v)' = ModelOf(v)
    BY <1>1 DEF ModelOf
  <2>3. ASSUME NEW v \in pool \ strayed
        PROVE  Backed(v)'
    <3>1. v \in Vehicles /\ Backed(v)
      BY <2>3 DEF BlockInv, Domains
    <3>2. CASE Follows(v, m)
      BY <2>1, <3>1, <3>2, Distinct DEF Backed
    <3>3. CASE ~Follows(v, m)
      <4>1. pointer'[v] = pointer[v]
        BY <2>1, <3>1, <3>3
      <4>2. pointer[v] \in Models => pointer[v] # m
        BY <2>3, <3>1, <3>3 DEF Backed, Follows
      <4>3. \A n \in Models \ {m} : model'[n] = model[n]
        BY <2>1 DEF BlockInv, Domains
      <4> QED BY <1>1, <2>2, <3>1, <4>1, <4>2, <4>3 DEF Backed
    <3> QED BY <3>2, <3>3
  <2> QED BY <1>1, <2>1, <2>3 DEF BlockInv, Domains
<1> QED BY <1>2, <1>3

LEMMA ApplyBlocks ==
  ASSUME BlockInv, NEW v, NEW mass, ApplyPlayer(v, mass),
         UNCHANGED <<pool, own, model, binding, pending, shown>>
  PROVE  BlockInv'
<1>1. CASE v \in pool /\ own[v] = None /\ applied[v] = None /\ mass # None /\ v # None
  <2>1. /\ applied' = [applied EXCEPT ![v] = mass]
        /\ pointer' = [pointer EXCEPT ![v] = "applied"]
        /\ strayed' = strayed \ {v}
    BY <1>1 DEF ApplyPlayer
  <2>2. v \in Vehicles
    BY <1>1 DEF BlockInv, Domains
  <2>3. pointer'[v] = "applied" /\ applied'[v] = mass
    BY <2>1, <2>2 DEF BlockInv, Domains
  <2>4. Backed(v)'
    BY <1>1, <2>3, Distinct DEF Backed
  <2> QED BY <2>1, <2>2, <2>4, OtherBlocks DEF BlockInv, Domains
<1>2. CASE ~(v \in pool /\ own[v] = None /\ applied[v] = None /\ mass # None /\ v # None)
  BY <1>2, SameBlocks DEF ApplyPlayer, BlockInv, Domains
<1> QED BY <1>1, <1>2

LEMMA PlayerModsBlocks ==
  ASSUME BlockInv, ProcessPlayerMods
  PROVE  BlockInv'
<1>1. ApplyPlayer(ride, Msg.mass)
  BY DEF ProcessPlayerMods
<1>2. UNCHANGED <<pool, own, model, binding, pending, shown>>
  BY DEF ProcessPlayerMods, worldVars, bindVars
<1> QED BY <1>1, <1>2, ApplyBlocks

LEMMA ResetPlayerBlocks ==
  ASSUME BlockInv, ResetPlayer
  PROVE  BlockInv'
<1> PICK with : with = IF player # None THEN {v \in Vehicles : applied[v] # None} ELSE {}
  OBVIOUS
<1>1. UNCHANGED <<pool, own, model, binding, pending, shown>>
  BY DEF ResetPlayer, worldVars, bindVars
<1>2. /\ applied' = [v \in Vehicles |-> IF v \in with THEN None ELSE applied[v]]
      /\ pointer' = [v \in Vehicles |-> IF v \in with \cap pool
                                        THEN ModelOrStatic(Base) ELSE pointer[v]]
      /\ strayed' = {v \in strayed : v \notin with \cap pool}
                    \cup {v \in with \cap pool :
                             own[v] # None \/ Stray(v, pointer'[v], ModelOf(v))}
  BY DEF ResetPlayer
<1>3. ModelOrStatic(Base) \in {"static"} \cup Models
  BY Distinct DEF ModelOrStatic
<1>4. \A v : ModelOf(v)' = ModelOf(v)
  BY <1>1 DEF ModelOf
<1>5. ASSUME NEW v \in pool \ strayed'
      PROVE  Backed(v)'
  <2>1. v \in Vehicles
    BY <1>1, <1>5 DEF BlockInv, Domains
  <2>2. CASE v \in with
    <3>1. /\ pointer'[v] = ModelOrStatic(Base) /\ applied'[v] = None /\ own[v] = None
          /\ ~Stray(v, pointer'[v], ModelOf(v))
      BY <1>2, <1>5, <2>1, <2>2
    <3> QED BY <1>1, <1>4, <3>1, Distinct DEF Backed, ModelOrStatic, Stray
  <2>3. CASE v \notin with
    <3>1. pointer'[v] = pointer[v] /\ applied'[v] = applied[v] /\ Backed(v)
      BY <1>2, <1>5, <2>1, <2>3 DEF BlockInv
    <3> QED BY <1>1, <1>4, <3>1 DEF Backed
  <2> QED BY <2>2, <2>3
<1> QED BY <1>1, <1>2, <1>3, <1>5 DEF BlockInv, Domains

LEMMA PacketBlocks ==
  ASSUME BlockInv, Packets
  PROVE  BlockInv'
<1>1. CASE ReceiveTask
  BY <1>1, SameBlocks
     DEF ReceiveTask, worldVars, blocks, bindVars, BlockInv, Domains
<1> QED BY <1>1, VehicleModsBlocks, ResetVehicleBlocks, ModelModsBlocks,
           ResetModelBlocks, PlayerModsBlocks, ResetPlayerBlocks DEF Packets

\* ACTION_RESET_ALL frees all blocks but the vehicles' that are counted out.
LEMMA RejoinBlocks ==
  ASSUME BlockInv, Rejoin
  PROVE  BlockInv'
<1>1. /\ pool' = pool /\ strayed' = pool /\ shown' = {}
      /\ DOMAIN own' = Vehicles /\ DOMAIN applied' = Vehicles
      /\ DOMAIN pending' = Vehicles /\ DOMAIN binding' = Vehicles
      /\ DOMAIN model' = Models
  BY DEF Rejoin, worldVars
<1>2. ASSUME NEW v \in Vehicles
      PROVE  pointer'[v] \in {"own", "applied", "static"} \cup Models
  <2>1. pointer'[v] \in {"static", pointer[v], Fallback(v)}
    BY DEF Rejoin
  <2>2. Fallback(v) \in {"applied", "static"} \cup Models
    BY Distinct DEF Fallback, ModelOrStatic
  <2> QED BY <2>1, <2>2 DEF BlockInv, Domains
<1>3. pointer' \in [Vehicles -> {"own", "applied", "static"} \cup Models]
  <2>1. pointer' = [v \in Vehicles |-> pointer'[v]]
    BY DEF Rejoin
  <2> QED BY <1>2, <2>1
<1> QED BY <1>1, <1>3 DEF BlockInv, Domains

-----------------------------------------------------------------------------
(* Frames, and what SA-MP and the player do. *)

\* What OnVehicleStreamIn points a vehicle at is there.
LEMMA StreamedBlocks ==
  ASSUME BlockInv, NEW v \in pool, StreamIn(v),
         strayed' = StrayedIn(v),
         UNCHANGED <<model, applied, binding>>
  PROVE  /\ DOMAIN own' = Vehicles /\ DOMAIN pending' = Vehicles
         /\ pointer' \in [Vehicles -> {"own", "applied", "static"} \cup Models]
         /\ \A w \in Vehicles \ {v} : pointer'[w] = pointer[w] /\ own'[w] = own[w]
         /\ v \notin strayed' => Backed(v)'
<1> DEFINE mass == OrElse(pending[v].mass, OrElse(own[v], Driven(v)))
<1>1. v \in Vehicles /\ pointer[v] \in {"own", "applied", "static"} \cup Models
  BY DEF BlockInv, Domains
<1>2. StreamedPointer(v) \in {"own", "static", pointer[v], ModelOf(v)}
  BY DEF StreamedPointer
<1>3. /\ own' = IF Waiting(v) THEN [own EXCEPT ![v] = mass] ELSE own
      /\ pointer' = [pointer EXCEPT ![v] = StreamedPointer(v)]
      /\ pending' = [pending EXCEPT ![v] = NoMods]
  BY DEF StreamIn
<1>4. mass # None
  BY DrivenIsNot, Kept
<1> HIDE DEF mass
<1>5. /\ DOMAIN own' = Vehicles /\ DOMAIN pending' = Vehicles
      /\ pointer' \in [Vehicles -> {"own", "applied", "static"} \cup Models]
      /\ \A w \in Vehicles \ {v} : pointer'[w] = pointer[w] /\ own'[w] = own[w]
      /\ pointer'[v] = StreamedPointer(v)
      /\ own'[v] = IF Waiting(v) THEN mass ELSE own[v]
  BY <1>1, <1>2, <1>3, ModelOfIsModel DEF BlockInv, Domains
<1>6. ModelOf(v)' = ModelOf(v)
  BY DEF ModelOf
<1>7. ASSUME v \notin strayed'
      PROVE  Backed(v)'
  <2>1. CASE Waiting(v) \/ own[v] # None
    <3>1. pointer'[v] = "own" /\ own'[v] # None
      BY <1>4, <1>5, <2>1 DEF StreamedPointer
    <3> QED BY <3>1, Distinct DEF Backed
  <2>2. CASE /\ ~(Waiting(v) \/ own[v] # None)
             /\ StreamedPointer(v) = pointer[v]
    <3>1. v \notin strayed /\ pointer'[v] = pointer[v] /\ own'[v] = own[v]
      BY <1>5, <1>7, <2>2 DEF StrayedIn
    <3>2. Backed(v)
      BY <3>1 DEF BlockInv
    <3> QED BY <1>6, <3>1, <3>2 DEF Backed
  <2>3. CASE /\ ~(Waiting(v) \/ own[v] # None)
             /\ StreamedPointer(v) # pointer[v]
    <3>1. \/ pointer'[v] = "static"
          \/ pointer'[v] = ModelOf(v) /\ model'[ModelOf(v)] # None
      BY <1>5, <2>3 DEF StreamedPointer
    <3>2. pointer'[v] \in Models => applied'[v] = None
      BY <1>1, <1>5, <1>7, <2>3 DEF StrayedIn
    <3>3. own'[v] = None
      BY <1>5, <2>3
    <3> QED BY <1>6, <3>1, <3>2, <3>3, ModelOfIsModel, Distinct DEF Backed
  <2> QED BY <2>1, <2>2, <2>3
<1> QED BY <1>5, <1>7

LEMMA ProcessBlocks ==
  ASSUME BlockInv, NEW v \in Vehicles, Process(v)
  PROVE  BlockInv'
<1>1. /\ v \in pool /\ binding[v] # None /\ StreamIn(v)
      /\ shown' = shown \cup {v} /\ strayed' = StrayedIn(v)
      /\ UNCHANGED <<pool, model, applied, binding>>
  BY DEF Process, StrayedIn, worldVars
<1>2. strayed \ {v} \subseteq strayed'
  BY <1>1 DEF StrayedIn
<1> QED BY <1>1, <1>2, StreamedBlocks, OtherBlocks DEF BlockInv, Domains

LEMMA ArriveBlocks ==
  ASSUME BlockInv, NEW v \in Vehicles, Arrive(v)
  PROVE  BlockInv'
<1>1. /\ v \in pool /\ StreamIn(v) /\ strayed' = StrayedIn(v)
      /\ UNCHANGED <<pool, model, applied, binding, shown>>
  BY DEF Arrive, StrayedIn, bindVars
<1>2. strayed \ {v} \subseteq strayed'
  BY <1>1 DEF StrayedIn
<1> QED BY <1>1, <1>2, StreamedBlocks, OtherBlocks DEF BlockInv, Domains

LEMMA AppearBlocks ==
  ASSUME BlockInv, NEW v \in Vehicles, Appear(v)
  PROVE  BlockInv'
<1>1. /\ pool' = pool \cup {v} /\ strayed' = strayed \ {v}
      /\ pointer' = [pointer EXCEPT ![v] = "static"]
      /\ UNCHANGED <<own, model, applied, pending, binding, shown>>
  BY DEF Appear, blocks, bindVars
<1>2. pointer'[v] = "static"
  BY <1>1 DEF BlockInv, Domains
<1>3. Backed(v)'
  BY <1>2, Distinct DEF Backed
<1> QED BY <1>1, <1>3, OtherBlocks DEF BlockInv, Domains

\* A binding that comes or goes leaves a vehicle with another model's block,
\* and is counted out.
LEMMA TaskBlocks ==
  ASSUME BlockInv, RunTask
  PROVE  BlockInv'
<1> PICK v : v = Head(tasks).vehicle
  OBVIOUS
<1>1. UNCHANGED <<pool, model, applied>>
  BY DEF RunTask, worldVars
<1>2. CASE Head(tasks).type = "Bind"
  <2>1. /\ binding' = [binding EXCEPT ![v] = Custom]
        /\ strayed' = IF v \in pool /\ Stray(v, pointer[v], Custom)
                      THEN strayed \cup {v} ELSE strayed
        /\ UNCHANGED <<own, pointer, pending, shown>>
    BY <1>2 DEF RunTask
  <2>2. \A w \in Vehicles : binding'[w] = IF w = v THEN Custom ELSE binding[w]
    BY <2>1 DEF BlockInv, Domains
  <2>3. ASSUME NEW w \in pool \ strayed'
        PROVE  Backed(w)'
    <3>1. w \in Vehicles /\ Backed(w)
      BY <1>1, <2>1, <2>3 DEF BlockInv, Domains
    <3>2. CASE w = v
      <4>1. ModelOf(w)' = Custom
        BY <2>2, <3>1, <3>2, Distinct DEF ModelOf
      <4>2. pointer[w] \in Models => pointer[w] = Custom
        BY <2>1, <2>3, <3>2 DEF Stray
      <4> QED BY <1>1, <2>1, <3>1, <4>1, <4>2 DEF Backed
    <3>3. CASE w # v
      <4>1. ModelOf(w)' = ModelOf(w)
        BY <2>2, <3>1, <3>3 DEF ModelOf
      <4> QED BY <1>1, <2>1, <3>1, <4>1 DEF Backed
    <3> QED BY <3>2, <3>3
  <2> QED BY <1>1, <2>1, <2>2, <2>3, Distinct DEF BlockInv, Domains
<1>3. CASE Head(tasks).type = "Unbind"
  <2>1. /\ binding' = [binding EXCEPT ![v] = None]
        /\ shown' = shown \ {v}
        /\ IF v \in shown \cap pool THEN StreamIn(v)
           ELSE UNCHANGED <<own, pointer, pending>>
        /\ strayed' = IF v \in pool /\ binding[v] # None /\ pointer'[v] # "own"
                      THEN strayed \cup {v} ELSE strayed
    BY <1>3 DEF RunTask
  <2>2. \A w \in Vehicles : binding'[w] = IF w = v THEN None ELSE binding[w]
    BY <2>1 DEF BlockInv, Domains
  <2>3. /\ DOMAIN own' = Vehicles /\ DOMAIN pending' = Vehicles
        /\ pointer' \in [Vehicles -> {"own", "applied", "static"} \cup Models]
        /\ \A w \in Vehicles \ {v} : pointer'[w] = pointer[w] /\ own'[w] = own[w]
        /\ v \in pool /\ pointer'[v] = "own" => v \in strayed \/ own'[v] # None
    <3>1. CASE v \in shown \cap pool
      <4> DEFINE mass == OrElse(pending[v].mass, OrElse(own[v], Driven(v)))
      <4>1. /\ own' = IF Waiting(v) THEN [own EXCEPT ![v] = mass] ELSE own
            /\ pointer' = [pointer EXCEPT ![v] = StreamedPointer(v)]
            /\ pending' = [pending EXCEPT ![v] = NoMods]
        BY <2>1, <3>1 DEF StreamIn
      <4>2. mass # None
        BY DrivenIsNot, Kept
      <4> HIDE DEF mass
      <4>3. v \in Vehicles /\ StreamedPointer(v) \in {"own", "static", pointer[v], ModelOf(v)}
        BY <3>1 DEF StreamedPointer, BlockInv, Domains
      <4>4. /\ pointer'[v] = StreamedPointer(v)
            /\ own'[v] = IF Waiting(v) THEN mass ELSE own[v]
        BY <4>1, <4>3 DEF BlockInv, Domains
      <4>5. StreamedPointer(v) = "own" =>
                Waiting(v) \/ own[v] # None \/ pointer[v] = "own"
        BY ModelOfIsModel, Distinct DEF StreamedPointer
      <4>6. pointer[v] = "own" => v \in strayed \/ own[v] # None
        BY <3>1 DEF BlockInv, Backed
      <4>7. pointer'[v] = "own" => v \in strayed \/ own'[v] # None
        BY <4>2, <4>4, <4>5, <4>6
      <4> QED BY <4>1, <4>3, <4>7, ModelOfIsModel DEF BlockInv, Domains
    <3>2. CASE v \notin shown \cap pool
      BY <2>1, <3>2 DEF BlockInv, Domains, Backed
    <3> QED BY <3>1, <3>2
  <2>4. ASSUME NEW w \in pool \ strayed'
        PROVE  Backed(w)'
    <3>1. w \in Vehicles /\ w \notin strayed /\ Backed(w)
      BY <1>1, <2>1, <2>4 DEF BlockInv, Domains
    <3>2. CASE w = v /\ binding[v] # None
      <4>1. pointer'[w] = "own"
        BY <2>1, <2>4, <3>2
      <4>2. own'[w] # None
        BY <2>3, <2>4, <3>1, <3>2, <4>1
      <4> QED BY <4>1, <4>2, Distinct DEF Backed
    <3>3. CASE w = v /\ binding[v] = None
      <4>1. v \notin shown
        BY <3>3 DEF BlockInv
      <4>2. UNCHANGED <<own, pointer>> /\ binding'[w] = binding[w]
        BY <2>1, <2>2, <3>1, <3>3, <4>1
      <4> QED BY <1>1, <3>1, <4>2 DEF Backed, ModelOf
    <3>4. CASE w # v
      <4>1. pointer'[w] = pointer[w] /\ own'[w] = own[w] /\ ModelOf(w)' = ModelOf(w)
        BY <2>2, <2>3, <3>1, <3>4 DEF ModelOf
      <4> QED BY <1>1, <3>1, <4>1 DEF Backed
    <3> QED BY <3>2, <3>3, <3>4
  <2>5. \A w \in shown' : binding'[w] # None
    BY <2>1, <2>2 DEF BlockInv, Domains
  <2> QED BY <1>1, <2>1, <2>3, <2>4, <2>5 DEF BlockInv, Domains
<1>4. CASE Head(tasks).type \notin {"Bind", "Unbind"}
  <2>1. UNCHANGED <<own, pointer, pending, binding, shown, strayed>>
    BY <1>4 DEF RunTask
  <2> QED BY <1>1, <2>1, SameBlocks DEF BlockInv, Domains
<1> QED BY <1>2, <1>3, <1>4

LEMMA LeaveBlocks ==
  ASSUME BlockInv, LeaveRide
  PROVE  BlockInv'
<1> PICK v : v = lastRide
  OBVIOUS
<1>1. UNCHANGED <<pool, own, model, binding, pending, shown>>
  BY DEF LeaveRide, bindVars
<1>2. CASE v \in pool /\ applied[v] # None
  <2>1. /\ applied' = [applied EXCEPT ![v] = None]
        /\ pointer' = [pointer EXCEPT ![v] = IF own[v] # None THEN "own"
                                             ELSE ModelOrStatic(Base)]
        /\ strayed' = IF Stray(v, pointer'[v], ModelOf(v))
                      THEN strayed \cup {v} ELSE strayed \ {v}
    BY <1>2 DEF LeaveRide
  <2>2. v \in Vehicles /\ ModelOrStatic(Base) \in {"static"} \cup Models
    BY <1>2, Distinct DEF BlockInv, Domains, ModelOrStatic
  <2>3. applied'[v] = None
        /\ pointer'[v] = IF own[v] # None THEN "own" ELSE ModelOrStatic(Base)
    BY <2>1, <2>2 DEF BlockInv, Domains
  <2>4. ModelOf(v)' = ModelOf(v)
    BY <1>1 DEF ModelOf
  <2>5. ASSUME v \notin strayed'
        PROVE  Backed(v)'
    <3>1. ~Stray(v, pointer'[v], ModelOf(v))
      BY <2>1, <2>5
    <3> QED BY <1>1, <2>3, <2>4, <3>1, Distinct DEF Backed, ModelOrStatic, Stray
  <2>6. pointer' \in [Vehicles -> {"own", "applied", "static"} \cup Models]
    BY <2>1, <2>2 DEF BlockInv, Domains
  <2> QED BY <1>1, <2>1, <2>2, <2>5, <2>6, OtherBlocks DEF BlockInv, Domains
<1>3. CASE ~(v \in pool /\ applied[v] # None)
  BY <1>1, <1>3, SameBlocks DEF LeaveRide, BlockInv, Domains
<1> QED BY <1>2, <1>3

LEMMA GameBlocks ==
  ASSUME BlockInv, Game
  PROVE  BlockInv'
<1>1. ASSUME NEW v \in Vehicles, Disappear(v) \/ Depart(v)
      PROVE  BlockInv'
  <2>1. UNCHANGED <<pointer, own, model, applied, binding, pending, strayed>>
    BY <1>1 DEF Disappear, Depart, blocks, bindVars
  <2>2. pool' \subseteq pool /\ shown' \subseteq shown
    BY <1>1 DEF Disappear, Depart, bindVars
  <2> QED BY <2>1, <2>2, SameBlocks DEF BlockInv, Domains
<1>2. ASSUME NEW v \in Vehicles \cup {None}, Ride(v)
      PROVE  BlockInv'
  BY <1>2, SameBlocks DEF Ride, blocks, bindVars, BlockInv, Domains
<1>3. CASE Create
  BY <1>3, SameBlocks DEF Create, blocks, worldVars, BlockInv, Domains
<1>4. CASE EnterRide
  <2>1. ApplyPlayer(ride, player)
    BY <1>4 DEF EnterRide
  <2>2. UNCHANGED <<pool, own, model, binding, pending, shown>>
    BY <1>4 DEF EnterRide, bindVars
  <2> QED BY <2>1, <2>2, ApplyBlocks
<1> QED BY <1>1, <1>2, <1>3, <1>4, ProcessBlocks, AppearBlocks, ArriveBlocks,
           TaskBlocks, LeaveBlocks DEF Game

LEMMA BlockStep ==
  ASSUME BlockInv, [Next]_vars
  PROVE  BlockInv'
<1>1. CASE UNCHANGED vars
  BY <1>1, SameBlocks
     DEF vars, clientVars, worldVars, blocks, bindVars, BlockInv, Domains
<1> QED BY <1>1, NativeBlocks, PacketBlocks, GameBlocks, RejoinBlocks DEF Next

\* No vehicle in the world drives with a block of handling data that was freed,
\* in whatever order vehicles, models and the player are given handling and
\* lose it, and however vehicles come and go: whoever frees a block has led the
\* vehicles away from it (ResetVehicle, ResetModel, ResetPlayerHandling,
\* RemovePlayerHandling).
THEOREM BlocksStay == Spec => []NoDangling
<1>1. BlockInv => NoDangling
  BY BackedHolds DEF BlockInv, NoDangling
<1>2. BlockInv /\ [Next]_vars => BlockInv'
  BY BlockStep
<1> QED BY <1>1, <1>2, InitBlocks, PTL DEF Spec

-----------------------------------------------------------------------------
(***************************************************************************)
(* What is under way.  A is a set of messages about something, G those of  *)
(* them that say what the server has.                                      *)
(***************************************************************************)
Quiet(q, A)    == \A i \in 1..Len(q) : q[i] \notin A
Tells(q, A, G) == \E i \in 1..Len(q) :
                     q[i] \in G /\ \A k \in 1..Len(q) : k > i => q[k] \notin A

\* The items of one sequence followed by another.
LEMMA Items ==
  ASSUME NEW S, NEW q \in Seq(S), NEW r \in Seq(S)
  PROVE  /\ q \o r \in Seq(S)
         /\ Len(q \o r) = Len(q) + Len(r) /\ Len(q) \in Nat /\ Len(r) \in Nat
         /\ \A i \in 1..Len(q) : i \in 1..Len(q \o r) /\ (q \o r)[i] = q[i]
         /\ \A i \in 1..Len(r) : Len(q) + i \in 1..Len(q \o r)
                                 /\ (q \o r)[Len(q) + i] = r[i]
         /\ \A i \in 1..Len(q \o r) : i > Len(q) =>
               i - Len(q) \in 1..Len(r) /\ (q \o r)[i] = r[i - Len(q)]
OBVIOUS

LEMMA Joined ==
  ASSUME NEW S
  PROVE  \A q, r, t \in Seq(S) : (q \o r) \o t = q \o (r \o t)
OBVIOUS

LEMMA QuietBoth ==
  ASSUME NEW S, NEW q \in Seq(S), NEW r \in Seq(S), NEW A, Quiet(q, A), Quiet(r, A)
  PROVE  Quiet(q \o r, A)
<1> SUFFICES ASSUME NEW i \in 1..Len(q \o r) PROVE (q \o r)[i] \notin A
  BY DEF Quiet
<1>1. CASE i > Len(q)
  <2>1. i - Len(q) \in 1..Len(r) /\ (q \o r)[i] = r[i - Len(q)] BY <1>1, Items
  <2> QED BY <2>1 DEF Quiet
<1>2. CASE ~(i > Len(q))
  <2>1. i \in 1..Len(q) /\ (q \o r)[i] = q[i] BY <1>2, Items
  <2> QED BY <2>1 DEF Quiet
<1> QED BY <1>1, <1>2

\* What is said last counts, and what is about something else does not.
LEMMA TellsStill ==
  ASSUME NEW S, NEW q \in Seq(S), NEW r \in Seq(S), NEW A, NEW G,
         Tells(q, A, G), Quiet(r, A)
  PROVE  Tells(q \o r, A, G)
<1>1. PICK i \in 1..Len(q) :
         q[i] \in G /\ \A k \in 1..Len(q) : k > i => q[k] \notin A
  BY DEF Tells
<1>2. i \in 1..Len(q \o r) /\ (q \o r)[i] = q[i] BY Items
<1>3. ASSUME NEW k \in 1..Len(q \o r), k > i
      PROVE  (q \o r)[k] \notin A
  <2>1. CASE k > Len(q)
    <3>1. k - Len(q) \in 1..Len(r) /\ (q \o r)[k] = r[k - Len(q)] BY <2>1, Items
    <3> QED BY <3>1 DEF Quiet
  <2>2. CASE ~(k > Len(q))
    <3>1. k \in 1..Len(q) /\ (q \o r)[k] = q[k] BY <2>2, Items
    <3> QED BY <1>1, <1>3, <3>1
  <2> QED BY <2>1, <2>2
<1> QED BY <1>1, <1>2, <1>3 DEF Tells

LEMMA TellsLast ==
  ASSUME NEW S, NEW q \in Seq(S), NEW r \in Seq(S), NEW A, NEW G, Tells(r, A, G)
  PROVE  Tells(q \o r, A, G)
<1>1. PICK i \in 1..Len(r) :
         r[i] \in G /\ \A k \in 1..Len(r) : k > i => r[k] \notin A
  BY DEF Tells
<1>2. Len(q) + i \in 1..Len(q \o r) /\ (q \o r)[Len(q) + i] = r[i] BY Items
<1>3. ASSUME NEW k \in 1..Len(q \o r), k > Len(q) + i
      PROVE  (q \o r)[k] \notin A
  <2>1. k - Len(q) \in 1..Len(r) /\ (q \o r)[k] = r[k - Len(q)] /\ k - Len(q) > i
    BY <1>3, Items
  <2> QED BY <1>1, <2>1
<1> QED BY <1>1, <1>2, <1>3 DEF Tells

\* The first packet is taken off: it says it, if no later one does.
LEMMA TakesFirst ==
  ASSUME NEW S, NEW q \in Seq(S), q # <<>>, NEW A, NEW G
  PROVE  /\ Head(q) \in S /\ Tail(q) \in Seq(S)
         /\ Quiet(q, A) => Head(q) \notin A /\ Quiet(Tail(q), A)
         /\ Tells(q, A, G) => \/ Tells(Tail(q), A, G)
                              \/ Head(q) \in G /\ Quiet(Tail(q), A)
<1>1. /\ Len(q) \in Nat /\ Len(q) >= 1 /\ Len(Tail(q)) = Len(q) - 1
      /\ Head(q) = q[1] /\ Head(q) \in S /\ Tail(q) \in Seq(S)
      /\ \A k \in 1..Len(Tail(q)) : k + 1 \in 1..Len(q) /\ Tail(q)[k] = q[k + 1]
  OBVIOUS
<1>2. ASSUME Quiet(q, A) PROVE Head(q) \notin A /\ Quiet(Tail(q), A)
  BY <1>1, <1>2 DEF Quiet
<1>3. ASSUME Tells(q, A, G)
      PROVE  Tells(Tail(q), A, G) \/ (Head(q) \in G /\ Quiet(Tail(q), A))
  <2>1. PICK i \in 1..Len(q) :
           q[i] \in G /\ \A k \in 1..Len(q) : k > i => q[k] \notin A
    BY <1>3 DEF Tells
  <2>2. \A k \in 1..Len(Tail(q)) : k + 1 > i => Tail(q)[k] \notin A
    BY <1>1, <2>1
  <2>3. CASE i = 1
    <3>1. Quiet(Tail(q), A) BY <1>1, <2>2, <2>3 DEF Quiet
    <3> QED BY <1>1, <2>1, <2>3, <3>1
  <2>4. CASE i # 1
    <3>1. i - 1 \in 1..Len(Tail(q)) /\ Tail(q)[i - 1] = q[i]
      BY <1>1, <2>4
    <3>2. \A k \in 1..Len(Tail(q)) : k > i - 1 => Tail(q)[k] \notin A
      BY <1>1, <2>2
    <3> QED BY <2>1, <3>1, <3>2 DEF Tells
  <2> QED BY <2>3, <2>4
<1> QED BY <1>1, <1>2, <1>3

LEMMA Single ==
  ASSUME NEW S, NEW p \in S, NEW q \in Seq(S)
  PROVE  /\ <<p>> \in Seq(S) /\ Append(q, p) = q \o <<p>>
         /\ \A A : p \notin A => Quiet(<<p>>, A)
         /\ \A A, G : p \in G => Tells(<<p>>, A, G)
<1>1. /\ <<p>> \in Seq(S) /\ Append(q, p) = q \o <<p>>
      /\ Len(<<p>>) = 1 /\ <<p>>[1] = p /\ 1..1 = {1}
  OBVIOUS
<1>2. \A A : p \notin A => Quiet(<<p>>, A) BY <1>1 DEF Quiet
<1>3. \A A, G : p \in G => Tells(<<p>>, A, G) BY <1>1 DEF Tells
<1> QED BY <1>1, <1>2, <1>3

LEMMA Nothing == \A A, S : Quiet(<<>>, A) /\ <<>> \in Seq(S)
BY DEF Quiet

LEMMA SaysMore ==
  ASSUME NEW q, NEW A, NEW G, NEW H, Tells(q, A, G), G \subseteq H
  PROVE  Tells(q, A, H)
BY DEF Tells

\* The order of a finite set has each of its members once.
LEMMA SetToSeqOnto ==
  ASSUME NEW S, IsFiniteSet(S)
  PROVE  /\ SetToSeq(S) \in Seq(S)
         /\ \A i, k \in 1..Len(SetToSeq(S)) :
               SetToSeq(S)[i] = SetToSeq(S)[k] => i = k
         /\ \A m \in S : \E i \in 1..Len(SetToSeq(S)) : SetToSeq(S)[i] = m
<1>1. Cardinality(S) \in Nat /\ ExistsBijection(1..Cardinality(S), S)
  BY FS_CardinalityType
<1>2. PICK f \in [1..Cardinality(S) -> S] : IsInjective(f)
  BY <1>1, Zenon DEF ExistsBijection, Bijection, Injection, IsInjective
<1>3. SetToSeq(S) \in [1..Cardinality(S) -> S] /\ IsInjective(SetToSeq(S))
  BY <1>2, Zenon DEF SetToSeq
<1> DEFINE g == SetToSeq(S)
           n == Cardinality(S)
<1> HIDE DEF g
<1>4. g \in Injection(1..n, S)
  BY <1>3 DEF Injection, g
<1>5. IsFiniteSet(1..n) /\ Cardinality(1..n) = n
  BY <1>1, FS_Interval
<1>6. g \in Surjection(1..n, S)
  BY <1>4, <1>5, FS_Injection
<1>7. DOMAIN g = 1..n BY <1>3 DEF g
<1>8. \A i, k \in DOMAIN g : g[i] = g[k] => i = k
  BY <1>3, Zenon DEF IsInjective, g
<1>9. \A m \in S : \E i \in DOMAIN g : g[i] = m
  BY <1>6, <1>7 DEF Surjection
<1>10. g \in Seq(S) /\ DOMAIN g = 1..Len(g)
  BY <1>1, <1>3, <1>7 DEF g
<1> QED BY <1>8, <1>9, <1>10 DEF g

\* A message for each member of a set, in the order o: the one that is about
\* something tells of it.
LEMMA ListTells ==
  ASSUME NEW o, NEW q, Len(q) = Len(o), Len(o) \in Nat,
         \A i, k \in 1..Len(o) : o[i] = o[k] => i = k,
         NEW A, NEW G, NEW i \in 1..Len(q), q[i] \in G,
         \A k \in 1..Len(q) : q[k] \in A => o[k] = o[i]
  PROVE  Tells(q, A, G)
<1>1. \A k \in 1..Len(q) : k > i => q[k] \notin A OBVIOUS
<1> QED BY <1>1 DEF Tells

-----------------------------------------------------------------------------
(* Packets and tasks, and their types. *)

\* The values of the knobs in the runs.
Orderly == /\ IdReuse = FALSE /\ RidesToTheEnd = FALSE
           /\ EarlyPlayer = FALSE /\ SameFrame = FALSE

\* What becomes a task, and everything a packet may be.
TaskMessages ==
    [type : {"Bind", "Unbind"}, vehicle : Vehicles]
    \cup [type : {"Door"}, vehicle : Vehicles, gone : BOOLEAN]
Messages ==
    TaskMessages
    \cup [type : {"SetVehicle"}, vehicle : Vehicles, mods : Mods]
    \cup [type : {"ResetVehicle"}, vehicle : Vehicles]
    \cup [type : {"SetModel"}, model : Models, mods : Mods]
    \cup [type : {"ResetModel"}, model : Models]
    \cup [type : {"SetPlayer"}, mass : Masses]
    \cup [type : {"ResetPlayer"}]
ServerHandling == [uses : BOOLEAN, mods : Mods, mass : Masses \cup {Stock},
                   plane : BOOLEAN]

\* The types of what the server keeps, and of what is under way: who is not
\* authorized is told of nothing but the end of a model's handling.
ServerTypes ==
    /\ born \subseteq Vehicles /\ exists \subseteq born /\ streamed \subseteq exists
    /\ doorMissing \subseteq exists
    /\ outVehicles \subseteq Vehicles /\ outModels \subseteq Models
    /\ vehicleHandlings \in [Vehicles -> ServerHandling]
    /\ modelHandlings \in [Models -> Mods]
    /\ playerHandling \in Masses \cup {None}
    /\ authorized \in BOOLEAN /\ apart \in BOOLEAN
ChannelTypes ==
    /\ toClient \in Seq(Messages) /\ tasks \in Seq(TaskMessages)
    /\ ~authorized => \A i \in 1..Len(toClient) : toClient[i].type = "ResetModel"
\* Packets r of kinds K are sent.
Sent(r, K) == /\ r \in Seq(Messages) /\ toClient' = toClient \o r
              /\ \A i \in 1..Len(r) : r[i].type \in K
Sends(K)   == \E r \in Seq(Messages) : Sent(r, K)

LEMMA MessageFields ==
  ASSUME NEW p \in Messages
  PROVE  /\ p.type \in {"SetVehicle", "ResetVehicle", "Bind", "Unbind", "Door"} =>
               p.vehicle \in Vehicles
         /\ p.type \in {"SetVehicle", "SetModel"} => p.mods \in Mods
         /\ p.type \in {"SetModel", "ResetModel"} => p.model \in Models
         /\ p.type = "Door" => p.gone \in BOOLEAN
         /\ p.type = "SetPlayer" => p.mass \in Masses
         /\ p.type \in {"Bind", "Unbind", "Door"} => p \in TaskMessages
         /\ p \in TaskMessages => p.type \in {"Bind", "Unbind", "Door"}
BY DEF Messages, TaskMessages

LEMMA MessageTypes ==
  ASSUME ServerTypes
  PROVE  /\ \A v \in Vehicles :
               /\ SetVehicleMsg(v) \in Messages /\ ResetVehicleMsg(v) \in Messages
               /\ MissingMsg(v) \in Messages
               /\ \A b \in BOOLEAN : DoorMsg(v, b) \in Messages
               /\ [type |-> "Bind", vehicle |-> v] \in Messages
               /\ [type |-> "Unbind", vehicle |-> v] \in Messages
         /\ \A m \in Models :
               /\ SetModelMsg(m) \in Messages
               /\ [type |-> "ResetModel", model |-> m] \in Messages
         /\ \A x \in Masses : [type |-> "SetPlayer", mass |-> x] \in Messages
         /\ [type |-> "ResetPlayer"] \in Messages
<1>1. \A v \in Vehicles : vehicleHandlings[v].mods \in Mods
  BY DEF ServerTypes, ServerHandling
<1>2. \A m \in Models : modelHandlings[m] \in Mods
  BY DEF ServerTypes
<1> QED BY <1>1, <1>2 DEF Messages, TaskMessages, SetVehicleMsg, ResetVehicleMsg,
        MissingMsg, DoorMsg, SetModelMsg

LEMMA TypeOf ==
  /\ \A v : /\ SetVehicleMsg(v).type = "SetVehicle" /\ SetVehicleMsg(v).vehicle = v
            /\ SetVehicleMsg(v).mods = vehicleHandlings[v].mods
            /\ ResetVehicleMsg(v).type = "ResetVehicle"
            /\ ResetVehicleMsg(v).vehicle = v
            /\ MissingMsg(v).type = "Door" /\ MissingMsg(v).vehicle = v
            /\ MissingMsg(v).gone = TRUE
  /\ \A m : /\ SetModelMsg(m).type = "SetModel" /\ SetModelMsg(m).model = m
            /\ SetModelMsg(m).mods = modelHandlings[m]
BY DEF SetVehicleMsg, ResetVehicleMsg, MissingMsg, DoorMsg, SetModelMsg

\* The order of sets of vehicles and of models.
LEMMA Finite ==
  /\ \A S : S \subseteq Vehicles => IsFiniteSet(S)
  /\ \A S : S \subseteq Models => IsFiniteSet(S)
<1>1. IsFiniteSet(Vehicles) BY HandlingAssumption
<1>2. IsFiniteSet(Models)
  <2>1. IsFiniteSet({Base}) BY FS_Singleton
  <2>2. IsFiniteSet({Base} \cup {Custom}) BY <2>1, FS_AddElement
  <2>3. Models = {Base} \cup {Custom} BY DEF Models
  <2> QED BY <2>2, <2>3
<1> QED BY <1>1, <1>2, FS_Subset

LEMMA NoneSent ==
  ASSUME ChannelTypes, toClient' = toClient
  PROVE  \A K : Sent(<<>>, K)
<1>1. toClient \o <<>> = toClient /\ <<>> \in Seq(Messages) BY DEF ChannelTypes
<1> QED BY <1>1 DEF Sent

LEMMA OneSent ==
  ASSUME ChannelTypes, NEW p \in Messages,
         toClient' = toClient \o <<p>> \/ toClient' = Append(toClient, p)
  PROVE  Sent(<<p>>, {p.type})
<1>1. toClient' = toClient \o <<p>> /\ <<p>> \in Seq(Messages)
  BY Single DEF ChannelTypes
<1>2. Len(<<p>>) = 1 /\ <<p>>[1] = p OBVIOUS
<1> QED BY <1>1, <1>2 DEF Sent

LEMMA BothKinds ==
  ASSUME NEW S, NEW q \in Seq(S), NEW r \in Seq(S), NEW K,
         \A i \in 1..Len(q) : q[i].type \in K, \A i \in 1..Len(r) : r[i].type \in K
  PROVE  q \o r \in Seq(S) /\ \A i \in 1..Len(q \o r) : (q \o r)[i].type \in K
<1> SUFFICES ASSUME NEW i \in 1..Len(q \o r) PROVE (q \o r)[i].type \in K
  OBVIOUS
<1>1. CASE i > Len(q)
  <2>1. i - Len(q) \in 1..Len(r) /\ (q \o r)[i] = r[i - Len(q)] BY <1>1, Items
  <2> QED BY <2>1
<1>2. CASE ~(i > Len(q))
  <2>1. i \in 1..Len(q) /\ (q \o r)[i] = q[i] BY <1>2, Items
  <2> QED BY <2>1
<1> QED BY <1>1, <1>2

\* The groups of packets that go out for a set.
VehiclesTold(q, S) ==
    /\ q \in Seq(Messages) /\ \A i \in 1..Len(q) : q[i].type = "SetVehicle"
    /\ \A A : (\A s \in S : SetVehicleMsg(s) \notin A) => Quiet(q, A)
    /\ \A A, G : \A s \in S :
          SetVehicleMsg(s) \in G /\ (\A t \in S : SetVehicleMsg(t) \in A => t = s)
          => Tells(q, A, G)
DoorsTold(q, S) ==
    /\ q \in Seq(Messages) /\ \A i \in 1..Len(q) : q[i].type = "Door"
    /\ \A A : (\A s \in S : MissingMsg(s) \notin A) => Quiet(q, A)
    /\ \A A, G : \A s \in S :
          MissingMsg(s) \in G /\ (\A t \in S : MissingMsg(t) \in A => t = s)
          => Tells(q, A, G)
ModelsTold(q, S) ==
    /\ q \in Seq(Messages) /\ \A i \in 1..Len(q) : q[i].type = "SetModel"
    /\ \A A : (\A s \in S : SetModelMsg(s) \notin A) => Quiet(q, A)
    /\ \A A, G : \A s \in S :
          SetModelMsg(s) \in G /\ (\A t \in S : SetModelMsg(t) \in A => t = s)
          => Tells(q, A, G)

\* A list of a message for each member of a set.
LEMMA EachTold ==
  ASSUME NEW S, IsFiniteSet(S), NEW f \in [S -> Messages], NEW q,
         q = [i \in 1..Len(SetToSeq(S)) |-> f[SetToSeq(S)[i]]]
  PROVE  /\ q \in Seq(Messages) /\ \A i \in 1..Len(q) : \E s \in S : q[i] = f[s]
         /\ \A A : (\A s \in S : f[s] \notin A) => Quiet(q, A)
         /\ \A A, G : \A s \in S :
               f[s] \in G /\ (\A t \in S : f[t] \in A => t = s) => Tells(q, A, G)
<1> DEFINE o == SetToSeq(S)
<1>1. /\ o \in Seq(S)
      /\ \A i, k \in 1..Len(o) : o[i] = o[k] => i = k
      /\ \A s \in S : \E i \in 1..Len(o) : o[i] = s
  BY SetToSeqOnto
<1>2. q = [i \in 1..Len(o) |-> f[o[i]]]
  OBVIOUS
<1> HIDE DEF o
<1>3. Len(o) \in Nat /\ \A i \in 1..Len(o) : o[i] \in S
  BY <1>1
<1>4. q \in Seq(Messages) /\ Len(q) = Len(o)
  BY <1>2, <1>3
<1>5. \A i \in 1..Len(q) : o[i] \in S /\ q[i] = f[o[i]]
  BY <1>2, <1>3, <1>4
<1>6. \A A : (\A s \in S : f[s] \notin A) => Quiet(q, A)
  BY <1>5 DEF Quiet
<1>7. ASSUME NEW A, NEW G, NEW s \in S, f[s] \in G, \A t \in S : f[t] \in A => t = s
      PROVE  Tells(q, A, G)
  <2>1. PICK i \in 1..Len(q) : o[i] = s
    BY <1>1, <1>4
  <2>2. q[i] \in G /\ \A k \in 1..Len(q) : q[k] \in A => o[k] = o[i]
    BY <1>5, <1>7, <2>1
  <2> QED BY <1>1, <1>3, <1>4, <2>2, ListTells
<1> QED BY <1>4, <1>5, <1>6, <1>7

LEMMA EachSetVehicle ==
  ASSUME ServerTypes, NEW S, S \subseteq Vehicles
  PROVE  \A q : q = [i \in 1..Len(SetToSeq(S)) |-> SetVehicleMsg(SetToSeq(S)[i])] =>
             VehiclesTold(q, S)
<1> SUFFICES ASSUME NEW q, q = [i \in 1..Len(SetToSeq(S)) |-> SetVehicleMsg(SetToSeq(S)[i])]
             PROVE  VehiclesTold(q, S)
  OBVIOUS
<1> DEFINE f == [s \in S |-> SetVehicleMsg(s)]
<1>1. IsFiniteSet(S) /\ f \in [S -> Messages]
  BY Finite, MessageTypes
<1>2. q = [i \in 1..Len(SetToSeq(S)) |-> f[SetToSeq(S)[i]]]
  BY <1>1, SetToSeqOnto
<1>3. \A s \in S : f[s] = SetVehicleMsg(s) /\ SetVehicleMsg(s).type = "SetVehicle"
  BY TypeOf
<1> HIDE DEF f
<1> QED BY <1>1, <1>2, <1>3, EachTold DEF VehiclesTold

LEMMA EachMissing ==
  ASSUME ServerTypes, NEW S, S \subseteq Vehicles
  PROVE  \A q : q = [i \in 1..Len(SetToSeq(S)) |-> MissingMsg(SetToSeq(S)[i])] =>
             DoorsTold(q, S)
<1> SUFFICES ASSUME NEW q, q = [i \in 1..Len(SetToSeq(S)) |-> MissingMsg(SetToSeq(S)[i])]
             PROVE  DoorsTold(q, S)
  OBVIOUS
<1> DEFINE f == [s \in S |-> MissingMsg(s)]
<1>1. IsFiniteSet(S) /\ f \in [S -> Messages]
  BY Finite, MessageTypes
<1>2. q = [i \in 1..Len(SetToSeq(S)) |-> f[SetToSeq(S)[i]]]
  BY <1>1, SetToSeqOnto
<1>3. \A s \in S : f[s] = MissingMsg(s) /\ MissingMsg(s).type = "Door"
  BY TypeOf
<1> HIDE DEF f
<1> QED BY <1>1, <1>2, <1>3, EachTold DEF DoorsTold

LEMMA EachSetModel ==
  ASSUME ServerTypes, NEW S, S \subseteq Models
  PROVE  \A q : q = [i \in 1..Len(SetToSeq(S)) |-> SetModelMsg(SetToSeq(S)[i])] =>
             ModelsTold(q, S)
<1> SUFFICES ASSUME NEW q, q = [i \in 1..Len(SetToSeq(S)) |-> SetModelMsg(SetToSeq(S)[i])]
             PROVE  ModelsTold(q, S)
  OBVIOUS
<1> DEFINE f == [s \in S |-> SetModelMsg(s)]
<1>1. IsFiniteSet(S) /\ f \in [S -> Messages]
  BY Finite, MessageTypes
<1>2. q = [i \in 1..Len(SetToSeq(S)) |-> f[SetToSeq(S)[i]]]
  BY <1>1, SetToSeqOnto
<1>3. \A s \in S : f[s] = SetModelMsg(s) /\ SetModelMsg(s).type = "SetModel"
  BY TypeOf
<1> HIDE DEF f
<1> QED BY <1>1, <1>2, <1>3, EachTold DEF ModelsTold

LEMMA EachResetVehicle ==
  ASSUME ServerTypes, NEW S, S \subseteq Vehicles
  PROVE  \A q : q = [i \in 1..Len(SetToSeq(S)) |-> ResetVehicleMsg(SetToSeq(S)[i])] =>
             q \in Seq(Messages) /\ \A i \in 1..Len(q) : q[i].type = "ResetVehicle"
<1> SUFFICES ASSUME NEW q, q = [i \in 1..Len(SetToSeq(S)) |-> ResetVehicleMsg(SetToSeq(S)[i])]
             PROVE  q \in Seq(Messages) /\ \A i \in 1..Len(q) : q[i].type = "ResetVehicle"
  OBVIOUS
<1> DEFINE f == [s \in S |-> ResetVehicleMsg(s)]
<1>1. IsFiniteSet(S) /\ f \in [S -> Messages]
  BY Finite, MessageTypes
<1>2. q = [i \in 1..Len(SetToSeq(S)) |-> f[SetToSeq(S)[i]]]
  BY <1>1, SetToSeqOnto
<1>3. \A s \in S : f[s].type = "ResetVehicle"
  BY TypeOf
<1> HIDE DEF f
<1> QED BY <1>1, <1>2, <1>3, EachTold

LEMMA EachBind ==
  ASSUME ServerTypes, NEW S, S \subseteq Vehicles
  PROVE  \A q : q = [i \in 1..Len(SetToSeq(S)) |-> [type |-> "Bind", vehicle |-> SetToSeq(S)[i]]] =>
             q \in Seq(Messages) /\ \A i \in 1..Len(q) : q[i].type = "Bind"
<1> SUFFICES ASSUME NEW q, q = [i \in 1..Len(SetToSeq(S)) |-> [type |-> "Bind", vehicle |-> SetToSeq(S)[i]]]
             PROVE  q \in Seq(Messages) /\ \A i \in 1..Len(q) : q[i].type = "Bind"
  OBVIOUS
<1> DEFINE f == [s \in S |-> [type |-> "Bind", vehicle |-> s]]
<1>1. IsFiniteSet(S) /\ f \in [S -> Messages]
  BY Finite, MessageTypes
<1>2. q = [i \in 1..Len(SetToSeq(S)) |-> f[SetToSeq(S)[i]]]
  BY <1>1, SetToSeqOnto
<1>3. \A s \in S : f[s].type = "Bind"
  BY TypeOf
<1> HIDE DEF f
<1> QED BY <1>1, <1>2, <1>3, EachTold

LEMMA EachResetModel ==
  ASSUME ServerTypes, NEW S, S \subseteq Models
  PROVE  \A q : q = [i \in 1..Len(SetToSeq(S)) |-> [type |-> "ResetModel", model |-> SetToSeq(S)[i]]] =>
             q \in Seq(Messages) /\ \A i \in 1..Len(q) : q[i].type = "ResetModel"
<1> SUFFICES ASSUME NEW q, q = [i \in 1..Len(SetToSeq(S)) |-> [type |-> "ResetModel", model |-> SetToSeq(S)[i]]]
             PROVE  q \in Seq(Messages) /\ \A i \in 1..Len(q) : q[i].type = "ResetModel"
  OBVIOUS
<1> DEFINE f == [s \in S |-> [type |-> "ResetModel", model |-> s]]
<1>1. IsFiniteSet(S) /\ f \in [S -> Messages]
  BY Finite, MessageTypes
<1>2. q = [i \in 1..Len(SetToSeq(S)) |-> f[SetToSeq(S)[i]]]
  BY <1>1, SetToSeqOnto
<1>3. \A s \in S : f[s].type = "ResetModel"
  BY TypeOf
<1> HIDE DEF f
<1> QED BY <1>1, <1>2, <1>3, EachTold

-----------------------------------------------------------------------------
(* What the natives do to the server's records, and what they send. *)

LEMMA ModsTypes ==
  ASSUME ServerTypes
  PROVE  /\ \A x, y \in Mods : Over(x, y) \in Mods
         /\ Given \subseteq Mods /\ NoMods \in Mods
         /\ \A v \in Vehicles : /\ GetVehicleHandling(v).mass \in Masses \cup {Stock}
                                /\ GetVehicleHandling(v).plane \in BOOLEAN
<1>1. \A x, y \in Mods : Over(x, y) \in Mods
  BY DEF Mods, Over, OrElse
<1>2. Given \subseteq Mods /\ NoMods \in Mods
  BY DEF Given, Mods, NoMods
<1>3. /\ GetModelHandling(Base).mass \in Masses \cup {Stock}
      /\ GetModelHandling(Base).plane \in BOOLEAN
  <2>1. modelHandlings[Base] \in Mods BY Distinct DEF ServerTypes
  <2>2. /\ modelHandlings[Base].mass \in Masses \cup {None}
        /\ modelHandlings[Base].plane \in BOOLEAN \cup {None}
    BY <2>1 DEF Mods
  <2> QED BY <2>2 DEF GetModelHandling, OrElse
<1>4. \A v \in Vehicles : vehicleHandlings[v] \in ServerHandling
  BY DEF ServerTypes
<1> QED BY <1>1, <1>2, <1>3, <1>4 DEF GetVehicleHandling, ServerHandling

LEMMA FreshTypes ==
  ASSUME ServerTypes, NEW v \in Vehicles,
         vehicleHandlings' = [vehicleHandlings EXCEPT ![v] = Fresh(@)]
  PROVE  /\ vehicleHandlings' \in [Vehicles -> ServerHandling]
         /\ vehicleHandlings'[v].uses = TRUE /\ vehicleHandlings'[v].mods = NoMods
         /\ \A w \in Vehicles : w # v => vehicleHandlings'[w] = vehicleHandlings[w]
<1> DEFINE e == Fresh(vehicleHandlings[v])
<1>1. vehicleHandlings[v] \in ServerHandling BY DEF ServerTypes
<1>2. e \in ServerHandling /\ e.uses = TRUE /\ e.mods = NoMods
  BY <1>1, ModsTypes DEF Fresh, ServerHandling
<1> HIDE DEF e
<1>3. vehicleHandlings' = [vehicleHandlings EXCEPT ![v] = e] BY DEF e
<1> QED BY <1>2, <1>3 DEF ServerTypes

LEMMA AddTypes ==
  ASSUME ServerTypes, NEW v \in Vehicles, NEW mods \in Given, AddVehicleMod(v, mods)
  PROVE  /\ vehicleHandlings' \in [Vehicles -> ServerHandling]
         /\ vehicleHandlings'[v] =
              [uses |-> FALSE, mods |-> Over(mods, vehicleHandlings[v].mods),
               mass |-> OrElse(mods.mass, GetVehicleHandling(v).mass),
               plane |-> OrElse(mods.plane, GetVehicleHandling(v).plane)]
         /\ \A w \in Vehicles : w # v => vehicleHandlings'[w] = vehicleHandlings[w]
<1> DEFINE e == [uses |-> FALSE, mods |-> Over(mods, vehicleHandlings[v].mods),
                 mass |-> OrElse(mods.mass, GetVehicleHandling(v).mass),
                 plane |-> OrElse(mods.plane, GetVehicleHandling(v).plane)]
<1>1. vehicleHandlings[v].mods \in Mods BY DEF ServerTypes, ServerHandling
<1>2. mods \in Mods BY ModsTypes
<1>3. Over(mods, vehicleHandlings[v].mods) \in Mods BY <1>1, <1>2, ModsTypes
<1>4. OrElse(mods.mass, GetVehicleHandling(v).mass) \in Masses \cup {Stock}
  <2>1. mods.mass \in Masses \cup {None} BY <1>2 DEF Mods
  <2> QED BY <2>1, ModsTypes DEF OrElse
<1>5. OrElse(mods.plane, GetVehicleHandling(v).plane) \in BOOLEAN
  <2>1. mods.plane \in BOOLEAN \cup {None} BY <1>2 DEF Mods
  <2> QED BY <2>1, ModsTypes DEF OrElse
<1>6. e \in ServerHandling BY <1>3, <1>4, <1>5 DEF ServerHandling
<1> HIDE DEF e
<1>7. vehicleHandlings' = [vehicleHandlings EXCEPT ![v] = e]
  BY DEF AddVehicleMod, e
<1>8. vehicleHandlings'[v] = e BY <1>7 DEF ServerTypes
<1>9. /\ vehicleHandlings' \in [Vehicles -> ServerHandling]
      /\ \A w \in Vehicles : w # v => vehicleHandlings'[w] = vehicleHandlings[w]
  BY <1>6, <1>7 DEF ServerTypes
<1> QED BY <1>8, <1>9 DEF e

\* The types of the server's records stay.
LEMMA NativeTypes ==
  ASSUME ServerTypes, Natives
  PROVE  ServerTypes'
<1>1. ASSUME NEW v \in Vehicles, OnCreateVehicle(v) PROVE ServerTypes'
  BY <1>1, FreshTypes DEF OnCreateVehicle, ServerTypes
<1>2. ASSUME NEW v \in Vehicles, OnDestroyVehicle(v) PROVE ServerTypes'
  BY <1>2, FreshTypes DEF OnDestroyVehicle, ServerTypes
<1>3. ASSUME NEW v \in Vehicles, NEW mods \in Given, SetVehicleHandling(v, mods)
      PROVE  ServerTypes'
  BY <1>3, AddTypes DEF SetVehicleHandling, ServerTypes
<1>4. ASSUME NEW v \in Vehicles, ResetVehicleHandling(v) PROVE ServerTypes'
  BY <1>4, FreshTypes DEF ResetVehicleHandling, ServerTypes
<1>5. ASSUME NEW v \in Vehicles,
             \/ BroadcastVehicleCorrection(v) \/ BindVehicle(v) \/ UnbindVehicle(v)
             \/ OnVehicleStreamIn(v) \/ StreamOut(v)
             \/ \E gone \in BOOLEAN : SetVehicleDoorMissing(v, gone)
      PROVE  ServerTypes'
  BY <1>5 DEF BroadcastVehicleCorrection, BindVehicle, UnbindVehicle,
     OnVehicleStreamIn, StreamOut, SetVehicleDoorMissing, ServerTypes, serverVars
<1>6. ASSUME NEW m \in Models, NEW mods \in Given, SetModelHandling(m, mods)
      PROVE  ServerTypes'
  <2>1. Over(mods, modelHandlings[m]) \in Mods BY ModsTypes DEF ServerTypes
  <2>2. modelHandlings' \in [Models -> Mods]
    BY <1>6, <2>1 DEF SetModelHandling, ServerTypes
  <2> QED BY <1>6, <2>2 DEF SetModelHandling, ServerTypes
<1>7. ASSUME NEW m \in Models, ResetModelHandling(m) PROVE ServerTypes'
  BY <1>7, ModsTypes DEF ResetModelHandling, ServerTypes
<1>8. CASE \/ \E x \in Masses : SetPlayerHandling(x)
           \/ ResetPlayerHandling \/ ResetAll \/ ProcessTick \/ OnPlayerAuthorized
  BY <1>8 DEF SetPlayerHandling, ResetPlayerHandling, ResetAll, ProcessTick,
     OnPlayerAuthorized, ServerTypes
<1> QED BY <1>1, <1>2, <1>3, <1>4, <1>5, <1>6, <1>7, <1>8 DEF Natives

\* Who is not authorized is sent nothing but the end of a model's handling.
LEMMA Gated ==
  ASSUME ChannelTypes, NEW r \in Seq(Messages), SendAuthorized(r), NEW K,
         authorized => \A i \in 1..Len(r) : r[i].type \in K
  PROVE  Sends(IF authorized THEN K ELSE {})
<1>1. CASE authorized BY <1>1 DEF Sends, Sent, SendAuthorized
<1>2. CASE ~authorized
  <2>1. toClient' = toClient BY <1>2 DEF SendAuthorized
  <2>2. <<>> \in Seq(Messages) OBVIOUS
  <2> QED BY <1>2, <2>1, <2>2, NoneSent DEF Sends
<1> QED BY <1>1, <1>2

LEMMA MoreKinds ==
  ASSUME NEW K, NEW L, K \subseteq L, Sends(K)
  PROVE  Sends(L)
BY DEF Sends, Sent

LEMMA OneGated ==
  ASSUME ChannelTypes, NEW p \in Messages, SendAuthorized(<<p>>)
  PROVE  Sends(IF authorized THEN {p.type} ELSE {})
<1>1. <<p>> \in Seq(Messages) /\ \A i \in 1..Len(<<p>>) : <<p>>[i].type \in {p.type}
  OBVIOUS
<1> QED BY <1>1, Gated

\* The packets of the handlers that send several.
TickTells(a, b) ==
    /\ VehiclesTold(a, {v \in outVehicles \cap exists : ~vehicleHandlings[v].uses})
    /\ ModelsTold(b, {m \in outModels : modelHandlings[m] # NoMods})
    /\ SendAuthorized(a \o b)
LEMMA TickParts ==
  ASSUME ServerTypes, ProcessTick
  PROVE  \E a, b : TickTells(a, b)
<1> DEFINE S == {v \in outVehicles \cap exists : ~vehicleHandlings[v].uses}
           T == {m \in outModels : modelHandlings[m] # NoMods}
<1> PICK a : a = [i \in 1..Len(SetToSeq(S)) |-> SetVehicleMsg(SetToSeq(S)[i])]
  OBVIOUS
<1> PICK b : b = [i \in 1..Len(SetToSeq(T)) |-> SetModelMsg(SetToSeq(T)[i])]
  OBVIOUS
<1>1. SendAuthorized(a \o b) BY DEF ProcessTick, Each
<1>2. S \subseteq Vehicles /\ T \subseteq Models BY DEF ServerTypes
<1>3. VehiclesTold(a, S) /\ ModelsTold(b, T)
  <2> HIDE DEF S, T
  <2>1. VehiclesTold(a, S) BY <1>2, EachSetVehicle
  <2>2. ModelsTold(b, T) BY <1>2, EachSetModel
  <2> QED BY <2>1, <2>2
<1> QED BY <1>1, <1>3 DEF TickTells

AuthorizedTells(a, b, c, d) ==
    /\ ModelsTold(a, {m \in Models : modelHandlings[m] # NoMods})
    /\ DoorsTold(b, doorMissing)
    /\ VehiclesTold(c, {v \in exists : vehicleHandlings[v].mods # NoMods
                                        /\ ~vehicleHandlings[v].uses})
    /\ d \in Seq(Messages) /\ \A i \in 1..Len(d) : d[i].type = "Bind"
    /\ toClient' = (((toClient \o a) \o b) \o c) \o d
LEMMA AuthorizedParts ==
  ASSUME ServerTypes, OnPlayerAuthorized
  PROVE  \E a, b, c, d : AuthorizedTells(a, b, c, d)
<1> DEFINE S == {m \in Models : modelHandlings[m] # NoMods}
           T == {v \in exists : vehicleHandlings[v].mods # NoMods
                                /\ ~vehicleHandlings[v].uses}
           U == {v \in streamed : bound[v] # None}
<1> PICK a : a = [i \in 1..Len(SetToSeq(S)) |-> SetModelMsg(SetToSeq(S)[i])]
  OBVIOUS
<1> PICK b : b = [i \in 1..Len(SetToSeq(doorMissing)) |->
                      MissingMsg(SetToSeq(doorMissing)[i])]
  OBVIOUS
<1> PICK c : c = [i \in 1..Len(SetToSeq(T)) |-> SetVehicleMsg(SetToSeq(T)[i])]
  OBVIOUS
<1> PICK d : d = [i \in 1..Len(SetToSeq(U)) |->
                      [type |-> "Bind", vehicle |-> SetToSeq(U)[i]]]
  OBVIOUS
<1>1. toClient' = (((toClient \o a) \o b) \o c) \o d
  BY DEF OnPlayerAuthorized, Each
<1>2. /\ S \subseteq Models /\ T \subseteq Vehicles /\ U \subseteq Vehicles
      /\ doorMissing \subseteq Vehicles
  BY DEF ServerTypes
<1>3. ModelsTold(a, S) /\ VehiclesTold(c, T)
      /\ d \in Seq(Messages) /\ \A i \in 1..Len(d) : d[i].type = "Bind"
  <2> HIDE DEF S, T, U
  <2>1. ModelsTold(a, S) BY <1>2, EachSetModel
  <2>2. VehiclesTold(c, T) BY <1>2, EachSetVehicle
  <2>3. d \in Seq(Messages) /\ \A i \in 1..Len(d) : d[i].type = "Bind"
    BY <1>2, EachBind
  <2> QED BY <2>1, <2>2, <2>3
<1>4. DoorsTold(b, doorMissing) BY <1>2, EachMissing
<1> QED BY <1>1, <1>3, <1>4 DEF AuthorizedTells

StreamTells(v, a, b, c) ==
    /\ DoorsTold(a, {v} \cap doorMissing)
    /\ b = IF vehicleHandlings[v].mods # NoMods THEN <<SetVehicleMsg(v)>> ELSE <<>>
    /\ b \in Seq(Messages) /\ \A i \in 1..Len(b) : b[i].type = "SetVehicle"
    /\ c \in Seq(Messages) /\ \A i \in 1..Len(c) : c[i].type = "Bind"
    /\ SendAuthorized((a \o b) \o c)
LEMMA StreamParts ==
  ASSUME ServerTypes, NEW v \in Vehicles, OnVehicleStreamIn(v)
  PROVE  \E a, b, c : StreamTells(v, a, b, c)
<1> DEFINE S == {v} \cap doorMissing
<1> PICK a : a = [i \in 1..Len(SetToSeq(S)) |-> MissingMsg(SetToSeq(S)[i])]
  OBVIOUS
<1> PICK b : b = IF vehicleHandlings[v].mods # NoMods THEN <<SetVehicleMsg(v)>>
                                                      ELSE <<>>
  OBVIOUS
<1> PICK c : c = IF bound[v] # None THEN <<[type |-> "Bind", vehicle |-> v]>>
                                    ELSE <<>>
  OBVIOUS
<1>1. SendAuthorized((a \o b) \o c) BY DEF OnVehicleStreamIn, Each
<1>2. DoorsTold(a, S)
  <2>1. S \subseteq Vehicles OBVIOUS
  <2> HIDE DEF S
  <2> QED BY <2>1, EachMissing
<1>3. b \in Seq(Messages) /\ \A i \in 1..Len(b) : b[i].type = "SetVehicle"
  <2>1. SetVehicleMsg(v) \in Messages /\ SetVehicleMsg(v).type = "SetVehicle"
    BY MessageTypes, TypeOf
  <2> QED BY <2>1
<1>4. c \in Seq(Messages) /\ \A i \in 1..Len(c) : c[i].type = "Bind"
  <2>1. [type |-> "Bind", vehicle |-> v] \in Messages BY MessageTypes
  <2> QED BY <2>1
<1> QED BY <1>1, <1>2, <1>3, <1>4 DEF StreamTells

LEMMA GatedKinds ==
  ASSUME NEW K, Sends(IF authorized THEN K ELSE {})
  PROVE  Sends(K) /\ (~authorized => Sends({}))
<1>1. (IF authorized THEN K ELSE {}) \subseteq K OBVIOUS
<1>2. Sends(K) BY <1>1, MoreKinds
<1> QED BY <1>2

LEMMA NothingSends ==
  ASSUME ChannelTypes, toClient' = toClient
  PROVE  \A K : Sends(K)
<1>1. <<>> \in Seq(Messages) OBVIOUS
<1> QED BY <1>1, NoneSent DEF Sends

LEMMA TickSends ==
  ASSUME ServerTypes, ChannelTypes, ProcessTick
  PROVE  Sends(IF authorized THEN {"SetVehicle", "SetModel"} ELSE {})
<1> DEFINE K == {"SetVehicle", "SetModel"}
<1>1. PICK a, b : TickTells(a, b) BY TickParts
<1>2. /\ a \in Seq(Messages) /\ \A i \in 1..Len(a) : a[i].type \in K
      /\ b \in Seq(Messages) /\ \A i \in 1..Len(b) : b[i].type \in K
  BY <1>1 DEF TickTells, VehiclesTold, ModelsTold
<1>3. SendAuthorized(a \o b) BY <1>1 DEF TickTells
<1> HIDE DEF K
<1>4. a \o b \in Seq(Messages) /\ \A i \in 1..Len(a \o b) : (a \o b)[i].type \in K
  BY <1>2, BothKinds
<1>5. Sends(IF authorized THEN K ELSE {}) BY <1>3, <1>4, Gated
<1> QED BY <1>5 DEF K

LEMMA StreamSends ==
  ASSUME ServerTypes, ChannelTypes, NEW v \in Vehicles, OnVehicleStreamIn(v)
  PROVE  Sends(IF authorized THEN {"Door", "SetVehicle", "Bind"} ELSE {})
<1> DEFINE K == {"Door", "SetVehicle", "Bind"}
<1>1. PICK a, b, c : StreamTells(v, a, b, c) BY StreamParts
<1>2. /\ a \in Seq(Messages) /\ \A i \in 1..Len(a) : a[i].type \in K
      /\ b \in Seq(Messages) /\ \A i \in 1..Len(b) : b[i].type \in K
      /\ c \in Seq(Messages) /\ \A i \in 1..Len(c) : c[i].type \in K
  BY <1>1 DEF StreamTells, DoorsTold
<1>3. SendAuthorized((a \o b) \o c) BY <1>1 DEF StreamTells
<1> HIDE DEF K
<1>4. a \o b \in Seq(Messages) /\ \A i \in 1..Len(a \o b) : (a \o b)[i].type \in K
  BY <1>2, BothKinds
<1>5. /\ (a \o b) \o c \in Seq(Messages)
      /\ \A i \in 1..Len((a \o b) \o c) : ((a \o b) \o c)[i].type \in K
  BY <1>2, <1>4, BothKinds
<1>6. Sends(IF authorized THEN K ELSE {}) BY <1>3, <1>5, Gated
<1> QED BY <1>6 DEF K

\* ResetAll is known by the kinds of its packets only: the client it is sent to
\* counts as apart from then on.
LEMMA ResetAllSends ==
  ASSUME ServerTypes, ChannelTypes, ResetAll
  PROVE  \E q \in Seq(Messages) :
           /\ \A i \in 1..Len(q) : q[i].type \in {"ResetVehicle", "ResetModel"}
           /\ toClient' = (toClient \o q)
                \o (IF playerHandling # None THEN <<[type |-> "ResetPlayer"]>>
                                             ELSE <<>>)
<1> DEFINE K == {"ResetVehicle", "ResetModel"}
           S == {v \in exists : vehicleHandlings[v].mods # NoMods}
           T == {m \in Models : modelHandlings[m] # NoMods}
<1> PICK a : a = [i \in 1..Len(SetToSeq(S)) |-> ResetVehicleMsg(SetToSeq(S)[i])]
  OBVIOUS
<1> PICK b : b = [i \in 1..Len(SetToSeq(T)) |->
                      [type |-> "ResetModel", model |-> SetToSeq(T)[i]]]
  OBVIOUS
<1> PICK c : c = IF playerHandling # None THEN <<[type |-> "ResetPlayer"]>>
                                          ELSE <<>>
  OBVIOUS
<1>1. toClient' = ((toClient \o a) \o b) \o c BY DEF ResetAll, Each
<1>2. S \subseteq Vehicles /\ T \subseteq Models BY DEF ServerTypes
<1>3. /\ a \in Seq(Messages) /\ \A i \in 1..Len(a) : a[i].type \in K
      /\ b \in Seq(Messages) /\ \A i \in 1..Len(b) : b[i].type \in K
  <2> HIDE DEF S, T
  <2>1. a \in Seq(Messages) /\ \A i \in 1..Len(a) : a[i].type = "ResetVehicle"
    BY <1>2, EachResetVehicle
  <2>2. b \in Seq(Messages) /\ \A i \in 1..Len(b) : b[i].type = "ResetModel"
    BY <1>2, EachResetModel
  <2> QED BY <2>1, <2>2
<1> HIDE DEF K
<1>4. a \o b \in Seq(Messages) /\ \A i \in 1..Len(a \o b) : (a \o b)[i].type \in K
  BY <1>3, BothKinds
<1>5. (toClient \o a) \o b = toClient \o (a \o b)
  <2>0. \A q, r, t \in Seq(Messages) : (q \o r) \o t = q \o (r \o t)
    BY Joined
  <2>1. toClient \in Seq(Messages) BY DEF ChannelTypes
  <2>2. a \in Seq(Messages) /\ b \in Seq(Messages) BY <1>3
  <2> QED BY ONLY <2>1, <2>2, <2>0
<1> QED BY <1>1, <1>4, <1>5 DEF K

-----------------------------------------------------------------------------
(* The inductive invariant, by what it is about. *)

\* What is known of a door: the packet or the task that says it, or the state.
DoorAbout(v) == {p \in Messages : p.type = "Door" /\ p.vehicle = v}
DoorSays(v)  == {p \in DoorAbout(v) : p.gone <=> v \in doorMissing}
DoorKnown(v) ==
    \/ Tells(toClient, DoorAbout(v), DoorSays(v))
    \/ /\ Quiet(toClient, DoorAbout(v))
       /\ \/ Tells(tasks, DoorAbout(v), DoorSays(v))
          \/ Quiet(tasks, DoorAbout(v)) /\ (v \in doorState <=> v \in doorMissing)
DoorUnheard(v) ==
    /\ Quiet(toClient, DoorAbout(v)) /\ Quiet(tasks, DoorAbout(v))
    /\ v \notin doorState
DoorOk(v) == /\ authorized /\ v \in exists => DoorKnown(v)
             /\ ~authorized \/ v \notin born => DoorUnheard(v)
DoorInv == \A v \in Vehicles : DoorOk(v)
DoorShown ==
    \A v \in pool : /\ v \in doorGone => v \in doorState
                    /\ v \in previous /\ v \in doorState => v \in doorGone

\* The player's handling.
PlayerAbout == {p \in Messages : p.type \in {"SetPlayer", "ResetPlayer"}}
PlayerSays  == {p \in PlayerAbout : IF p.type = "SetPlayer"
                                    THEN playerHandling = p.mass
                                    ELSE playerHandling = None}
PlayerInv ==
    /\ authorized => \/ Tells(toClient, PlayerAbout, PlayerSays)
                     \/ Quiet(toClient, PlayerAbout) /\ player = playerHandling
    /\ ~authorized => Quiet(toClient, PlayerAbout) /\ player = None
                      /\ playerHandling = None

\* The vehicle the player is in, or was in, has been in a frame and is in sight:
\* a copy of the player's block is nowhere else.
RideInv ==
    /\ {ride, lastRide} \subseteq (pool \cap streamed \cap previous) \cup {None}
    /\ \A v \in Vehicles : applied[v] # None => v \in {ride, lastRide}

\* A vehicle's own data has what was set of it.
ServerAgrees ==
    \A v \in Vehicles :
       LET e == vehicleHandlings[v] IN
       /\ e.uses <=> e.mods = NoMods
       /\ e.mods.mass # None => e.mass = e.mods.mass
       /\ e.mods.plane # None => e.plane = e.mods.plane

\* A vehicle's own handling: the client has it, in the vehicle's block or waiting
\* for the vehicle, when it is due; a client that is not authorized and a
\* vehicle that never was have nothing.
OwnAbout(v) == {p \in Messages : p.type \in {"SetVehicle", "ResetVehicle"}
                                 /\ p.vehicle = v}
OwnSays(v)  == {p \in OwnAbout(v) :
                  IF p.type = "SetVehicle"
                  THEN p.mods = vehicleHandlings[v].mods /\ p.mods # NoMods
                  ELSE vehicleHandlings[v].mods = NoMods}
OwnHas(v) ==
    LET mods == vehicleHandlings[v].mods IN
    /\ mods = NoMods => own[v] = None /\ pending[v] = NoMods
    /\ mods.mass # None => OrElse(pending[v].mass, own[v]) = mods.mass
    /\ mods.plane # None =>
          IF pending[v].plane # None THEN pending[v].plane = mods.plane
          ELSE /\ v \in flying <=> mods.plane
               /\ v \in flyingByPtr => mods.plane
OwnNothing(v) == /\ Quiet(toClient, OwnAbout(v))
                 /\ own[v] = None /\ pending[v] = NoMods
OwnDue(v) == /\ authorized /\ ~apart /\ v \in exists
             /\ v \notin outVehicles \/ vehicleHandlings[v].mods = NoMods
OwnOk(v) == /\ OwnDue(v) => \/ Tells(toClient, OwnAbout(v), OwnSays(v))
                            \/ Quiet(toClient, OwnAbout(v)) /\ OwnHas(v)
            /\ ~authorized \/ (v \notin born /\ ~apart) => OwnNothing(v)
OwnInv == \A v \in Vehicles : OwnOk(v)

\* The base model's mass.  A client that is not authorized has at most a block
\* that is the game's.
ModelAbout == {p \in Messages :
                  \/ p.type = "ResetModel" /\ p.model = Base
                  \/ p.type = "SetModel" /\ p.model = Base /\ p.mods.mass # None}
ModelSays  == {p \in ModelAbout : IF p.type = "SetModel"
                                  THEN modelHandlings[Base].mass = p.mods.mass
                                  ELSE modelHandlings[Base].mass = None}
ModelResets == {p \in ModelAbout : p.type = "ResetModel"}
ModelHas == IF modelHandlings[Base].mass = None THEN model[Base] \in {None, Stock}
            ELSE model[Base] = modelHandlings[Base].mass
ModelInv ==
    /\ authorized /\ ~apart
       /\ (Base \notin outModels \/ modelHandlings[Base].mass = None) =>
          \/ Tells(toClient, ModelAbout, ModelSays)
          \/ Quiet(toClient, ModelAbout) /\ ModelHas
    /\ ~authorized =>
          /\ \/ Tells(toClient, ModelAbout, ModelResets)
             \/ Quiet(toClient, ModelAbout)
          /\ model[Base] \in {None, Stock}

\* What a vehicle that has been in a frame is pointed at: its own block, the
\* player's, its model's, whichever comes first.
Pointed(v) ==
    /\ own[v] # None => pointer[v] = "own"
    /\ own[v] = None /\ binding[v] = None =>
          /\ applied[v] # None => pointer[v] = "applied"
          /\ applied[v] = None /\ model[Base] # None => pointer[v] = Base
PointInv == \A v \in (pool \cap previous) \ strayed : Pointed(v)
\* Nothing waits for a vehicle that a frame has found.
WaitInv == /\ pending \in [Vehicles -> Mods]
            /\ \A v \in pool \cap previous : pending[v] = NoMods

-----------------------------------------------------------------------------
(* How the packets and tasks under way change. *)

\* Packets of other kinds leave it as it is.
LEMMA QuietKinds ==
  ASSUME ChannelTypes, NEW K, Sends(K), NEW A,
         \A p \in Messages : p \in A => p.type \notin K
  PROVE  /\ Quiet(toClient, A) => Quiet(toClient', A)
         /\ \A G : Tells(toClient, A, G) => Tells(toClient', A, G)
<1>1. PICK r \in Seq(Messages) : Sent(r, K) BY DEF Sends
<1>2. toClient \in Seq(Messages) /\ toClient' = toClient \o r
  BY <1>1 DEF Sent, ChannelTypes
<1>3. Quiet(r, A)
  <2>1. \A i \in 1..Len(r) : r[i] \in Messages /\ r[i].type \in K
    BY <1>1 DEF Sent
  <2> QED BY <2>1 DEF Quiet
<1>4. Quiet(toClient, A) => Quiet(toClient \o r, A) BY <1>2, <1>3, QuietBoth
<1>5. \A G : Tells(toClient, A, G) => Tells(toClient \o r, A, G)
  BY <1>2, <1>3, TellsStill
<1> QED BY <1>2, <1>4, <1>5

\* Only an authorized player is sent packets of kinds K.
Gives(K) == Sends(IF authorized THEN K ELSE {})

LEMMA QuietGiven ==
  ASSUME ChannelTypes, NEW K, Gives(K), NEW A,
         ~authorized \/ \A p \in Messages : p \in A => p.type \notin K
  PROVE  /\ Quiet(toClient, A) => Quiet(toClient', A)
         /\ \A G : Tells(toClient, A, G) => Tells(toClient', A, G)
<1>1. \A p \in Messages : p \in A => p.type \notin (IF authorized THEN K ELSE {})
  OBVIOUS
<1>2. Sends(IF authorized THEN K ELSE {}) BY DEF Gives
<1> QED BY <1>1, <1>2, QuietKinds

LEMMA SendsTypes ==
  ASSUME ChannelTypes, NEW K, Sends(K), authorized \/ K \subseteq {"ResetModel"},
         UNCHANGED <<authorized, tasks>>
  PROVE  ChannelTypes'
<1>1. PICK r \in Seq(Messages) : Sent(r, K) BY DEF Sends
<1>2. toClient \in Seq(Messages) /\ toClient' = toClient \o r
  BY <1>1 DEF Sent, ChannelTypes
<1>3. toClient' \in Seq(Messages) BY <1>2
<1>4. ASSUME ~authorized
      PROVE  \A i \in 1..Len(toClient \o r) : (toClient \o r)[i].type = "ResetModel"
  <2>1. \A i \in 1..Len(toClient) : toClient[i].type \in {"ResetModel"}
    BY <1>4 DEF ChannelTypes
  <2>2. \A i \in 1..Len(r) : r[i].type \in {"ResetModel"}
    BY <1>1, <1>4 DEF Sent
  <2>3. \A i \in 1..Len(toClient \o r) : (toClient \o r)[i].type \in {"ResetModel"}
    BY <1>2, <2>1, <2>2, BothKinds
  <2> QED BY <2>3
<1> QED BY <1>2, <1>3, <1>4 DEF ChannelTypes

LEMMA GivesTypes ==
  ASSUME ChannelTypes, NEW K, Gives(K), UNCHANGED <<authorized, tasks>>
  PROVE  ChannelTypes'
<1>1. authorized \/ (IF authorized THEN K ELSE {}) \subseteq {"ResetModel"} OBVIOUS
<1> QED BY <1>1, SendsTypes DEF Gives

LEMMA NothingGiven ==
  ASSUME ChannelTypes, toClient' = toClient
  PROVE  Gives({})
BY NothingSends DEF Gives

LEMMA OneGiven ==
  ASSUME ChannelTypes, NEW p \in Messages, SendAuthorized(<<p>>)
  PROVE  Gives({p.type})
BY OneGated DEF Gives

LEMMA MoreGiven ==
  ASSUME NEW K, NEW L, K \subseteq L, Gives(K)
  PROVE  Gives(L)
<1>1. (IF authorized THEN K ELSE {}) \subseteq (IF authorized THEN L ELSE {})
  OBVIOUS
<1> QED BY <1>1, MoreKinds DEF Gives

\* What each native sends.
LEMMA VehicleNativeGives ==
  ASSUME ServerTypes, ChannelTypes, NEW v \in Vehicles
  PROVE  /\ OnCreateVehicle(v) => Gives({})
         /\ OnDestroyVehicle(v) => Gives({"Unbind"})
         /\ \A mods \in Given : SetVehicleHandling(v, mods) => Gives({})
         /\ ResetVehicleHandling(v) => Gives({"ResetVehicle"})
         /\ BroadcastVehicleCorrection(v) => Gives({"SetVehicle", "ResetVehicle"})
         /\ \A gone \in BOOLEAN : SetVehicleDoorMissing(v, gone) => Gives({"Door"})
         /\ BindVehicle(v) => Gives({"Bind"})
         /\ UnbindVehicle(v) => Gives({"Unbind"})
         /\ OnVehicleStreamIn(v) => Gives({"Door", "SetVehicle", "Bind"})
         /\ StreamOut(v) => Gives({})
<1>0. /\ [type |-> "Bind", vehicle |-> v] \in Messages
      /\ [type |-> "Unbind", vehicle |-> v] \in Messages
      /\ ResetVehicleMsg(v) \in Messages /\ ResetVehicleMsg(v).type = "ResetVehicle"
      /\ SetVehicleMsg(v) \in Messages /\ SetVehicleMsg(v).type = "SetVehicle"
      /\ \A gone \in BOOLEAN : DoorMsg(v, gone) \in Messages
                               /\ DoorMsg(v, gone).type = "Door"
  BY MessageTypes, TypeOf DEF DoorMsg
<1>1. OnCreateVehicle(v) => Gives({})
  BY NothingGiven DEF OnCreateVehicle
<1>2. ASSUME OnDestroyVehicle(v) PROVE Gives({"Unbind"})
  <2>1. CASE bound[v] # None
    <3>1. SendAuthorized(<<[type |-> "Unbind", vehicle |-> v]>>)
      BY <1>2, <2>1 DEF OnDestroyVehicle
    <3>2. [type |-> "Unbind", vehicle |-> v].type = "Unbind" OBVIOUS
    <3>3. Gives({[type |-> "Unbind", vehicle |-> v].type}) BY <1>0, <3>1, OneGiven
    <3> QED BY <3>2, <3>3
  <2>2. CASE bound[v] = None
    <3>1. Gives({}) BY <1>2, <2>2, NothingGiven DEF OnDestroyVehicle
    <3>2. {} \subseteq {"Unbind"} OBVIOUS
    <3> QED BY <3>1, <3>2, MoreGiven
  <2> QED BY <2>1, <2>2
<1>3. \A mods \in Given : SetVehicleHandling(v, mods) => Gives({})
  BY NothingGiven DEF SetVehicleHandling
<1>4. ASSUME ResetVehicleHandling(v) PROVE Gives({"ResetVehicle"})
  <2>1. SendAuthorized(<<ResetVehicleMsg(v)>>) BY <1>4 DEF ResetVehicleHandling
  <2>2. Gives({ResetVehicleMsg(v).type}) BY <1>0, <2>1, OneGiven
  <2> QED BY <1>0, <2>2
<1>5. ASSUME BroadcastVehicleCorrection(v)
      PROVE  Gives({"SetVehicle", "ResetVehicle"})
  <2>1. PICK p \in {SetVehicleMsg(v), ResetVehicleMsg(v)} : SendAuthorized(<<p>>)
    BY <1>5 DEF BroadcastVehicleCorrection
  <2>2. p \in Messages /\ {p.type} \subseteq {"SetVehicle", "ResetVehicle"}
    BY <1>0
  <2>3. Gives({p.type}) BY <2>1, <2>2, OneGiven
  <2> QED BY <2>2, <2>3, MoreGiven
<1>6. ASSUME NEW gone \in BOOLEAN, SetVehicleDoorMissing(v, gone)
      PROVE  Gives({"Door"})
  <2>1. SendAuthorized(<<DoorMsg(v, gone)>>) BY <1>6 DEF SetVehicleDoorMissing
  <2>2. Gives({DoorMsg(v, gone).type}) BY <1>0, <2>1, OneGiven
  <2> QED BY <1>0, <2>2
<1>7. ASSUME BindVehicle(v) PROVE Gives({"Bind"})
  <2>1. SendAuthorized(<<[type |-> "Bind", vehicle |-> v]>>) BY <1>7 DEF BindVehicle
  <2>2. [type |-> "Bind", vehicle |-> v].type = "Bind" OBVIOUS
  <2>3. Gives({[type |-> "Bind", vehicle |-> v].type}) BY <1>0, <2>1, OneGiven
  <2> QED BY <2>2, <2>3
<1>8. ASSUME UnbindVehicle(v) PROVE Gives({"Unbind"})
  <2>1. SendAuthorized(<<[type |-> "Unbind", vehicle |-> v]>>)
    BY <1>8 DEF UnbindVehicle
  <2>2. [type |-> "Unbind", vehicle |-> v].type = "Unbind" OBVIOUS
  <2>3. Gives({[type |-> "Unbind", vehicle |-> v].type}) BY <1>0, <2>1, OneGiven
  <2> QED BY <2>2, <2>3
<1>9. OnVehicleStreamIn(v) => Gives({"Door", "SetVehicle", "Bind"})
  BY StreamSends DEF Gives
<1>10. StreamOut(v) => Gives({})
  BY NothingGiven DEF StreamOut
<1> QED BY <1>1, <1>2, <1>3, <1>4, <1>5, <1>6, <1>7, <1>8, <1>9, <1>10

LEMMA OtherNativeGives ==
  ASSUME ServerTypes, ChannelTypes
  PROVE  /\ \A m \in Models, mods \in Given : SetModelHandling(m, mods) => Gives({})
         /\ \A m \in Models : ResetModelHandling(m) =>
               /\ Sends({"ResetModel"})
               /\ toClient' = toClient \o <<[type |-> "ResetModel", model |-> m]>>
         /\ \A x \in Masses : SetPlayerHandling(x) => Gives({"SetPlayer"})
         /\ ResetPlayerHandling => Gives({"ResetPlayer"})
         /\ ProcessTick => Gives({"SetVehicle", "SetModel"})
         /\ ResetAll => Gives({"ResetVehicle", "ResetModel", "ResetPlayer"})
<1>0. /\ [type |-> "ResetPlayer"] \in Messages
      /\ \A x \in Masses : [type |-> "SetPlayer", mass |-> x] \in Messages
      /\ \A m \in Models : [type |-> "ResetModel", model |-> m] \in Messages
  BY MessageTypes
<1>1. \A m \in Models, mods \in Given : SetModelHandling(m, mods) => Gives({})
  BY NothingGiven DEF SetModelHandling
<1>2. ASSUME NEW m \in Models, ResetModelHandling(m)
      PROVE  /\ Sends({"ResetModel"})
             /\ toClient' = toClient \o <<[type |-> "ResetModel", model |-> m]>>
  <2> PICK p : p = [type |-> "ResetModel", model |-> m] OBVIOUS
  <2>1. p \in Messages /\ p.type = "ResetModel" BY <1>0
  <2>2. toClient' = Append(toClient, p) BY <1>2 DEF ResetModelHandling
  <2>3. toClient' = toClient \o <<p>> BY <2>1, <2>2, Single DEF ChannelTypes
  <2>4. Sent(<<p>>, {p.type}) BY <2>1, <2>3, OneSent
  <2> QED BY <2>1, <2>3, <2>4 DEF Sends, Sent
<1>3. ASSUME NEW x \in Masses, SetPlayerHandling(x) PROVE Gives({"SetPlayer"})
  <2> PICK p : p = [type |-> "SetPlayer", mass |-> x] OBVIOUS
  <2>1. p \in Messages /\ p.type = "SetPlayer" BY <1>0
  <2>2. SendAuthorized(<<p>>) BY <1>3 DEF SetPlayerHandling
  <2>3. Gives({p.type}) BY <2>1, <2>2, OneGiven
  <2> QED BY <2>1, <2>3
<1>4. ASSUME ResetPlayerHandling PROVE Gives({"ResetPlayer"})
  <2> PICK p : p = [type |-> "ResetPlayer"] OBVIOUS
  <2>1. p \in Messages /\ p.type = "ResetPlayer" BY <1>0
  <2>2. SendAuthorized(<<p>>) BY <1>4 DEF ResetPlayerHandling
  <2>3. Gives({p.type}) BY <2>1, <2>2, OneGiven
  <2> QED BY <2>1, <2>3
<1>5. ProcessTick => Gives({"SetVehicle", "SetModel"})
  BY TickSends DEF Gives
<1>6. ASSUME ResetAll PROVE Gives({"ResetVehicle", "ResetModel", "ResetPlayer"})
  <2> DEFINE K == {"ResetVehicle", "ResetModel", "ResetPlayer"}
  <2> PICK c : c = IF playerHandling # None THEN <<[type |-> "ResetPlayer"]>>
                                            ELSE <<>>
    OBVIOUS
  <2>1. PICK q \in Seq(Messages) :
           /\ \A i \in 1..Len(q) : q[i].type \in {"ResetVehicle", "ResetModel"}
           /\ toClient' = (toClient \o q) \o c
    BY <1>6, ResetAllSends
  <2>2. c \in Seq(Messages) /\ \A i \in 1..Len(c) : c[i].type \in K
    <3>1. CASE playerHandling # None
      <4>1. c = <<[type |-> "ResetPlayer"]>> BY <3>1
      <4> QED BY <1>0, <4>1
    <3>2. CASE playerHandling = None
      <4>1. c = <<>> BY <3>2
      <4> QED BY <4>1
    <3> QED BY <3>1, <3>2
  <2>3. \A i \in 1..Len(q) : q[i].type \in K BY <2>1
  <2> HIDE DEF K
  <2>4. q \o c \in Seq(Messages) /\ \A i \in 1..Len(q \o c) : (q \o c)[i].type \in K
    BY <2>2, <2>3, BothKinds
  <2>5. toClient' = toClient \o (q \o c)
    <3>0. \A x, y, z \in Seq(Messages) : (x \o y) \o z = x \o (y \o z)
      BY Joined
    <3>1. toClient \in Seq(Messages) BY DEF ChannelTypes
    <3>2. (toClient \o q) \o c = toClient \o (q \o c) BY ONLY <2>2, <3>0, <3>1
    <3> QED BY <2>1, <3>2
  <2>6. authorized BY <1>6 DEF ResetAll
  <2>7. Sends(K) BY <2>4, <2>5 DEF Sends, Sent
  <2>8. Gives(K) BY <2>6, <2>7 DEF Gives
  <2> QED BY <2>8 DEF K
<1> QED BY <1>1, <1>2, <1>3, <1>4, <1>5, <1>6

-----------------------------------------------------------------------------
(* Types, for every step. *)

LEMMA TaskIsMessage ==
  ASSUME ChannelTypes
  PROVE  /\ tasks \in Seq(Messages) /\ toClient \in Seq(Messages)
         /\ tasks # <<>> => /\ Head(tasks) \in TaskMessages
                            /\ Tail(tasks) \in Seq(TaskMessages)
<1>1. TaskMessages \subseteq Messages BY DEF Messages
<1> QED BY <1>1 DEF ChannelTypes

\* A packet is taken from the head of the channel.
LEMMA PacketChannel ==
  ASSUME ChannelTypes, Packets
  PROVE  /\ toClient # <<>> /\ Msg \in Messages /\ Msg = Head(toClient)
         /\ toClient' = Tail(toClient) /\ Tail(toClient) \in Seq(Messages)
         /\ UNCHANGED serverVars /\ UNCHANGED apart
         /\ Orderly => pool \subseteq previous
         /\ ReceiveTask => tasks' = Append(tasks, Msg)
                           /\ Msg.type \in {"Bind", "Unbind", "Door"}
         /\ ~ReceiveTask => tasks' = tasks
                            /\ Msg.type \notin {"Bind", "Unbind", "Door"}
<1>1. /\ toClient # <<>> /\ toClient' = Tail(toClient)
      /\ UNCHANGED serverVars /\ UNCHANGED apart
      /\ SameFrame \/ pool \subseteq previous
  BY DEF Packets, ProcessVehicleMods, ResetVehicle, ProcessModelMods, ResetModel,
     ProcessPlayerMods, ResetPlayer, ReceiveTask, Take
<1>2. /\ Msg = Head(toClient) /\ Msg \in Messages
      /\ Tail(toClient) \in Seq(Messages)
  BY <1>1 DEF ChannelTypes, Msg
<1>3. ASSUME ReceiveTask
      PROVE  tasks' = Append(tasks, Msg) /\ Msg.type \in {"Bind", "Unbind", "Door"}
  BY <1>3 DEF ReceiveTask
<1>4. ASSUME ~ReceiveTask
      PROVE  tasks' = tasks /\ Msg.type \notin {"Bind", "Unbind", "Door"}
  BY <1>4 DEF Packets, ProcessVehicleMods, ResetVehicle, ProcessModelMods,
     ResetModel, ProcessPlayerMods, ResetPlayer
<1>5. Orderly => pool \subseteq previous BY <1>1 DEF Orderly
<1> QED BY ONLY <1>1, <1>2, <1>3, <1>4, <1>5, Zenon

\* Natives send packets, and none becomes a task on the server.
LEMMA NativeChannel ==
  ASSUME ServerTypes, ChannelTypes, Natives
  PROVE  ChannelTypes'
<1>1. UNCHANGED tasks
  BY DEF Natives, OnCreateVehicle, OnDestroyVehicle, SetVehicleHandling,
         ResetVehicleHandling, BroadcastVehicleCorrection, SetVehicleDoorMissing,
         BindVehicle, UnbindVehicle, OnVehicleStreamIn, StreamOut,
         SetModelHandling, ResetModelHandling, SetPlayerHandling,
         ResetPlayerHandling, ResetAll, ProcessTick, OnPlayerAuthorized,
         clientVars
<1>2. CASE OnPlayerAuthorized
  <2>1. PICK a, b, c, d : AuthorizedTells(a, b, c, d) BY <1>2, AuthorizedParts
  <2>2. /\ a \in Seq(Messages) /\ b \in Seq(Messages) /\ c \in Seq(Messages)
        /\ d \in Seq(Messages) /\ toClient \in Seq(Messages)
    BY <2>1 DEF AuthorizedTells, DoorsTold, ModelsTold, VehiclesTold, ChannelTypes
  <2>3. (((toClient \o a) \o b) \o c) \o d \in Seq(Messages) BY ONLY <2>2
  <2>4. toClient' \in Seq(Messages) BY <2>1, <2>3 DEF AuthorizedTells
  <2>5. authorized' BY <1>2 DEF OnPlayerAuthorized
  <2> QED BY <1>1, <2>4, <2>5 DEF ChannelTypes
<1>3. CASE ~OnPlayerAuthorized
  <2>1. UNCHANGED authorized
    BY <1>3 DEF Natives, OnCreateVehicle, OnDestroyVehicle, SetVehicleHandling,
         ResetVehicleHandling, BroadcastVehicleCorrection, SetVehicleDoorMissing,
         BindVehicle, UnbindVehicle, OnVehicleStreamIn, StreamOut,
         SetModelHandling, ResetModelHandling, SetPlayerHandling,
         ResetPlayerHandling, ResetAll, ProcessTick, serverVars
  <2>2. (\E K : Gives(K)) \/ Sends({"ResetModel"})
    BY <1>3, VehicleNativeGives, OtherNativeGives DEF Natives
  <2> QED BY <1>1, <2>1, <2>2, GivesTypes, SendsTypes
<1> QED BY <1>2, <1>3

LEMMA SameTypes ==
  ASSUME ServerTypes, ChannelTypes, UNCHANGED <<serverVars, toClient, tasks, apart>>
  PROVE  ServerTypes' /\ ChannelTypes'
BY DEF ServerTypes, ChannelTypes, serverVars

LEMMA GameChannel ==
  ASSUME Game
  PROVE  /\ UNCHANGED <<serverVars, toClient, apart>>
         /\ UNCHANGED tasks \/ RunTask
BY DEF Game, RunTask, Create, Process, Appear, Arrive, Disappear, Depart, Ride,
   LeaveRide, EnterRide

LEMMA TypesStep ==
  ASSUME ServerTypes, ChannelTypes, [Next]_vars
  PROVE  ServerTypes' /\ ChannelTypes'
<1>1. CASE Natives BY <1>1, NativeTypes, NativeChannel
<1>2. CASE Packets
  <2>1. /\ toClient' \in Seq(Messages) /\ UNCHANGED serverVars /\ UNCHANGED apart
        /\ toClient # <<>> /\ toClient' = Tail(toClient)
    BY <1>2, PacketChannel
  <2>2. tasks' \in Seq(TaskMessages)
    <3>1. CASE ReceiveTask
      <4>1. Msg \in TaskMessages /\ tasks' = Append(tasks, Msg)
        BY <1>2, <3>1, PacketChannel, MessageFields
      <4> QED BY <4>1 DEF ChannelTypes
    <3>2. CASE ~ReceiveTask
      BY <1>2, <3>2, PacketChannel DEF ChannelTypes
    <3> QED BY <3>1, <3>2
  <2>3. ~authorized => \A i \in 1..Len(Tail(toClient)) :
                          Tail(toClient)[i].type = "ResetModel"
    BY <2>1 DEF ChannelTypes
  <2> QED BY <2>1, <2>2, <2>3 DEF ServerTypes, ChannelTypes, serverVars
<1>3. CASE Game
  <2>1. CASE UNCHANGED tasks BY <1>3, <2>1, GameChannel, SameTypes
  <2>2. CASE RunTask
    <3>1. tasks # <<>> /\ tasks' = Tail(tasks) BY <2>2 DEF RunTask
    <3>2. tasks' \in Seq(TaskMessages) BY <3>1, TaskIsMessage
    <3> QED BY <1>3, <3>2, GameChannel DEF ServerTypes, ChannelTypes, serverVars
  <2> QED BY <1>3, <2>1, <2>2, GameChannel
<1>4. CASE Rejoin
  <2>1. toClient' = <<>> /\ UNCHANGED tasks BY <1>4 DEF Rejoin
  <2>2. Len(<<>>) = 0 /\ 1..0 = {} /\ <<>> \in Seq(Messages) OBVIOUS
  <2>3. ChannelTypes'
    BY <2>1, <2>2 DEF ChannelTypes
  <2>4. ServerTypes'
    BY <1>4 DEF Rejoin, ServerTypes
  <2> QED BY <2>3, <2>4
<1>5. CASE UNCHANGED vars
  BY <1>5, SameTypes DEF vars, clientVars
<1> QED BY <1>1, <1>2, <1>3, <1>4, <1>5 DEF Next

LEMMA InitTypes == Init => ServerTypes /\ ChannelTypes
<1> SUFFICES ASSUME Init PROVE ServerTypes /\ ChannelTypes OBVIOUS
<1>1. NoMods \in Mods BY DEF NoMods, Mods
<1>2. ServerTypes
  BY <1>1 DEF Init, ServerTypes, ServerHandling
<1>3. ChannelTypes
  BY DEF Init, ChannelTypes
<1> QED BY <1>2, <1>3

-----------------------------------------------------------------------------
(* Doors. *)

LEMMA DoorFields ==
  ASSUME NEW v
  PROVE  /\ \A p \in Messages : p \in DoorAbout(v) => p.type = "Door"
         /\ \A p \in Messages : p.type = "Door" /\ p.vehicle # v => p \notin DoorAbout(v)
         /\ DoorSays(v) \subseteq DoorAbout(v)
BY DEF DoorAbout, DoorSays

\* A native that is not about the door of v.
LEMMA DoorKept ==
  ASSUME ServerTypes, NEW v \in Vehicles, DoorOk(v),
         Quiet(toClient, DoorAbout(v)) => Quiet(toClient', DoorAbout(v)),
         \A G : Tells(toClient, DoorAbout(v), G) => Tells(toClient', DoorAbout(v), G),
         UNCHANGED <<tasks, doorState, authorized>>, born \subseteq born',
         v \in exists' => /\ v \in doorMissing' <=> v \in doorMissing
                          /\ v \in exists \/ v \notin born
  PROVE  DoorOk(v)'
<1>1. ASSUME authorized', v \in exists' PROVE DoorKnown(v)'
  <2>1. DoorSays(v)' = DoorSays(v) BY <1>1 DEF DoorSays
  <2>2. CASE v \in exists
    <3>1. DoorKnown(v) BY <1>1, <2>2 DEF DoorOk
    <3> QED BY <1>1, <2>1, <3>1 DEF DoorKnown
  <2>3. CASE v \notin exists
    <3>1. DoorUnheard(v) BY <1>1, <2>3 DEF DoorOk
    <3>2. v \notin doorMissing' BY <1>1, <2>3 DEF ServerTypes
    <3> QED BY <3>1, <3>2 DEF DoorKnown, DoorUnheard
  <2> QED BY <2>2, <2>3
<1>2. ASSUME ~authorized' \/ v \notin born' PROVE DoorUnheard(v)'
  <2>1. DoorUnheard(v) BY <1>2 DEF DoorOk
  <2> QED BY <2>1 DEF DoorUnheard
<1> QED BY <1>1, <1>2 DEF DoorOk

\* One that tells of it.
LEMMA DoorTold ==
  ASSUME NEW v \in Vehicles, authorized', v \in born',
         Tells(toClient', DoorAbout(v), DoorSays(v)')
  PROVE  DoorOk(v)'
BY DEF DoorOk, DoorKnown

\* Natives that are not about doors.
LEMMA OtherNativesDoors ==
  ASSUME Orderly, ServerTypes, ChannelTypes, DoorInv, Natives, ~OnPlayerAuthorized,
         \A w \in Vehicles : ~OnVehicleStreamIn(w)
            /\ \A gone \in BOOLEAN : ~SetVehicleDoorMissing(w, gone)
  PROVE  DoorInv'
<1>1. UNCHANGED <<tasks, doorState, authorized>>
  BY DEF Natives, OnCreateVehicle, OnDestroyVehicle, SetVehicleHandling,
         ResetVehicleHandling, BroadcastVehicleCorrection,
         BindVehicle, UnbindVehicle, StreamOut,
         SetModelHandling, ResetModelHandling, SetPlayerHandling,
         ResetPlayerHandling, ResetAll, ProcessTick, clientVars, serverVars, doorVars
<1>2. ASSUME NEW v \in Vehicles
      PROVE  /\ born \subseteq born'
             /\ v \in exists' => /\ v \in doorMissing' <=> v \in doorMissing
                                 /\ v \in exists \/ v \notin born
  BY DEF Natives, OnCreateVehicle, OnDestroyVehicle, SetVehicleHandling,
         ResetVehicleHandling, BroadcastVehicleCorrection,
         BindVehicle, UnbindVehicle, StreamOut,
         SetModelHandling, ResetModelHandling, SetPlayerHandling,
         ResetPlayerHandling, ResetAll, ProcessTick, serverVars, Orderly
<1>3. \/ \E K : Gives(K) /\ "Door" \notin K
      \/ Sends({"ResetModel"})
  <2> DEFINE L == {"Unbind", "Bind", "SetVehicle", "ResetVehicle", "SetModel",
                   "ResetModel", "SetPlayer", "ResetPlayer"}
  <2>1. /\ {} \subseteq L /\ {"Unbind"} \subseteq L /\ {"Bind"} \subseteq L
        /\ {"ResetVehicle"} \subseteq L /\ {"SetVehicle", "ResetVehicle"} \subseteq L
        /\ {"SetPlayer"} \subseteq L /\ {"ResetPlayer"} \subseteq L
        /\ {"SetVehicle", "SetModel"} \subseteq L
        /\ {"ResetVehicle", "ResetModel", "ResetPlayer"} \subseteq L
        /\ "Door" \notin L
    OBVIOUS
  <2> HIDE DEF L
  <2>2. \A K : K \subseteq L /\ Gives(K) => Gives(L) BY MoreGiven
  <2>3. ASSUME NEW v \in Vehicles,
               \/ OnCreateVehicle(v) \/ OnDestroyVehicle(v)
               \/ \E mods \in Given : SetVehicleHandling(v, mods)
               \/ ResetVehicleHandling(v) \/ BroadcastVehicleCorrection(v)
               \/ BindVehicle(v) \/ UnbindVehicle(v) \/ StreamOut(v)
        PROVE  Gives(L)
    BY ONLY <2>1, <2>2, <2>3, VehicleNativeGives, ServerTypes, ChannelTypes, Zenon
  <2>4. ASSUME \/ \E m \in Models, mods \in Given : SetModelHandling(m, mods)
               \/ \E x \in Masses : SetPlayerHandling(x)
               \/ ResetPlayerHandling \/ ResetAll \/ ProcessTick
        PROVE  Gives(L)
    BY ONLY <2>1, <2>2, <2>4, OtherNativeGives, ServerTypes, ChannelTypes, Zenon
  <2>5. ASSUME \E m \in Models : ResetModelHandling(m)
        PROVE  Sends({"ResetModel"})
    BY ONLY <2>5, OtherNativeGives, ServerTypes, ChannelTypes, Zenon
  <2> QED BY <2>1, <2>3, <2>4, <2>5 DEF Natives
<1>4. ASSUME NEW v \in Vehicles
      PROVE  /\ Quiet(toClient, DoorAbout(v)) => Quiet(toClient', DoorAbout(v))
             /\ \A G : Tells(toClient, DoorAbout(v), G)
                       => Tells(toClient', DoorAbout(v), G)
  <2>1. CASE \E K : Gives(K) /\ "Door" \notin K
    <3>1. PICK K : Gives(K) /\ "Door" \notin K BY <2>1
    <3>2. \A p \in Messages : p \in DoorAbout(v) => p.type \notin K
      BY <3>1, DoorFields
    <3> QED BY <3>1, <3>2, QuietGiven
  <2>2. CASE Sends({"ResetModel"})
    <3>1. \A p \in Messages : p \in DoorAbout(v) => p.type \notin {"ResetModel"}
      BY DoorFields
    <3> QED BY <2>2, <3>1, QuietKinds
  <2> QED BY <1>3, <2>1, <2>2
<1>5. \A v \in Vehicles : DoorOk(v)'
  <2> TAKE v \in Vehicles
  <2>1. DoorOk(v) BY DEF DoorInv
  <2> QED BY <1>1, <1>2, <1>4, <2>1, DoorKept
<1> QED BY <1>5 DEF DoorInv

LEMMA SetDoor ==
  ASSUME ServerTypes, ChannelTypes, DoorInv, NEW w \in Vehicles, NEW gone \in BOOLEAN,
         SetVehicleDoorMissing(w, gone)
  PROVE  DoorInv'
<1> PICK p : p = DoorMsg(w, gone) OBVIOUS
<1>1. p \in Messages /\ p.type = "Door" /\ p.vehicle = w /\ p.gone = gone
  BY MessageTypes DEF DoorMsg
<1>2. /\ UNCHANGED <<tasks, doorState, authorized, born, exists>> /\ w \in exists
      /\ toClient' = IF authorized THEN toClient \o <<p>> ELSE toClient
      /\ doorMissing' = IF gone THEN doorMissing \cup {w} ELSE doorMissing \ {w}
  BY DEF SetVehicleDoorMissing, SendAuthorized, clientVars, doorVars
<1>3. toClient \in Seq(Messages) BY DEF ChannelTypes
<1> SUFFICES ASSUME NEW v \in Vehicles PROVE DoorOk(v)'
  BY DEF DoorInv
<1>4. DoorOk(v) BY DEF DoorInv
<1>5. CASE ~authorized
  <2>1. DoorUnheard(v) BY <1>4, <1>5 DEF DoorOk
  <2> QED BY <1>2, <1>5, <2>1 DEF DoorOk, DoorUnheard
<1>6. CASE authorized /\ v = w
  <2>1. p \in DoorSays(v)' BY <1>1, <1>2, <1>6 DEF DoorSays, DoorAbout
  <2>2. Tells(<<p>>, DoorAbout(v), DoorSays(v)') BY <1>1, <1>3, <2>1, Single
  <2>3. Tells(toClient', DoorAbout(v), DoorSays(v)')
    BY <1>1, <1>2, <1>3, <1>6, <2>2, TellsLast, Single
  <2>4. v \in born' BY <1>2, <1>6 DEF ServerTypes
  <2> QED BY <1>2, <1>6, <2>3, <2>4, DoorTold
<1>7. CASE authorized /\ v # w
  <2>1. p \notin DoorAbout(v) BY <1>1, <1>7 DEF DoorAbout
  <2>2. Quiet(<<p>>, DoorAbout(v)) /\ <<p>> \in Seq(Messages)
    BY <1>1, <1>3, <2>1, Single
  <2>3. toClient' = toClient \o <<p>> BY <1>2, <1>7
  <2>4. Quiet(toClient, DoorAbout(v)) => Quiet(toClient', DoorAbout(v))
    BY <1>3, <2>2, <2>3, QuietBoth
  <2>5. \A G : Tells(toClient, DoorAbout(v), G) => Tells(toClient', DoorAbout(v), G)
    BY <1>3, <2>2, <2>3, TellsStill
  <2>6. /\ v \in doorMissing' <=> v \in doorMissing
        /\ v \in exists' => v \in exists
    BY <1>2, <1>7
  <2> QED BY <1>2, <1>4, <2>4, <2>5, <2>6, DoorKept
<1> QED BY <1>5, <1>6, <1>7

LEMMA StreamDoors ==
  ASSUME ServerTypes, ChannelTypes, DoorInv, NEW w \in Vehicles, OnVehicleStreamIn(w)
  PROVE  DoorInv'
<1>1. /\ UNCHANGED <<tasks, doorState, authorized, born, exists, doorMissing>>
  BY DEF OnVehicleStreamIn, clientVars, doorVars
<1>2. PICK a, b, c : StreamTells(w, a, b, c) BY StreamParts
<1>3. toClient \in Seq(Messages) BY DEF ChannelTypes
<1>4. /\ a \in Seq(Messages) /\ b \in Seq(Messages) /\ c \in Seq(Messages)
      /\ a \o b \in Seq(Messages) /\ (a \o b) \o c \in Seq(Messages)
  BY <1>2 DEF StreamTells, DoorsTold
<1> SUFFICES ASSUME NEW v \in Vehicles PROVE DoorOk(v)'
  BY DEF DoorInv
<1>5. DoorOk(v) BY DEF DoorInv
<1>6. Quiet(b, DoorAbout(v)) /\ Quiet(c, DoorAbout(v))
  <2>1. \A i \in 1..Len(b) : b[i] \in Messages /\ b[i].type # "Door"
    BY <1>2 DEF StreamTells
  <2>2. \A i \in 1..Len(c) : c[i] \in Messages /\ c[i].type # "Door"
    BY <1>2 DEF StreamTells
  <2> QED BY <2>1, <2>2, DoorFields DEF Quiet
<1>7. CASE ~authorized
  <2>1. toClient' = toClient BY <1>2, <1>7 DEF StreamTells, SendAuthorized
  <2> QED BY <1>1, <1>5, <2>1, DoorKept
<1>8. CASE authorized /\ v = w /\ v \in doorMissing
  <2>1. toClient' = toClient \o ((a \o b) \o c)
    BY <1>2, <1>8 DEF StreamTells, SendAuthorized
  <2>2. MissingMsg(v) \in DoorSays(v)
    <3>1. MissingMsg(v) \in Messages BY MessageTypes
    <3> QED BY <1>8, <3>1, TypeOf DEF DoorSays, DoorAbout
  <2>3. Tells(a, DoorAbout(v), DoorSays(v))
    <3>1. DoorsTold(a, {w} \cap doorMissing) BY <1>2 DEF StreamTells
    <3>2. v \in {w} \cap doorMissing
          /\ \A t \in {w} \cap doorMissing : MissingMsg(t) \in DoorAbout(v) => t = v
      BY <1>8
    <3> QED BY <2>2, <3>1, <3>2 DEF DoorsTold
  <2>4. Tells(a \o b, DoorAbout(v), DoorSays(v)) BY <1>4, <1>6, <2>3, TellsStill
  <2>5. Tells((a \o b) \o c, DoorAbout(v), DoorSays(v))
    BY <1>4, <1>6, <2>4, TellsStill
  <2>6. Tells(toClient', DoorAbout(v), DoorSays(v))
    BY <1>3, <1>4, <2>1, <2>5, TellsLast
  <2>7. DoorSays(v)' = DoorSays(v) BY <1>1 DEF DoorSays
  <2>8. v \in born' BY <1>1, <1>8 DEF ServerTypes
  <2> QED BY <1>1, <1>8, <2>6, <2>7, <2>8, DoorTold
<1>9. CASE authorized /\ ~(v = w /\ v \in doorMissing)
  <2>1. toClient' = toClient \o ((a \o b) \o c)
    BY <1>2, <1>9 DEF StreamTells, SendAuthorized
  <2>2. Quiet(a, DoorAbout(v))
    <3>1. DoorsTold(a, {w} \cap doorMissing) BY <1>2 DEF StreamTells
    <3>2. \A s \in {w} \cap doorMissing : MissingMsg(s) \notin DoorAbout(v)
      BY <1>9, TypeOf DEF DoorAbout
    <3> QED BY <3>1, <3>2 DEF DoorsTold
  <2>3. Quiet(a \o b, DoorAbout(v)) BY <1>4, <1>6, <2>2, QuietBoth
  <2>4. Quiet((a \o b) \o c, DoorAbout(v)) BY <1>4, <1>6, <2>3, QuietBoth
  <2>5. Quiet(toClient, DoorAbout(v)) => Quiet(toClient', DoorAbout(v))
    BY <1>3, <1>4, <2>1, <2>4, QuietBoth
  <2>6. \A G : Tells(toClient, DoorAbout(v), G) => Tells(toClient', DoorAbout(v), G)
    BY <1>3, <1>4, <2>1, <2>4, TellsStill
  <2> QED BY <1>1, <1>5, <2>5, <2>6, DoorKept
<1> QED BY <1>7, <1>8, <1>9

LEMMA AuthorizedDoors ==
  ASSUME ServerTypes, ChannelTypes, DoorInv, OnPlayerAuthorized
  PROVE  DoorInv'
<1>1. /\ UNCHANGED <<tasks, doorState, born, exists, doorMissing>>
      /\ ~authorized /\ authorized'
  BY DEF OnPlayerAuthorized, clientVars, doorVars
<1>2. PICK a, b, c, d : AuthorizedTells(a, b, c, d) BY AuthorizedParts
<1>3. toClient \in Seq(Messages) BY DEF ChannelTypes
<1>4. /\ a \in Seq(Messages) /\ b \in Seq(Messages) /\ c \in Seq(Messages)
      /\ d \in Seq(Messages)
      /\ toClient' = (((toClient \o a) \o b) \o c) \o d
  BY <1>2 DEF AuthorizedTells, DoorsTold, ModelsTold, VehiclesTold
<1> DEFINE q1 == toClient \o a
           q2 == q1 \o b
           q3 == q2 \o c
<1>5. q1 \in Seq(Messages) /\ q2 \in Seq(Messages) /\ q3 \in Seq(Messages)
      /\ toClient' = q3 \o d
  BY <1>3, <1>4
<1> SUFFICES ASSUME NEW v \in Vehicles PROVE DoorOk(v)'
  BY DEF DoorInv
<1>6. DoorUnheard(v) BY <1>1 DEF DoorInv, DoorOk
<1>7. Quiet(a, DoorAbout(v)) /\ Quiet(c, DoorAbout(v)) /\ Quiet(d, DoorAbout(v))
  <2>1. \A i \in 1..Len(a) : a[i] \in Messages /\ a[i].type # "Door"
    BY <1>2 DEF AuthorizedTells, ModelsTold
  <2>2. \A i \in 1..Len(c) : c[i] \in Messages /\ c[i].type # "Door"
    BY <1>2 DEF AuthorizedTells, VehiclesTold
  <2>3. \A i \in 1..Len(d) : d[i] \in Messages /\ d[i].type # "Door"
    BY <1>2 DEF AuthorizedTells
  <2> QED BY <2>1, <2>2, <2>3, DoorFields DEF Quiet
<1>8. DoorsTold(b, doorMissing) BY <1>2 DEF AuthorizedTells
<1>9. DoorSays(v)' = DoorSays(v) BY <1>1 DEF DoorSays
<1>10. CASE v \in doorMissing
  <2>1. MissingMsg(v) \in DoorSays(v)
    <3>1. MissingMsg(v) \in Messages BY MessageTypes
    <3> QED BY <1>10, <3>1, TypeOf DEF DoorSays, DoorAbout
  <2>2. \A t \in doorMissing : MissingMsg(t) \in DoorAbout(v) => t = v
    BY TypeOf DEF DoorAbout
  <2>3. Tells(b, DoorAbout(v), DoorSays(v)) BY <1>8, <1>10, <2>1, <2>2 DEF DoorsTold
  <2> HIDE DEF q1, q2, q3
  <2>4. Tells(q2, DoorAbout(v), DoorSays(v)) BY <1>4, <1>5, <2>3, TellsLast DEF q2
  <2>5. Tells(q3, DoorAbout(v), DoorSays(v))
    BY <1>4, <1>5, <1>7, <2>4, TellsStill DEF q3
  <2>6. Tells(toClient', DoorAbout(v), DoorSays(v))
    BY <1>4, <1>5, <1>7, <2>5, TellsStill
  <2>7. v \in born' BY <1>1, <1>10 DEF ServerTypes
  <2> QED BY <1>1, <1>9, <2>6, <2>7, DoorTold
<1>11. CASE v \notin doorMissing
  <2>1. Quiet(b, DoorAbout(v))
    <3>1. \A s \in doorMissing : MissingMsg(s) \notin DoorAbout(v)
      BY <1>11, TypeOf DEF DoorAbout
    <3> QED BY <1>8, <3>1 DEF DoorsTold
  <2> HIDE DEF q1, q2, q3
  <2>2. Quiet(q1, DoorAbout(v)) BY <1>3, <1>4, <1>6, <1>7, QuietBoth
        DEF q1, DoorUnheard
  <2>3. Quiet(q2, DoorAbout(v)) BY <1>4, <1>5, <2>1, <2>2, QuietBoth DEF q2
  <2>4. Quiet(q3, DoorAbout(v)) BY <1>4, <1>5, <1>7, <2>3, QuietBoth DEF q3
  <2>5. Quiet(toClient', DoorAbout(v)) BY <1>4, <1>5, <1>7, <2>4, QuietBoth
  <2>6. Quiet(tasks', DoorAbout(v)) /\ v \notin doorState' /\ v \notin doorMissing'
    BY <1>1, <1>6, <1>11 DEF DoorUnheard
  <2> QED BY <1>1, <2>5, <2>6 DEF DoorOk, DoorKnown, DoorUnheard
<1> QED BY <1>10, <1>11

LEMMA NativeDoors ==
  ASSUME Orderly, ServerTypes, ChannelTypes, DoorInv, Natives
  PROVE  DoorInv'
BY OtherNativesDoors, SetDoor, StreamDoors, AuthorizedDoors

LEMMA PacketDoors ==
  ASSUME ServerTypes, ChannelTypes, DoorInv, Packets
  PROVE  DoorInv'
<1>1. /\ toClient # <<>> /\ Msg \in Messages /\ Msg = Head(toClient)
      /\ toClient' = Tail(toClient) /\ Tail(toClient) \in Seq(Messages)
      /\ UNCHANGED serverVars
  BY PacketChannel
<1>2. UNCHANGED <<authorized, born, exists, doorMissing>> BY <1>1 DEF serverVars
<1>3. UNCHANGED doorState
  BY DEF Packets, ProcessVehicleMods, ResetVehicle, ProcessModelMods, ResetModel,
     ProcessPlayerMods, ResetPlayer, ReceiveTask, doorVars
<1>4. toClient \in Seq(Messages) /\ tasks \in Seq(Messages) BY TaskIsMessage
<1>5. \/ tasks' = tasks \o <<Msg>> /\ <<Msg>> \in Seq(Messages)
      \/ tasks' = tasks /\ Msg.type # "Door"
  <2>1. CASE ReceiveTask
    <3>1. tasks' = Append(tasks, Msg) BY <2>1, PacketChannel
    <3> QED BY <1>1, <1>4, <3>1, Single
  <2>2. CASE ~ReceiveTask
    BY <2>2, PacketChannel
  <2> QED BY <2>1, <2>2
<1> SUFFICES ASSUME NEW v \in Vehicles PROVE DoorOk(v)'
  BY DEF DoorInv
<1>6. DoorOk(v) BY DEF DoorInv
<1>7. /\ DoorSays(v)' = DoorSays(v) /\ DoorAbout(v)' = DoorAbout(v)
      /\ DoorSays(v) \subseteq DoorAbout(v)
  BY <1>2 DEF DoorSays, DoorAbout
<1>8. Quiet(toClient, DoorAbout(v)) =>
         Msg \notin DoorAbout(v) /\ Quiet(toClient', DoorAbout(v))
  BY <1>1, <1>4, TakesFirst
<1>9. ASSUME Msg \notin DoorAbout(v)
      PROVE  /\ Quiet(tasks, DoorAbout(v)) => Quiet(tasks', DoorAbout(v))
             /\ Tells(tasks, DoorAbout(v), DoorSays(v)) =>
                Tells(tasks', DoorAbout(v), DoorSays(v))
  <2>1. CASE tasks' = tasks BY <2>1
  <2>2. CASE tasks' = tasks \o <<Msg>> /\ <<Msg>> \in Seq(Messages)
    <3>1. Quiet(<<Msg>>, DoorAbout(v)) BY <1>1, <1>4, <1>9, Single
    <3> QED BY <1>4, <2>2, <3>1, QuietBoth, TellsStill
  <2> QED BY <1>5, <2>1, <2>2
<1>10. ASSUME authorized, v \in exists PROVE DoorKnown(v)'
  <2>1. CASE Tells(toClient, DoorAbout(v), DoorSays(v))
    <3>1. \/ Tells(toClient', DoorAbout(v), DoorSays(v))
          \/ Msg \in DoorSays(v) /\ Quiet(toClient', DoorAbout(v))
      BY <1>1, <1>4, <2>1, TakesFirst
    <3>2. CASE Tells(toClient', DoorAbout(v), DoorSays(v))
      BY <1>7, <3>2 DEF DoorKnown
    <3>3. CASE Msg \in DoorSays(v) /\ Quiet(toClient', DoorAbout(v))
      <4>1. Msg.type = "Door" BY <1>1, <1>7, <3>3, DoorFields
      <4>2. tasks' = tasks \o <<Msg>> /\ <<Msg>> \in Seq(Messages)
        BY <1>5, <4>1
      <4>3. Tells(<<Msg>>, DoorAbout(v), DoorSays(v)) BY <1>1, <1>4, <3>3, Single
      <4>4. Tells(tasks', DoorAbout(v), DoorSays(v))
        BY <1>4, <4>2, <4>3, TellsLast
      <4> QED BY <1>7, <3>3, <4>4 DEF DoorKnown
    <3> QED BY <3>1, <3>2, <3>3
  <2>2. CASE ~Tells(toClient, DoorAbout(v), DoorSays(v))
    <3>1. /\ Quiet(toClient, DoorAbout(v))
          /\ \/ Tells(tasks, DoorAbout(v), DoorSays(v))
             \/ /\ Quiet(tasks, DoorAbout(v))
                /\ v \in doorState <=> v \in doorMissing
      BY <1>6, <1>10, <2>2 DEF DoorOk, DoorKnown
    <3> QED BY <1>2, <1>3, <1>7, <1>8, <1>9, <3>1 DEF DoorKnown
  <2> QED BY <2>1, <2>2
<1>11. ASSUME ~authorized \/ v \notin born PROVE DoorUnheard(v)'
  <2>1. DoorUnheard(v) BY <1>6, <1>11 DEF DoorOk
  <2> QED BY <1>3, <1>7, <1>8, <1>9, <2>1 DEF DoorUnheard
<1> QED BY <1>2, <1>10, <1>11 DEF DoorOk

LEMMA TaskDoors ==
  ASSUME ServerTypes, ChannelTypes, DoorInv, RunTask
  PROVE  DoorInv'
<1>1. /\ tasks # <<>> /\ tasks' = Tail(tasks)
      /\ UNCHANGED serverVars /\ UNCHANGED toClient
  BY DEF RunTask
<1>2. UNCHANGED <<authorized, born, exists, doorMissing>> BY <1>1 DEF serverVars
<1>3. toClient \in Seq(Messages) /\ tasks \in Seq(Messages) BY TaskIsMessage
<1> PICK p : p = Head(tasks) OBVIOUS
<1>4. p \in TaskMessages /\ p \in Messages BY <1>1, TaskIsMessage DEF Messages
<1>5. IF p.type = "Door"
      THEN doorState' = IF p.gone THEN doorState \cup {p.vehicle}
                                  ELSE doorState \ {p.vehicle}
      ELSE doorState' = doorState
  <2>1. p.type \in {"Bind", "Unbind", "Door"} BY <1>4, MessageFields
  <2> QED BY <2>1 DEF RunTask, doorVars
<1> SUFFICES ASSUME NEW v \in Vehicles PROVE DoorOk(v)'
  BY DEF DoorInv
<1>6. DoorOk(v) BY DEF DoorInv
<1>7. /\ DoorSays(v)' = DoorSays(v) /\ DoorAbout(v)' = DoorAbout(v)
      /\ DoorSays(v) \subseteq DoorAbout(v)
  BY <1>2 DEF DoorSays, DoorAbout
<1>8. Quiet(tasks, DoorAbout(v)) =>
         p \notin DoorAbout(v) /\ Quiet(tasks', DoorAbout(v))
  BY <1>1, <1>3, TakesFirst
<1>9. p \notin DoorAbout(v) => (v \in doorState' <=> v \in doorState)
  BY <1>4, <1>5 DEF DoorAbout
<1>10. ASSUME authorized, v \in exists PROVE DoorKnown(v)'
  <2>1. DoorKnown(v) BY <1>6, <1>10 DEF DoorOk
  <2>2. CASE Tells(toClient, DoorAbout(v), DoorSays(v))
    BY <1>1, <1>7, <2>2 DEF DoorKnown
  <2>3. CASE Quiet(toClient, DoorAbout(v)) /\ Tells(tasks, DoorAbout(v), DoorSays(v))
    <3>1. \/ Tells(tasks', DoorAbout(v), DoorSays(v))
          \/ p \in DoorSays(v) /\ Quiet(tasks', DoorAbout(v))
      BY <1>1, <1>3, <2>3, TakesFirst
    <3>2. CASE Tells(tasks', DoorAbout(v), DoorSays(v))
      BY <1>1, <1>7, <2>3, <3>2 DEF DoorKnown
    <3>3. CASE p \in DoorSays(v) /\ Quiet(tasks', DoorAbout(v))
      <4>1. p.type = "Door" /\ p.vehicle = v /\ (p.gone <=> v \in doorMissing)
        BY <3>3 DEF DoorSays, DoorAbout
      <4>2. v \in doorState' <=> v \in doorMissing' BY <1>2, <1>5, <4>1
      <4> QED BY <1>1, <1>7, <2>3, <3>3, <4>2 DEF DoorKnown
    <3> QED BY <3>1, <3>2, <3>3
  <2>4. CASE /\ Quiet(toClient, DoorAbout(v)) /\ Quiet(tasks, DoorAbout(v))
             /\ v \in doorState <=> v \in doorMissing
    BY <1>1, <1>2, <1>7, <1>8, <1>9, <2>4 DEF DoorKnown
  <2> QED BY <2>1, <2>2, <2>3, <2>4 DEF DoorKnown
<1>11. ASSUME ~authorized \/ v \notin born PROVE DoorUnheard(v)'
  <2>1. DoorUnheard(v) BY <1>6, <1>11 DEF DoorOk
  <2> QED BY <1>1, <1>7, <1>8, <1>9, <2>1 DEF DoorUnheard
<1> QED BY <1>2, <1>10, <1>11 DEF DoorOk

LEMMA SameDoors ==
  ASSUME DoorInv,
         UNCHANGED <<toClient, tasks, authorized, born, exists, doorMissing, doorState>>
  PROVE  DoorInv'
<1>1. \A v : DoorSays(v)' = DoorSays(v) /\ DoorAbout(v)' = DoorAbout(v)
  BY DEF DoorSays, DoorAbout
<1> QED BY <1>1 DEF DoorInv, DoorOk, DoorKnown, DoorUnheard

LEMMA DoorStep ==
  ASSUME Orderly, ServerTypes, ChannelTypes, DoorInv, [Next]_vars
  PROVE  DoorInv'
<1>1. CASE Natives BY <1>1, NativeDoors
<1>2. CASE Packets BY <1>2, PacketDoors
<1>3. CASE RunTask BY <1>3, TaskDoors
<1>4. CASE Game /\ ~RunTask
  <2>1. UNCHANGED serverVars /\ UNCHANGED toClient /\ UNCHANGED tasks
    BY <1>4, GameChannel
  <2>2. UNCHANGED doorState
    BY <1>4 DEF Game, Create, Process, Appear, Arrive, Disappear, Depart, Ride,
       LeaveRide, EnterRide, doorVars
  <2> QED BY <2>1, <2>2, SameDoors DEF serverVars
<1>5. CASE Rejoin
  <2>1. /\ toClient' = <<>> /\ tasks = <<>> /\ tasks' = tasks /\ doorState' = {}
        /\ authorized' = FALSE
    BY <1>5 DEF Rejoin, Orderly
  <2>2. \A A : Quiet(toClient', A) /\ Quiet(tasks', A)
    BY <2>1, Nothing
  <2> QED BY <2>1, <2>2 DEF DoorInv, DoorOk, DoorUnheard
<1>6. CASE UNCHANGED vars
  BY <1>6, SameDoors DEF vars, serverVars, clientVars, doorVars
<1> QED BY <1>1, <1>2, <1>3, <1>4, <1>5, <1>6 DEF Next

\* The vehicle's own doors.
LEMMA ShownDoors ==
  ASSUME BlockInv, ChannelTypes, DoorShown, [Next]_vars
  PROVE  DoorShown'
<1>1. CASE Natives \/ Packets \/ UNCHANGED vars
  <2>1. UNCHANGED <<pool, previous, doorState, doorGone>>
    BY <1>1 DEF Natives, OnCreateVehicle, OnDestroyVehicle, SetVehicleHandling,
         ResetVehicleHandling, BroadcastVehicleCorrection, SetVehicleDoorMissing,
         BindVehicle, UnbindVehicle, OnVehicleStreamIn, StreamOut,
         SetModelHandling, ResetModelHandling, SetPlayerHandling,
         ResetPlayerHandling, ResetAll, ProcessTick, OnPlayerAuthorized,
         Packets, ProcessVehicleMods, ResetVehicle, ProcessModelMods, ResetModel,
         ProcessPlayerMods, ResetPlayer, ReceiveTask, vars, clientVars, doorVars,
         worldVars
  <2> QED BY <2>1 DEF DoorShown
<1>2. CASE Rejoin
  <2>1. /\ UNCHANGED <<pool, previous>> /\ doorState' = {}
        /\ doorGone' = doorGone \ (doorState \cap pool)
    BY <1>2 DEF Rejoin, worldVars
  <2> QED BY <2>1 DEF DoorShown
<1>3. CASE RunTask
  <2> PICK p : p = Head(tasks) OBVIOUS
  <2>1. UNCHANGED <<pool, previous>> /\ p.type \in {"Bind", "Unbind", "Door"}
    <3>1. tasks # <<>> BY <1>3 DEF RunTask
    <3>2. p \in TaskMessages BY <3>1, TaskIsMessage
    <3>3. p \in Messages BY <3>2 DEF Messages
    <3>4. p.type \in {"Bind", "Unbind", "Door"} BY <3>2, <3>3, MessageFields
    <3> QED BY <1>3, <3>4 DEF RunTask, worldVars
  <2>2. CASE p.type = "Bind"
    BY <1>3, <2>1, <2>2 DEF RunTask, doorVars, DoorShown
  <2>3. CASE p.type = "Unbind"
    <3>1. /\ doorState' = doorState
          /\ \/ doorGone' = doorGone
             \/ doorGone' = IF p.vehicle \in doorState THEN doorGone \cup {p.vehicle}
                                                       ELSE doorGone
      BY <1>3, <2>3 DEF RunTask, StreamIn
    <3> QED BY <2>1, <3>1 DEF DoorShown
  <2>4. CASE p.type = "Door"
    <3>1. /\ doorState' = IF p.gone THEN doorState \cup {p.vehicle}
                                    ELSE doorState \ {p.vehicle}
          /\ doorGone' = IF p.vehicle \notin pool THEN doorGone
                         ELSE IF p.gone THEN doorGone \cup {p.vehicle}
                         ELSE doorGone \ {p.vehicle}
      BY <1>3, <2>4 DEF RunTask
    <3> QED BY <2>1, <3>1 DEF DoorShown
  <2> QED BY <2>1, <2>2, <2>3, <2>4
<1>4. ASSUME NEW v \in Vehicles, Process(v) \/ Arrive(v) PROVE DoorShown'
  <2>1. /\ pool' = pool /\ doorState' = doorState
        /\ previous' = previous \/ previous' = previous \cup {v}
        /\ doorGone' = IF v \in doorState THEN doorGone \cup {v} ELSE doorGone
        /\ previous' \subseteq previous \cup {v}
    BY <1>4 DEF Process, Arrive, StreamIn, worldVars
  <2> QED BY <2>1 DEF DoorShown
<1>5. CASE \/ Create \/ LeaveRide \/ EnterRide
           \/ \E v \in Vehicles : Appear(v) \/ Disappear(v) \/ Depart(v)
           \/ \E v \in Vehicles \cup {None} : Ride(v)
  BY <1>5 DEF Create, LeaveRide, EnterRide, Appear, Disappear, Depart, Ride,
     worldVars, doorVars, DoorShown
<1> QED BY <1>1, <1>2, <1>3, <1>4, <1>5 DEF Next, Game

LEMMA InitDoors == Init => DoorInv /\ DoorShown
<1> SUFFICES ASSUME Init PROVE DoorInv /\ DoorShown OBVIOUS
<1>1. \A A : Quiet(toClient, A) /\ Quiet(tasks, A) BY Nothing DEF Init
<1> QED BY <1>1 DEF Init, DoorInv, DoorOk, DoorUnheard, DoorShown

LEMMA DoorsAtRest ==
  ASSUME ServerTypes, DoorInv, DoorShown
  PROVE  DoorsAgree
<1> SUFFICES ASSUME AtRest, NEW v \in pool
             PROVE  v \in doorGone <=> GetVehicleDoorMissing(v)
  BY DEF DoorsAgree
<1>1. /\ v \in exists /\ v \in Vehicles /\ authorized /\ toClient = <<>>
      /\ tasks = <<>> /\ v \in previous
  BY DEF AtRest, ServerTypes
<1>2. DoorKnown(v) BY <1>1 DEF DoorInv, DoorOk
<1>3. Len(<<>>) = 0 /\ 1..0 = {} OBVIOUS
<1>4. ~Tells(toClient, DoorAbout(v), DoorSays(v))
      /\ ~Tells(tasks, DoorAbout(v), DoorSays(v))
  BY <1>1, <1>3 DEF Tells
<1>5. v \in doorState <=> v \in doorMissing BY <1>2, <1>4 DEF DoorKnown
<1> QED BY <1>1, <1>5 DEF DoorShown, GetVehicleDoorMissing

-----------------------------------------------------------------------------
(* The player's handling. *)

LEMMA PlayerFields ==
  /\ \A p \in Messages : p \in PlayerAbout <=> p.type \in {"SetPlayer", "ResetPlayer"}
  /\ PlayerSays \subseteq PlayerAbout
BY DEF PlayerAbout, PlayerSays

\* A step that is not about the player.
LEMMA PlayerKept ==
  ASSUME PlayerInv, UNCHANGED <<authorized, player, playerHandling>>,
         Quiet(toClient, PlayerAbout) => Quiet(toClient', PlayerAbout),
         \A G : Tells(toClient, PlayerAbout, G) => Tells(toClient', PlayerAbout, G)
  PROVE  PlayerInv'
<1>1. PlayerSays' = PlayerSays /\ PlayerAbout' = PlayerAbout
  BY DEF PlayerSays, PlayerAbout
<1> QED BY <1>1 DEF PlayerInv

\* One that tells of it.
LEMMA PlayerTold ==
  ASSUME ChannelTypes, authorized', NEW p \in Messages, p \in PlayerSays',
         toClient' = toClient \o <<p>>
  PROVE  PlayerInv'
<1>1. toClient \in Seq(Messages) BY DEF ChannelTypes
<1>2. Tells(<<p>>, PlayerAbout, PlayerSays') /\ <<p>> \in Seq(Messages)
  BY <1>1, Single
<1>3. Tells(toClient', PlayerAbout, PlayerSays') BY <1>1, <1>2, TellsLast
<1>4. PlayerAbout' = PlayerAbout BY DEF PlayerAbout
<1> QED BY <1>3, <1>4 DEF PlayerInv

LEMMA OtherNativesPlayer ==
  ASSUME ServerTypes, ChannelTypes, PlayerInv, Natives, ~OnPlayerAuthorized,
         ~ResetPlayerHandling, ~ResetAll, \A x \in Masses : ~SetPlayerHandling(x)
  PROVE  PlayerInv'
<1>1. UNCHANGED <<player, playerHandling, authorized>>
  BY DEF Natives, OnCreateVehicle, OnDestroyVehicle, SetVehicleHandling,
         ResetVehicleHandling, BroadcastVehicleCorrection, SetVehicleDoorMissing,
         BindVehicle, UnbindVehicle, OnVehicleStreamIn, StreamOut,
         SetModelHandling, ResetModelHandling, ProcessTick, clientVars, serverVars,
         blocks
<1> DEFINE L == {"Unbind", "Bind", "SetVehicle", "ResetVehicle", "SetModel",
                 "ResetModel", "Door"}
<1>2. Gives(L) \/ Sends({"ResetModel"})
  <2>1. /\ {} \subseteq L /\ {"Unbind"} \subseteq L /\ {"Bind"} \subseteq L
        /\ {"ResetVehicle"} \subseteq L /\ {"SetVehicle", "ResetVehicle"} \subseteq L
        /\ {"Door"} \subseteq L /\ {"Door", "SetVehicle", "Bind"} \subseteq L
        /\ {"SetVehicle", "SetModel"} \subseteq L
    OBVIOUS
  <2> HIDE DEF L
  <2>2. \A K : K \subseteq L /\ Gives(K) => Gives(L) BY MoreGiven
  <2>3. ASSUME NEW v \in Vehicles,
               \/ OnCreateVehicle(v) \/ OnDestroyVehicle(v)
               \/ \E mods \in Given : SetVehicleHandling(v, mods)
               \/ ResetVehicleHandling(v) \/ BroadcastVehicleCorrection(v)
               \/ BindVehicle(v) \/ UnbindVehicle(v) \/ StreamOut(v)
               \/ OnVehicleStreamIn(v)
               \/ \E gone \in BOOLEAN : SetVehicleDoorMissing(v, gone)
        PROVE  Gives(L)
    BY ONLY <2>1, <2>2, <2>3, VehicleNativeGives, ServerTypes, ChannelTypes, Zenon
  <2>4. ASSUME (\E m \in Models, mods \in Given : SetModelHandling(m, mods))
               \/ ProcessTick
        PROVE  Gives(L)
    BY ONLY <2>1, <2>2, <2>4, OtherNativeGives, ServerTypes, ChannelTypes, Zenon
  <2>5. ASSUME \E m \in Models : ResetModelHandling(m)
        PROVE  Sends({"ResetModel"})
    BY ONLY <2>5, OtherNativeGives, ServerTypes, ChannelTypes, Zenon
  <2> QED BY <2>3, <2>4, <2>5 DEF Natives
<1>3. \A p \in Messages : p \in PlayerAbout => p.type \notin L
  BY PlayerFields
<1>4. \A p \in Messages : p \in PlayerAbout => p.type \notin {"ResetModel"}
  BY PlayerFields
<1> HIDE DEF L
<1>5. /\ Quiet(toClient, PlayerAbout) => Quiet(toClient', PlayerAbout)
      /\ \A G : Tells(toClient, PlayerAbout, G) => Tells(toClient', PlayerAbout, G)
  BY <1>2, <1>3, <1>4, QuietGiven, QuietKinds
<1> QED BY <1>1, <1>5, PlayerKept

LEMMA ResetAllPlayer ==
  ASSUME ServerTypes, ChannelTypes, PlayerInv, ResetAll
  PROVE  PlayerInv'
<1> PICK c : c = IF playerHandling # None THEN <<[type |-> "ResetPlayer"]>>
                                          ELSE <<>>
  OBVIOUS
<1>1. PICK q \in Seq(Messages) :
         /\ \A i \in 1..Len(q) : q[i].type \in {"ResetVehicle", "ResetModel"}
         /\ toClient' = (toClient \o q) \o c
  BY ResetAllSends
<1>2. /\ authorized /\ authorized' /\ playerHandling' = None
      /\ player' = player
  BY DEF ResetAll, clientVars, blocks
<1>3. toClient \in Seq(Messages) /\ toClient \o q \in Seq(Messages)
  BY <1>1 DEF ChannelTypes
<1>4. PlayerAbout' = PlayerAbout BY DEF PlayerAbout
<1>5. CASE playerHandling # None
  <2> PICK p : p = [type |-> "ResetPlayer"] OBVIOUS
  <2>1. p \in Messages /\ p \in PlayerSays'
    BY <1>2, MessageTypes DEF PlayerSays, PlayerAbout
  <2>2. toClient' = (toClient \o q) \o <<p>> BY <1>1, <1>5
  <2>3. Tells(<<p>>, PlayerAbout, PlayerSays') /\ <<p>> \in Seq(Messages)
    BY <1>3, <2>1, Single
  <2>4. Tells(toClient', PlayerAbout, PlayerSays') BY <1>3, <2>2, <2>3, TellsLast
  <2> QED BY <1>2, <1>4, <2>4 DEF PlayerInv
<1>6. CASE playerHandling = None
  <2>1. toClient' = toClient \o q
    <3>1. c = <<>> /\ (toClient \o q) \o <<>> = toClient \o q BY <1>3, <1>6
    <3> QED BY <1>1, <3>1
  <2>2. Quiet(q, PlayerAbout)
    <3>1. \A i \in 1..Len(q) : q[i] \in Messages BY <1>1
    <3> QED BY <1>1, <3>1, PlayerFields DEF Quiet
  <2>3. Quiet(toClient, PlayerAbout) => Quiet(toClient', PlayerAbout)
    BY <1>1, <1>3, <2>1, <2>2, QuietBoth
  <2>4. \A G : Tells(toClient, PlayerAbout, G) => Tells(toClient', PlayerAbout, G)
    BY <1>1, <1>3, <2>1, <2>2, TellsStill
  <2> QED BY <1>2, <1>6, <2>3, <2>4, PlayerKept
<1> QED BY <1>5, <1>6

LEMMA AuthorizedPlayer ==
  ASSUME ServerTypes, ChannelTypes, PlayerInv, OnPlayerAuthorized
  PROVE  PlayerInv'
<1>1. /\ UNCHANGED <<player, playerHandling>> /\ ~authorized
  BY DEF OnPlayerAuthorized, clientVars, blocks
<1>2. Quiet(toClient, PlayerAbout) /\ player = playerHandling
  BY <1>1 DEF PlayerInv
<1>3. PICK a, b, c, d : AuthorizedTells(a, b, c, d) BY AuthorizedParts
<1>4. /\ a \in Seq(Messages) /\ b \in Seq(Messages) /\ c \in Seq(Messages)
      /\ d \in Seq(Messages) /\ toClient \in Seq(Messages)
      /\ toClient' = (((toClient \o a) \o b) \o c) \o d
  BY <1>3 DEF AuthorizedTells, DoorsTold, ModelsTold, VehiclesTold, ChannelTypes
<1>5. /\ toClient \o a \in Seq(Messages) /\ (toClient \o a) \o b \in Seq(Messages)
      /\ ((toClient \o a) \o b) \o c \in Seq(Messages)
  BY ONLY <1>4
<1>6. /\ Quiet(a, PlayerAbout) /\ Quiet(b, PlayerAbout) /\ Quiet(c, PlayerAbout)
      /\ Quiet(d, PlayerAbout)
  <2>1. \A i \in 1..Len(a) : a[i] \in Messages /\ a[i].type = "SetModel"
    BY <1>3 DEF AuthorizedTells, ModelsTold
  <2>2. \A i \in 1..Len(b) : b[i] \in Messages /\ b[i].type = "Door"
    BY <1>3 DEF AuthorizedTells, DoorsTold
  <2>3. \A i \in 1..Len(c) : c[i] \in Messages /\ c[i].type = "SetVehicle"
    BY <1>3 DEF AuthorizedTells, VehiclesTold
  <2>4. \A i \in 1..Len(d) : d[i] \in Messages /\ d[i].type = "Bind"
    BY <1>3 DEF AuthorizedTells
  <2> QED BY <2>1, <2>2, <2>3, <2>4, PlayerFields DEF Quiet
<1>7. Quiet(toClient \o a, PlayerAbout) BY <1>2, <1>4, <1>6, QuietBoth
<1>8. Quiet((toClient \o a) \o b, PlayerAbout) BY <1>4, <1>5, <1>6, <1>7, QuietBoth
<1>9. Quiet(((toClient \o a) \o b) \o c, PlayerAbout)
  BY <1>4, <1>5, <1>6, <1>8, QuietBoth
<1>10. Quiet(toClient', PlayerAbout) BY <1>4, <1>5, <1>6, <1>9, QuietBoth
<1>11. authorized' BY DEF OnPlayerAuthorized
<1>12. PlayerAbout' = PlayerAbout BY DEF PlayerAbout
<1> QED BY <1>1, <1>2, <1>10, <1>11, <1>12 DEF PlayerInv

LEMMA NativePlayer ==
  ASSUME Orderly, ServerTypes, ChannelTypes, PlayerInv, Natives
  PROVE  PlayerInv'
<1>1. ASSUME NEW x \in Masses, SetPlayerHandling(x) PROVE PlayerInv'
  <2> PICK p : p = [type |-> "SetPlayer", mass |-> x] OBVIOUS
  <2>1. authorized /\ authorized' /\ playerHandling' = x
        /\ toClient' = toClient \o <<p>>
    BY <1>1 DEF SetPlayerHandling, SendAuthorized, Orderly
  <2>2. p \in Messages /\ p.type = "SetPlayer" /\ p.mass = x BY MessageTypes
  <2>3. p \in PlayerSays' BY <2>1, <2>2 DEF PlayerSays, PlayerAbout
  <2> QED BY <2>1, <2>2, <2>3, PlayerTold
<1>2. CASE ResetPlayerHandling
  <2> PICK p : p = [type |-> "ResetPlayer"] OBVIOUS
  <2>0. playerHandling # None /\ SendAuthorized(<<p>>) /\ playerHandling' = None
        /\ authorized' = authorized
    BY <1>2 DEF ResetPlayerHandling
  <2>1. authorized /\ authorized' /\ toClient' = toClient \o <<p>>
    BY <2>0 DEF PlayerInv, SendAuthorized
  <2>2. p \in Messages /\ p.type = "ResetPlayer" BY MessageTypes
  <2>3. p \in PlayerSays' BY <2>0, <2>2 DEF PlayerSays, PlayerAbout
  <2> QED BY <2>1, <2>2, <2>3, PlayerTold
<1> QED BY <1>1, <1>2, OtherNativesPlayer, ResetAllPlayer, AuthorizedPlayer

LEMMA PacketPlayer ==
  ASSUME ServerTypes, ChannelTypes, PlayerInv, Packets
  PROVE  PlayerInv'
<1>1. /\ toClient # <<>> /\ Msg \in Messages /\ Msg = Head(toClient)
      /\ toClient' = Tail(toClient) /\ Tail(toClient) \in Seq(Messages)
      /\ UNCHANGED serverVars
  BY PacketChannel
<1>2. UNCHANGED <<authorized, playerHandling>> BY <1>1 DEF serverVars
<1>3. toClient \in Seq(Messages) BY DEF ChannelTypes
<1>4. /\ PlayerSays' = PlayerSays /\ PlayerAbout' = PlayerAbout
      /\ PlayerSays \subseteq PlayerAbout
  BY <1>2 DEF PlayerSays, PlayerAbout
<1>5. /\ Quiet(toClient, PlayerAbout) =>
            Msg \notin PlayerAbout /\ Quiet(toClient', PlayerAbout)
      /\ Tells(toClient, PlayerAbout, PlayerSays) =>
            \/ Tells(toClient', PlayerAbout, PlayerSays)
            \/ Msg \in PlayerSays /\ Quiet(toClient', PlayerAbout)
  BY <1>1, <1>3, TakesFirst
<1>6. Msg \notin PlayerAbout => player' = player
  BY <1>1, PlayerFields DEF Packets, ProcessVehicleMods, ResetVehicle,
     ProcessModelMods, ResetModel, ProcessPlayerMods, ResetPlayer, ReceiveTask, blocks
<1>7. Msg \in PlayerSays => player' = playerHandling
  <2> SUFFICES ASSUME Msg \in PlayerSays PROVE player' = playerHandling
    OBVIOUS
  <2>1. Msg.type \in {"SetPlayer", "ResetPlayer"} BY <1>1, <1>4, PlayerFields
  <2>2. ProcessPlayerMods \/ ResetPlayer
    BY <2>1 DEF Packets, ProcessVehicleMods, ResetVehicle, ProcessModelMods,
       ResetModel, ReceiveTask
  <2>3. CASE ProcessPlayerMods
    <3>1. player' = Msg.mass /\ Msg.type = "SetPlayer"
      BY <2>3 DEF ProcessPlayerMods
    <3> QED BY <3>1 DEF PlayerSays
  <2>4. CASE ResetPlayer
    <3>1. player' = None /\ Msg.type = "ResetPlayer" BY <2>4 DEF ResetPlayer
    <3> QED BY <3>1 DEF PlayerSays
  <2> QED BY <2>2, <2>3, <2>4
<1> QED BY <1>2, <1>4, <1>5, <1>6, <1>7 DEF PlayerInv

LEMMA PlayerStep ==
  ASSUME Orderly, ServerTypes, ChannelTypes, PlayerInv, [Next]_vars
  PROVE  PlayerInv'
<1>1. CASE Natives BY <1>1, NativePlayer
<1>2. CASE Packets BY <1>2, PacketPlayer
<1>3. CASE Game
  <2>1. UNCHANGED serverVars /\ UNCHANGED toClient
    BY <1>3, GameChannel
  <2>2. UNCHANGED player
    BY <1>3 DEF Game, RunTask, Create, Process, Appear, Arrive, Disappear, Depart,
       Ride, LeaveRide, EnterRide, blocks
  <2> QED BY <2>1, <2>2, PlayerKept DEF serverVars
<1>4. CASE Rejoin
  <2>1. toClient' = <<>> /\ player' = None /\ playerHandling' = None
        /\ authorized' = FALSE
    BY <1>4 DEF Rejoin
  <2>2. \A A : Quiet(toClient', A) BY <2>1, Nothing
  <2> QED BY <2>1, <2>2 DEF PlayerInv
<1>5. CASE UNCHANGED vars
  BY <1>5, PlayerKept DEF vars, serverVars, clientVars, blocks
<1> QED BY <1>1, <1>2, <1>3, <1>4, <1>5 DEF Next

-----------------------------------------------------------------------------
(* Where the player rides. *)

\* A step that leaves the player where it is.
LEMMA RideKept ==
  ASSUME RideInv, UNCHANGED <<ride, lastRide>>,
         \A v \in {ride, lastRide} : v # None =>
             v \in pool' /\ v \in streamed' /\ v \in previous',
         \A v \in Vehicles : applied'[v] # None => applied[v] # None \/ v = ride
  PROVE  RideInv'
BY DEF RideInv

\* The player's block is copied for the vehicle the player is in only.
LEMMA ApplyRide ==
  ASSUME BlockInv, NEW mass, ApplyPlayer(ride, mass)
  PROVE  \A v \in Vehicles : applied'[v] # None => applied[v] # None \/ v = ride
BY DEF ApplyPlayer, BlockInv, Domains

LEMMA RideStep ==
  ASSUME Orderly, ServerTypes, BlockInv, RideInv, [Next]_vars
  PROVE  RideInv'
<1>0. None \notin Vehicles /\ ride \in Vehicles \cup {None}
      /\ lastRide \in Vehicles \cup {None} /\ DOMAIN applied = Vehicles
  BY HandlingAssumption DEF RideInv, BlockInv, Domains
<1>1. CASE Natives
  <2>1. UNCHANGED <<ride, lastRide, pool, previous, applied>>
    BY <1>1 DEF Natives, OnCreateVehicle, OnDestroyVehicle, SetVehicleHandling,
         ResetVehicleHandling, BroadcastVehicleCorrection, SetVehicleDoorMissing,
         BindVehicle, UnbindVehicle, OnVehicleStreamIn, StreamOut,
         SetModelHandling, ResetModelHandling, SetPlayerHandling,
         ResetPlayerHandling, ResetAll, ProcessTick, OnPlayerAuthorized,
         clientVars, worldVars, blocks
  <2>2. \A v \in {ride, lastRide} : v \in streamed => v \in streamed'
    BY <1>1 DEF Natives, OnCreateVehicle, OnDestroyVehicle, SetVehicleHandling,
         ResetVehicleHandling, BroadcastVehicleCorrection, SetVehicleDoorMissing,
         BindVehicle, UnbindVehicle, OnVehicleStreamIn, StreamOut,
         SetModelHandling, ResetModelHandling, SetPlayerHandling,
         ResetPlayerHandling, ResetAll, ProcessTick, OnPlayerAuthorized,
         serverVars, Orderly
  <2> QED BY <2>1, <2>2, RideKept DEF RideInv
<1>2. CASE Packets
  <2>1. UNCHANGED <<ride, lastRide, pool, previous>> /\ UNCHANGED streamed
    BY <1>2 DEF Packets, ProcessVehicleMods, ResetVehicle, ProcessModelMods,
       ResetModel, ProcessPlayerMods, ResetPlayer, ReceiveTask, Take, worldVars,
       serverVars
  <2>2. \A v \in Vehicles : applied'[v] # None => applied[v] # None \/ v = ride
    <3>1. CASE ProcessPlayerMods BY <3>1, ApplyRide DEF ProcessPlayerMods
    <3>2. CASE ResetPlayer BY <3>2, <1>0 DEF ResetPlayer
    <3>3. CASE ~ProcessPlayerMods /\ ~ResetPlayer
      BY <1>2, <3>3 DEF Packets, ProcessVehicleMods, ResetVehicle,
         ProcessModelMods, ResetModel, ReceiveTask, blocks
    <3> QED BY <3>1, <3>2, <3>3
  <2> QED BY <2>1, <2>2, RideKept DEF RideInv
<1>3. CASE Rejoin
  <2>1. ride = None /\ lastRide = None /\ UNCHANGED <<ride, lastRide>>
    BY <1>3 DEF Rejoin, Orderly, worldVars
  <2>2. \A v \in Vehicles : applied[v] = None BY <1>0, <2>1 DEF RideInv
  <2>3. \A v \in Vehicles : applied'[v] = None
    BY <1>3, <2>2 DEF Rejoin
  <2> QED BY <2>1, <2>3 DEF RideInv
<1>4. CASE RunTask \/ Create
  BY <1>4, RideKept DEF RunTask, Create, worldVars, serverVars, blocks, RideInv
<1>5. ASSUME NEW v \in Vehicles,
             Process(v) \/ Appear(v) \/ Arrive(v) \/ Disappear(v) \/ Depart(v)
      PROVE  RideInv'
  <2>1. CASE Process(v) \/ Appear(v) \/ Arrive(v)
    BY <2>1, RideKept DEF Process, Appear, Arrive, worldVars, serverVars, blocks,
       RideInv
  <2>2. CASE Disappear(v)
    <3>1. v # ride /\ v # lastRide BY <1>0, <2>2 DEF Disappear, RideInv
    <3> QED BY <2>2, <3>1, RideKept DEF Disappear, serverVars, blocks, RideInv
  <2>3. CASE Depart(v)
    <3>1. v # ride /\ v # lastRide BY <1>0, <2>3 DEF Depart, RideInv
    <3> QED BY <2>3, <3>1, RideKept DEF Depart, serverVars, blocks, RideInv
  <2> QED BY <1>5, <2>1, <2>2, <2>3
<1>6. ASSUME NEW v \in Vehicles \cup {None}, Ride(v) PROVE RideInv'
  BY <1>6 DEF Ride, RideInv, blocks, serverVars
<1>7. CASE LeaveRide
  <2>1. lastRide \in pool /\ lastRide' = None /\ UNCHANGED <<ride, pool, previous>>
        /\ UNCHANGED streamed
    BY <1>7 DEF LeaveRide, RideInv, serverVars
  <2>2. \A v \in Vehicles : applied'[v] # None => applied[v] # None /\ v # lastRide
    <3>1. CASE applied[lastRide] # None
      <4>1. applied' = [applied EXCEPT ![lastRide] = None]
        BY <1>7, <2>1, <3>1 DEF LeaveRide
      <4> QED BY <1>0, <4>1
    <3>2. CASE applied[lastRide] = None
      BY <1>7, <3>2 DEF LeaveRide
    <3> QED BY <3>1, <3>2
  <2> QED BY <2>1, <2>2 DEF RideInv
<1>8. CASE EnterRide
  <2>1. \A v \in Vehicles : applied'[v] # None => applied[v] # None \/ v = ride
    BY <1>8, ApplyRide DEF EnterRide
  <2>2. /\ lastRide' = ride /\ lastRide = None
        /\ UNCHANGED <<ride, pool, previous>> /\ UNCHANGED streamed
    BY <1>8 DEF EnterRide, serverVars
  <2> QED BY <1>0, <2>1, <2>2 DEF RideInv
<1>9. CASE UNCHANGED vars
  BY <1>9, RideKept DEF vars, serverVars, clientVars, blocks, worldVars, RideInv
<1> QED BY <1>1, <1>2, <1>3, <1>4, <1>5, <1>6, <1>7, <1>8, <1>9 DEF Next, Game

LEMMA InitPlayer == Init => PlayerInv /\ RideInv
<1> SUFFICES ASSUME Init PROVE PlayerInv /\ RideInv OBVIOUS
<1>1. \A A : Quiet(toClient, A) BY Nothing DEF Init
<1> QED BY <1>1 DEF Init, PlayerInv, RideInv

LEMMA PlayerAtRest ==
  ASSUME PlayerInv, RideInv
  PROVE  PlayerHandlingAgrees
<1> SUFFICES ASSUME AtRest
             PROVE  /\ player = GetPlayerHandling
                    /\ \A v \in Vehicles : applied[v] # None => v = ride
  BY DEF PlayerHandlingAgrees
<1>1. Len(<<>>) = 0 /\ 1..0 = {} OBVIOUS
<1>2. ~Tells(toClient, PlayerAbout, PlayerSays)
  BY <1>1 DEF AtRest, Tells
<1> QED BY <1>2 DEF AtRest, PlayerInv, RideInv, GetPlayerHandling

-----------------------------------------------------------------------------
(* The server's records. *)

LEMMA NoneIsNot == /\ None \notin BOOLEAN /\ None \notin Masses
                   /\ NoMods.mass = None /\ NoMods.plane = None
BY HandlingAssumption DEF NoMods

\* Given mods are some, and stay so over others.
LEMMA GivenIsSome ==
  ASSUME NEW mods \in Given, NEW n
  PROVE  /\ Over(mods, n) # NoMods
         /\ Over(mods, n).mass = OrElse(mods.mass, n.mass)
         /\ Over(mods, n).plane = OrElse(mods.plane, n.plane)
<1>1. mods.mass # None \/ mods.plane # None
  BY NoneIsNot DEF Given
<1>2. /\ Over(mods, n).mass = OrElse(mods.mass, n.mass)
      /\ Over(mods, n).plane = OrElse(mods.plane, n.plane)
  BY DEF Over
<1>3. Over(mods, n).mass # None \/ Over(mods, n).plane # None
  BY <1>1, <1>2 DEF OrElse
<1> QED BY <1>2, <1>3, NoneIsNot

AgreedOf(v) ==
    /\ vehicleHandlings[v].uses <=> vehicleHandlings[v].mods = NoMods
    /\ vehicleHandlings[v].mods.mass # None =>
          vehicleHandlings[v].mass = vehicleHandlings[v].mods.mass
    /\ vehicleHandlings[v].mods.plane # None =>
          vehicleHandlings[v].plane = vehicleHandlings[v].mods.plane

LEMMA AgreesOf == ServerAgrees <=> \A v \in Vehicles : AgreedOf(v)
BY DEF ServerAgrees, AgreedOf

LEMMA FreshAgrees ==
  ASSUME ServerTypes, ServerAgrees, NEW v \in Vehicles,
         vehicleHandlings' = [vehicleHandlings EXCEPT ![v] = Fresh(@)]
  PROVE  ServerAgrees'
<1>1. /\ vehicleHandlings'[v].uses = TRUE /\ vehicleHandlings'[v].mods = NoMods
      /\ \A w \in Vehicles : w # v => vehicleHandlings'[w] = vehicleHandlings[w]
  BY FreshTypes
<1>2. \A w \in Vehicles : AgreedOf(w)' BY <1>1, AgreesOf, NoneIsNot DEF AgreedOf
<1> QED BY <1>2 DEF ServerAgrees, AgreedOf

LEMMA AddAgrees ==
  ASSUME ServerTypes, ServerAgrees, NEW v \in Vehicles, NEW mods \in Given,
         AddVehicleMod(v, mods)
  PROVE  ServerAgrees'
<1> PICK e : e = vehicleHandlings[v] OBVIOUS
<1> PICK from : from = GetVehicleHandling(v) OBVIOUS
<1>1. /\ vehicleHandlings'[v] =
           [uses |-> FALSE, mods |-> Over(mods, e.mods),
            mass |-> OrElse(mods.mass, from.mass),
            plane |-> OrElse(mods.plane, from.plane)]
      /\ \A w \in Vehicles : w # v => vehicleHandlings'[w] = vehicleHandlings[w]
  BY AddTypes
<1> PICK o : o = Over(mods, e.mods) OBVIOUS
<1>2. o # NoMods /\ o.mass = OrElse(mods.mass, e.mods.mass)
      /\ o.plane = OrElse(mods.plane, e.mods.plane)
  BY GivenIsSome
<1>3. /\ e.uses <=> e.mods = NoMods
      /\ e.mods.mass # None => e.mass = e.mods.mass
      /\ e.mods.plane # None => e.plane = e.mods.plane
  BY DEF ServerAgrees
<1>4. ~e.uses => from.mass = e.mass /\ from.plane = e.plane
  BY DEF GetVehicleHandling
<1>5. o.mass # None => OrElse(mods.mass, from.mass) = o.mass
  BY <1>2, <1>3, <1>4, NoneIsNot DEF OrElse
<1>6. o.plane # None => OrElse(mods.plane, from.plane) = o.plane
  BY <1>2, <1>3, <1>4, NoneIsNot DEF OrElse
<1>7. AgreedOf(v)' BY <1>1, <1>2, <1>5, <1>6 DEF AgreedOf
<1>8. \A w \in Vehicles : w # v => AgreedOf(w)' BY <1>1, AgreesOf DEF AgreedOf
<1> QED BY <1>7, <1>8 DEF ServerAgrees, AgreedOf

LEMMA AgreesStep ==
  ASSUME ServerTypes, ServerAgrees, [Next]_vars
  PROVE  ServerAgrees'
<1>1. ASSUME NEW v \in Vehicles,
             OnCreateVehicle(v) \/ OnDestroyVehicle(v) \/ ResetVehicleHandling(v)
      PROVE  ServerAgrees'
  BY <1>1, FreshAgrees DEF OnCreateVehicle, OnDestroyVehicle, ResetVehicleHandling
<1>2. ASSUME NEW v \in Vehicles, NEW mods \in Given, SetVehicleHandling(v, mods)
      PROVE  ServerAgrees'
  BY <1>2, AddAgrees DEF SetVehicleHandling
<1>3. CASE UNCHANGED vehicleHandlings
  BY <1>3 DEF ServerAgrees
<1>4. ASSUME Natives,
             ~\E v \in Vehicles : \/ OnCreateVehicle(v) \/ OnDestroyVehicle(v)
                                  \/ ResetVehicleHandling(v)
                                  \/ \E mods \in Given : SetVehicleHandling(v, mods)
      PROVE  UNCHANGED vehicleHandlings
  BY <1>4 DEF Natives, BroadcastVehicleCorrection, SetVehicleDoorMissing,
         BindVehicle, UnbindVehicle, OnVehicleStreamIn, StreamOut,
         SetModelHandling, ResetModelHandling, SetPlayerHandling,
         ResetPlayerHandling, ResetAll, ProcessTick, OnPlayerAuthorized, serverVars
<1>5. ASSUME Packets PROVE UNCHANGED vehicleHandlings
  BY <1>5 DEF Packets, ProcessVehicleMods, ResetVehicle, ProcessModelMods,
     ResetModel, ProcessPlayerMods, ResetPlayer, ReceiveTask, Take, serverVars
<1>6. ASSUME Game PROVE UNCHANGED vehicleHandlings
  BY <1>6, GameChannel DEF serverVars
<1>7. ASSUME Rejoin \/ UNCHANGED vars PROVE UNCHANGED vehicleHandlings
  BY <1>7 DEF Rejoin, vars, serverVars
<1> QED BY <1>1, <1>2, <1>3, <1>4, <1>5, <1>6, <1>7 DEF Next

LEMMA InitAgrees == Init => ServerAgrees
BY NoneIsNot DEF Init, ServerAgrees

-----------------------------------------------------------------------------
(* What waits for a vehicle. *)

LEMMA StreamWaits ==
  ASSUME WaitInv, NEW v \in Vehicles, StreamIn(v)
  PROVE  /\ pending' \in [Vehicles -> Mods] /\ pending'[v] = NoMods
         /\ \A w \in Vehicles : w # v => pending'[w] = pending[w]
<1>1. NoMods \in Mods BY DEF NoMods, Mods
<1>2. pending' = [pending EXCEPT ![v] = NoMods] BY DEF StreamIn
<1> QED BY <1>1, <1>2 DEF WaitInv

LEMMA WaitStep ==
  ASSUME Orderly, ServerTypes, ChannelTypes, BlockInv, WaitInv, [Next]_vars
  PROVE  WaitInv'
<1>0. NoMods \in Mods BY DEF NoMods, Mods
<1>1. CASE Natives \/ UNCHANGED vars
  <2>1. UNCHANGED <<pool, previous, pending>>
    BY <1>1 DEF Natives, OnCreateVehicle, OnDestroyVehicle, SetVehicleHandling,
         ResetVehicleHandling, BroadcastVehicleCorrection, SetVehicleDoorMissing,
         BindVehicle, UnbindVehicle, OnVehicleStreamIn, StreamOut,
         SetModelHandling, ResetModelHandling, SetPlayerHandling,
         ResetPlayerHandling, ResetAll, ProcessTick, OnPlayerAuthorized,
         vars, clientVars, worldVars
  <2> QED BY <2>1 DEF WaitInv
<1>2. CASE Packets
  <2> PICK p : p = Msg OBVIOUS
  <2>0. p \in Messages BY <1>2, PacketChannel
  <2>1. UNCHANGED <<pool, previous>>
    BY <1>2 DEF Packets, ProcessVehicleMods, ResetVehicle, ProcessModelMods,
       ResetModel, ProcessPlayerMods, ResetPlayer, ReceiveTask, worldVars
  <2>2. CASE ProcessVehicleMods
    <3>0. /\ p.type = "SetVehicle"
          /\ \/ pending' = pending
             \/ p.vehicle \notin pool
                /\ pending' = [pending EXCEPT ![p.vehicle] = Over(p.mods, @)]
      BY <2>2 DEF ProcessVehicleMods
    <3>1. p.vehicle \in Vehicles /\ p.mods \in Mods
      BY <2>0, <3>0, MessageFields
    <3>3. Over(p.mods, pending[p.vehicle]) \in Mods
      BY <3>1, ModsTypes DEF WaitInv
    <3>4. pending' \in [Vehicles -> Mods] BY <3>0, <3>3 DEF WaitInv
    <3>5. \A w \in pool : pending'[w] = pending[w]
      BY <3>0 DEF WaitInv, BlockInv, Domains
    <3> QED BY <2>1, <3>4, <3>5 DEF WaitInv
  <2>3. CASE ResetVehicle
    <3>0. /\ p.type = "ResetVehicle"
          /\ pending' = [pending EXCEPT ![p.vehicle] = NoMods]
      BY <2>3 DEF ResetVehicle
    <3>1. p.vehicle \in Vehicles BY <2>0, <3>0, MessageFields
    <3> QED BY <1>0, <2>1, <3>0, <3>1 DEF WaitInv, BlockInv, Domains
  <2>4. CASE ~ProcessVehicleMods /\ ~ResetVehicle
    <3>1. UNCHANGED pending
      BY <1>2, <2>4 DEF Packets, ProcessModelMods,
         ResetModel, ProcessPlayerMods, ResetPlayer, ReceiveTask
    <3> QED BY <2>1, <3>1 DEF WaitInv
  <2> QED BY <2>2, <2>3, <2>4
<1>3. CASE Rejoin
  <2>1. UNCHANGED <<pool, previous>> /\ pending' = [v \in Vehicles |-> NoMods]
    BY <1>3 DEF Rejoin, worldVars
  <2> QED BY <1>0, <2>1 DEF WaitInv, BlockInv, Domains
<1>4. CASE RunTask
  <2> PICK p : p = Head(tasks) OBVIOUS
  <2>1. UNCHANGED <<pool, previous>> BY <1>4 DEF RunTask, worldVars
  <2>2. tasks # <<>> BY <1>4 DEF RunTask
  <2>3. p \in TaskMessages /\ p \in Messages BY <2>2, TaskIsMessage DEF Messages
  <2>4. p.vehicle \in Vehicles /\ p.type \in {"Bind", "Unbind", "Door"}
    BY <2>3, MessageFields
  <2>5. UNCHANGED pending \/ StreamIn(p.vehicle)
    <3>1. CASE p.type = "Bind" BY <1>4, <3>1 DEF RunTask
    <3>2. CASE p.type = "Unbind" BY <1>4, <3>2 DEF RunTask
    <3>3. CASE p.type = "Door" BY <1>4, <3>3 DEF RunTask
    <3> QED BY <2>4, <3>1, <3>2, <3>3
  <2> QED BY <2>1, <2>4, <2>5, StreamWaits DEF WaitInv, BlockInv, Domains
<1>5. ASSUME NEW v \in Vehicles, Process(v) \/ Arrive(v) PROVE WaitInv'
  <2>1. StreamIn(v) /\ pool' = pool /\ previous' \subseteq previous \cup {v}
    BY <1>5 DEF Process, Arrive, worldVars
  <2> QED BY <2>1, StreamWaits DEF WaitInv, BlockInv, Domains
<1>6. CASE \/ Create \/ LeaveRide \/ EnterRide
           \/ \E v \in Vehicles : Appear(v) \/ Disappear(v) \/ Depart(v)
           \/ \E v \in Vehicles \cup {None} : Ride(v)
  <2>1. UNCHANGED pending /\ pool' \cap previous' \subseteq pool \cap previous
    BY <1>6 DEF Create, LeaveRide, EnterRide, Appear, Disappear, Depart, Ride,
       worldVars
  <2> QED BY <2>1 DEF WaitInv
<1> QED BY <1>1, <1>2, <1>3, <1>4, <1>5, <1>6 DEF Next, Game

LEMMA InitWaits == Init => WaitInv
BY DEF Init, WaitInv, NoMods, Mods

-----------------------------------------------------------------------------
(* A vehicle's own handling. *)

LEMMA OwnFields ==
  ASSUME NEW v
  PROVE  /\ \A p \in Messages : p \in OwnAbout(v) =>
               p.type \in {"SetVehicle", "ResetVehicle"} /\ p.vehicle = v
         /\ OwnSays(v) \subseteq OwnAbout(v)
BY DEF OwnAbout, OwnSays

\* A native that is not about v, or after which nothing is due to it.
LEMMA OwnKept ==
  ASSUME NEW v \in Vehicles, OwnOk(v),
         Quiet(toClient, OwnAbout(v)) => Quiet(toClient', OwnAbout(v)),
         \A G : Tells(toClient, OwnAbout(v), G) => Tells(toClient', OwnAbout(v), G),
         UNCHANGED <<authorized, apart, own, pending, flying, flyingByPtr>>,
         born \subseteq born',
         OwnDue(v)' => \/ /\ OwnDue(v)
                          /\ vehicleHandlings'[v].mods = vehicleHandlings[v].mods
                       \/ v \notin born /\ vehicleHandlings'[v].mods = NoMods
  PROVE  OwnOk(v)'
<1>0. OwnAbout(v)' = OwnAbout(v) BY DEF OwnAbout
<1>1. ASSUME OwnDue(v)'
      PROVE  \/ Tells(toClient, OwnAbout(v), OwnSays(v))'
             \/ Quiet(toClient, OwnAbout(v))' /\ OwnHas(v)'
  <2>1. CASE OwnDue(v) /\ vehicleHandlings'[v].mods = vehicleHandlings[v].mods
    <3>1. OwnSays(v)' = OwnSays(v) BY <1>0, <2>1 DEF OwnSays
    <3>2. OwnHas(v) => OwnHas(v)' BY <2>1 DEF OwnHas
    <3> QED BY <1>0, <2>1, <3>1, <3>2 DEF OwnOk
  <2>2. CASE v \notin born /\ vehicleHandlings'[v].mods = NoMods
    <3>1. OwnNothing(v) BY <1>1, <2>2 DEF OwnOk, OwnDue
    <3>2. OwnHas(v)' BY <2>2, <3>1, NoneIsNot DEF OwnHas, OwnNothing
    <3> QED BY <1>0, <3>1, <3>2 DEF OwnNothing
  <2> QED BY <1>1, <2>1, <2>2
<1>2. ASSUME ~authorized' \/ (v \notin born' /\ ~apart') PROVE OwnNothing(v)'
  <2>1. OwnNothing(v) BY <1>2 DEF OwnOk
  <2> QED BY <1>0, <2>1 DEF OwnNothing
<1> QED BY <1>1, <1>2 DEF OwnOk

LEMMA OwnTold ==
  ASSUME NEW v \in Vehicles, authorized', v \in born',
         Tells(toClient', OwnAbout(v), OwnSays(v)')
  PROVE  OwnOk(v)'
<1>0. OwnAbout(v)' = OwnAbout(v) BY DEF OwnAbout
<1> QED BY <1>0 DEF OwnOk

\* One packet, for an authorized player, that says what v has, or is about
\* another vehicle.
LEMMA OwnOne ==
  ASSUME ServerTypes, ChannelTypes, OwnInv, NEW w \in Vehicles, NEW p \in Messages,
         p.type \in {"SetVehicle", "ResetVehicle"}, p.vehicle = w,
         p.type = "SetVehicle" =>
            p.mods = vehicleHandlings'[w].mods /\ p.mods # NoMods,
         p.type = "ResetVehicle" => vehicleHandlings'[w].mods = NoMods,
         SendAuthorized(<<p>>), w \in exists, UNCHANGED <<exists, born>>,
         UNCHANGED <<authorized, apart, own, pending, flying, flyingByPtr>>,
         UNCHANGED outVehicles,
         \A v \in Vehicles : v # w => vehicleHandlings'[v] = vehicleHandlings[v]
  PROVE  OwnInv'
<1>1. toClient \in Seq(Messages) /\ <<p>> \in Seq(Messages)
  BY Single DEF ChannelTypes
<1> SUFFICES ASSUME NEW v \in Vehicles PROVE OwnOk(v)'
  BY DEF OwnInv
<1>2. OwnOk(v) BY DEF OwnInv
<1>3. CASE ~authorized
  <2>1. toClient' = toClient /\ ~OwnDue(v)' BY <1>3 DEF SendAuthorized, OwnDue
  <2> QED BY <1>2, <2>1, OwnKept
<1>4. CASE authorized /\ v = w
  <2>1. p \in OwnSays(v)' BY <1>4 DEF OwnSays, OwnAbout
  <2>2. Tells(<<p>>, OwnAbout(v), OwnSays(v)') BY <1>1, <2>1, Single
  <2>3. toClient' = toClient \o <<p>> BY <1>4 DEF SendAuthorized
  <2>4. Tells(toClient', OwnAbout(v), OwnSays(v)') BY <1>1, <2>2, <2>3, TellsLast
  <2>5. v \in born' BY <1>4 DEF ServerTypes
  <2> QED BY <1>4, <2>4, <2>5, OwnTold
<1>5. CASE authorized /\ v # w
  <2>1. p \notin OwnAbout(v) BY <1>5 DEF OwnAbout
  <2>2. Quiet(<<p>>, OwnAbout(v)) BY <1>1, <2>1, Single
  <2>3. toClient' = toClient \o <<p>> BY <1>5 DEF SendAuthorized
  <2>4. Quiet(toClient, OwnAbout(v)) => Quiet(toClient', OwnAbout(v))
    BY <1>1, <2>2, <2>3, QuietBoth
  <2>5. \A G : Tells(toClient, OwnAbout(v), G) => Tells(toClient', OwnAbout(v), G)
    BY <1>1, <2>2, <2>3, TellsStill
  <2>6. /\ vehicleHandlings'[v].mods = vehicleHandlings[v].mods
        /\ OwnDue(v)' => OwnDue(v)
    BY <1>5 DEF OwnDue
  <2> QED BY <1>2, <2>4, <2>5, <2>6, OwnKept
<1> QED BY <1>3, <1>4, <1>5

LEMMA ResetOwn ==
  ASSUME ServerTypes, ChannelTypes, OwnInv, NEW w \in Vehicles,
         ResetVehicleHandling(w)
  PROVE  OwnInv'
<1> PICK p : p = ResetVehicleMsg(w) OBVIOUS
<1>1. p \in Messages /\ p.type = "ResetVehicle" /\ p.vehicle = w
  BY MessageTypes, TypeOf
<1>2. /\ SendAuthorized(<<p>>) /\ w \in exists
      /\ UNCHANGED <<exists, born>> /\ UNCHANGED outVehicles
      /\ UNCHANGED <<authorized, apart, own, pending, flying, flyingByPtr>>
  BY DEF ResetVehicleHandling, clientVars, blocks, airVars
<1>3. /\ vehicleHandlings'[w].mods = NoMods
      /\ \A v \in Vehicles : v # w => vehicleHandlings'[v] = vehicleHandlings[v]
  BY FreshTypes DEF ResetVehicleHandling
<1> QED BY <1>1, <1>2, <1>3, OwnOne

LEMMA CorrectOwn ==
  ASSUME ServerTypes, ChannelTypes, OwnInv, NEW w \in Vehicles,
         BroadcastVehicleCorrection(w)
  PROVE  OwnInv'
<1>0. UNCHANGED serverVars /\ UNCHANGED apart /\ UNCHANGED clientVars
  BY DEF BroadcastVehicleCorrection
<1>1. /\ w \in exists
      /\ UNCHANGED <<exists, born>> /\ UNCHANGED outVehicles
      /\ UNCHANGED <<authorized, apart, own, pending, flying, flyingByPtr>>
      /\ UNCHANGED vehicleHandlings
  BY <1>0 DEF BroadcastVehicleCorrection, clientVars, blocks, airVars, serverVars
<1>2. CASE vehicleHandlings[w].mods # NoMods
  <2> PICK p : p = SetVehicleMsg(w) OBVIOUS
  <2>1. /\ p \in Messages /\ p.type = "SetVehicle" /\ p.vehicle = w
        /\ p.mods = vehicleHandlings[w].mods
    BY MessageTypes, TypeOf
  <2>2. SendAuthorized(<<p>>) BY <1>2 DEF BroadcastVehicleCorrection
  <2> QED BY <1>1, <1>2, <2>1, <2>2, OwnOne
<1>3. CASE vehicleHandlings[w].mods = NoMods
  <2> PICK p : p = ResetVehicleMsg(w) OBVIOUS
  <2>1. p \in Messages /\ p.type = "ResetVehicle" /\ p.vehicle = w
    BY MessageTypes, TypeOf
  <2>2. SendAuthorized(<<p>>) BY <1>3 DEF BroadcastVehicleCorrection
  <2> QED BY <1>1, <1>3, <2>1, <2>2, OwnOne
<1> QED BY <1>2, <1>3

\* A group of packets of which at most one is about v.
LEMMA OwnVehiclesTold ==
  ASSUME ServerTypes, NEW S, S \subseteq Vehicles, NEW a, VehiclesTold(a, S),
         NEW v \in Vehicles
  PROVE  /\ v \in S /\ vehicleHandlings[v].mods # NoMods =>
               Tells(a, OwnAbout(v), OwnSays(v))
         /\ v \notin S => Quiet(a, OwnAbout(v))
<1>1. \A s \in S : SetVehicleMsg(s) \in OwnAbout(v) => s = v
  BY TypeOf DEF OwnAbout
<1>2. ASSUME v \in S, vehicleHandlings[v].mods # NoMods
      PROVE  Tells(a, OwnAbout(v), OwnSays(v))
  <2>1. SetVehicleMsg(v) \in OwnSays(v)
    BY <1>2, TypeOf, MessageTypes DEF OwnSays, OwnAbout
  <2> QED BY <1>1, <1>2, <2>1 DEF VehiclesTold
<1>3. ASSUME v \notin S PROVE Quiet(a, OwnAbout(v))
  <2>1. \A s \in S : SetVehicleMsg(s) \notin OwnAbout(v) BY <1>1, <1>3
  <2> QED BY <2>1 DEF VehiclesTold
<1> QED BY <1>2, <1>3

LEMMA TickOwn ==
  ASSUME ServerTypes, ChannelTypes, ServerAgrees, OwnInv, ProcessTick
  PROVE  OwnInv'
<1> DEFINE S == {v \in outVehicles \cap exists : ~vehicleHandlings[v].uses}
<1>1. PICK a, b : TickTells(a, b) BY TickParts
<1>2. /\ UNCHANGED <<exists, born>> /\ UNCHANGED vehicleHandlings
      /\ UNCHANGED <<authorized, apart, own, pending, flying, flyingByPtr>>
      /\ outVehicles' = {}
  BY DEF ProcessTick, clientVars, blocks, airVars
<1>3. toClient \in Seq(Messages) BY DEF ChannelTypes
<1>4. /\ a \in Seq(Messages) /\ b \in Seq(Messages) /\ a \o b \in Seq(Messages)
      /\ VehiclesTold(a, S) /\ S \subseteq Vehicles
  BY <1>1 DEF TickTells, VehiclesTold, ModelsTold, ServerTypes
<1>5. toClient' = IF authorized THEN toClient \o (a \o b) ELSE toClient
  BY <1>1 DEF TickTells, SendAuthorized
<1> SUFFICES ASSUME NEW v \in Vehicles PROVE OwnOk(v)'
  BY DEF OwnInv
<1>6. OwnOk(v) BY DEF OwnInv
<1>7. Quiet(b, OwnAbout(v))
  <2>1. \A i \in 1..Len(b) : b[i] \in Messages /\ b[i].type = "SetModel"
    BY <1>1 DEF TickTells, ModelsTold
  <2> QED BY <2>1, OwnFields DEF Quiet
<1>8. OwnSays(v)' = OwnSays(v) BY <1>2 DEF OwnSays, OwnAbout
<1>9. vehicleHandlings[v].uses <=> vehicleHandlings[v].mods = NoMods
  BY DEF ServerAgrees
<1>10. CASE ~authorized
  <2>1. toClient' = toClient /\ ~OwnDue(v)' BY <1>2, <1>5, <1>10 DEF OwnDue
  <2> QED BY <1>2, <1>6, <2>1, OwnKept
<1>11. CASE authorized /\ v \in S
  <2>1. vehicleHandlings[v].mods # NoMods /\ v \in born'
    BY <1>2, <1>9, <1>11 DEF ServerTypes
  <2> HIDE DEF S
  <2>2. Tells(a, OwnAbout(v), OwnSays(v)) BY <1>4, <1>11, <2>1, OwnVehiclesTold
  <2>3. Tells(a \o b, OwnAbout(v), OwnSays(v)) BY <1>4, <1>7, <2>2, TellsStill
  <2>4. Tells(toClient', OwnAbout(v), OwnSays(v))
    BY <1>3, <1>4, <1>5, <1>11, <2>3, TellsLast
  <2> QED BY <1>2, <1>8, <1>11, <2>1, <2>4, OwnTold
<1>12. CASE authorized /\ v \notin S
  <2>1. OwnDue(v)' => OwnDue(v) BY <1>2, <1>9, <1>12 DEF OwnDue
  <2> HIDE DEF S
  <2>2. Quiet(a, OwnAbout(v)) BY <1>4, <1>12, OwnVehiclesTold
  <2>3. Quiet(a \o b, OwnAbout(v)) BY <1>4, <1>7, <2>2, QuietBoth
  <2>4. Quiet(toClient, OwnAbout(v)) => Quiet(toClient', OwnAbout(v))
    BY <1>3, <1>4, <1>5, <1>12, <2>3, QuietBoth
  <2>5. \A G : Tells(toClient, OwnAbout(v), G) => Tells(toClient', OwnAbout(v), G)
    BY <1>3, <1>4, <1>5, <1>12, <2>3, TellsStill
  <2> QED BY <1>2, <1>6, <2>1, <2>4, <2>5, OwnKept
<1> QED BY <1>10, <1>11, <1>12

LEMMA StreamOwn ==
  ASSUME ServerTypes, ChannelTypes, OwnInv, NEW w \in Vehicles, OnVehicleStreamIn(w)
  PROVE  OwnInv'
<1>1. PICK a, b, c : StreamTells(w, a, b, c) BY StreamParts
<1>2. /\ UNCHANGED <<exists, born>> /\ UNCHANGED vehicleHandlings
      /\ UNCHANGED <<authorized, apart, own, pending, flying, flyingByPtr>>
      /\ UNCHANGED outVehicles /\ w \in exists
  BY DEF OnVehicleStreamIn, clientVars, blocks, airVars
<1>3. toClient \in Seq(Messages) BY DEF ChannelTypes
<1>4. /\ a \in Seq(Messages) /\ b \in Seq(Messages) /\ c \in Seq(Messages)
      /\ a \o b \in Seq(Messages) /\ (a \o b) \o c \in Seq(Messages)
  BY <1>1 DEF StreamTells, DoorsTold
<1>5. toClient' = IF authorized THEN toClient \o ((a \o b) \o c) ELSE toClient
  BY <1>1 DEF StreamTells, SendAuthorized
<1> SUFFICES ASSUME NEW v \in Vehicles PROVE OwnOk(v)'
  BY DEF OwnInv
<1>6. OwnOk(v) /\ (OwnDue(v)' <=> OwnDue(v)) BY <1>2 DEF OwnInv, OwnDue
<1>7. Quiet(a, OwnAbout(v)) /\ Quiet(c, OwnAbout(v))
  <2>1. \A i \in 1..Len(a) : a[i] \in Messages /\ a[i].type = "Door"
    BY <1>1 DEF StreamTells, DoorsTold
  <2>2. \A i \in 1..Len(c) : c[i] \in Messages /\ c[i].type = "Bind"
    BY <1>1 DEF StreamTells
  <2> QED BY <2>1, <2>2, OwnFields DEF Quiet
<1>8. OwnSays(v)' = OwnSays(v) BY <1>2 DEF OwnSays, OwnAbout
<1>9. CASE ~authorized
  <2>1. toClient' = toClient BY <1>5, <1>9
  <2> QED BY <1>2, <1>6, <2>1, OwnKept
<1>10. CASE authorized /\ v = w /\ vehicleHandlings[v].mods # NoMods
  <2>1. b = <<SetVehicleMsg(v)>> BY <1>1, <1>10 DEF StreamTells
  <2>2. SetVehicleMsg(v) \in OwnSays(v) /\ SetVehicleMsg(v) \in Messages
    BY <1>10, TypeOf, MessageTypes DEF OwnSays, OwnAbout
  <2>3. Tells(b, OwnAbout(v), OwnSays(v)) BY <1>3, <2>1, <2>2, Single
  <2>4. Tells(a \o b, OwnAbout(v), OwnSays(v)) BY <1>4, <2>3, TellsLast
  <2>5. Tells((a \o b) \o c, OwnAbout(v), OwnSays(v))
    BY <1>4, <1>7, <2>4, TellsStill
  <2>6. Tells(toClient', OwnAbout(v), OwnSays(v))
    BY <1>3, <1>4, <1>5, <1>10, <2>5, TellsLast
  <2>7. v \in born' BY <1>2, <1>10 DEF ServerTypes
  <2> QED BY <1>2, <1>8, <1>10, <2>6, <2>7, OwnTold
<1>11. CASE authorized /\ ~(v = w /\ vehicleHandlings[v].mods # NoMods)
  <2>1. Quiet(b, OwnAbout(v))
    <3>1. CASE vehicleHandlings[w].mods # NoMods
      <4>1. b = <<SetVehicleMsg(w)>> /\ v # w
        BY <1>1, <1>11, <3>1 DEF StreamTells
      <4>2. SetVehicleMsg(w) \notin OwnAbout(v) /\ SetVehicleMsg(w) \in Messages
        BY <4>1, TypeOf, MessageTypes DEF OwnAbout
      <4> QED BY <1>3, <4>1, <4>2, Single
    <3>2. CASE vehicleHandlings[w].mods = NoMods
      <4>1. b = <<>> BY <1>1, <3>2 DEF StreamTells
      <4> QED BY <4>1, Nothing
    <3> QED BY <3>1, <3>2
  <2>2. Quiet(a \o b, OwnAbout(v)) BY <1>4, <1>7, <2>1, QuietBoth
  <2>3. Quiet((a \o b) \o c, OwnAbout(v)) BY <1>4, <1>7, <2>2, QuietBoth
  <2>4. Quiet(toClient, OwnAbout(v)) => Quiet(toClient', OwnAbout(v))
    BY <1>3, <1>4, <1>5, <1>11, <2>3, QuietBoth
  <2>5. \A G : Tells(toClient, OwnAbout(v), G) => Tells(toClient', OwnAbout(v), G)
    BY <1>3, <1>4, <1>5, <1>11, <2>3, TellsStill
  <2> QED BY <1>2, <1>6, <2>4, <2>5, OwnKept
<1> QED BY <1>9, <1>10, <1>11

LEMMA AuthorizedOwn ==
  ASSUME ServerTypes, ChannelTypes, ServerAgrees, OwnInv, OnPlayerAuthorized
  PROVE  OwnInv'
<1> DEFINE S == {v \in exists : vehicleHandlings[v].mods # NoMods
                                /\ ~vehicleHandlings[v].uses}
<1>1. PICK a, b, c, d : AuthorizedTells(a, b, c, d) BY AuthorizedParts
<1>2. /\ UNCHANGED <<exists, born>> /\ UNCHANGED vehicleHandlings
      /\ UNCHANGED <<apart, own, pending, flying, flyingByPtr>>
      /\ ~authorized /\ authorized'
  BY DEF OnPlayerAuthorized, clientVars, blocks, airVars
<1>3. /\ a \in Seq(Messages) /\ b \in Seq(Messages) /\ c \in Seq(Messages)
      /\ d \in Seq(Messages) /\ toClient \in Seq(Messages)
      /\ VehiclesTold(c, S) /\ S \subseteq Vehicles
      /\ toClient' = (((toClient \o a) \o b) \o c) \o d
  BY <1>1 DEF AuthorizedTells, DoorsTold, ModelsTold, VehiclesTold, ServerTypes,
     ChannelTypes
<1> DEFINE q1 == toClient \o a
           q2 == q1 \o b
           q3 == q2 \o c
<1>4. q1 \in Seq(Messages) /\ q2 \in Seq(Messages) /\ q3 \in Seq(Messages)
      /\ toClient' = q3 \o d
  BY <1>3
<1> SUFFICES ASSUME NEW v \in Vehicles PROVE OwnOk(v)'
  BY DEF OwnInv
<1>5. OwnNothing(v) BY <1>2 DEF OwnInv, OwnOk
<1>6. Quiet(a, OwnAbout(v)) /\ Quiet(b, OwnAbout(v)) /\ Quiet(d, OwnAbout(v))
  <2>1. \A i \in 1..Len(a) : a[i] \in Messages /\ a[i].type = "SetModel"
    BY <1>1 DEF AuthorizedTells, ModelsTold
  <2>2. \A i \in 1..Len(b) : b[i] \in Messages /\ b[i].type = "Door"
    BY <1>1 DEF AuthorizedTells, DoorsTold
  <2>3. \A i \in 1..Len(d) : d[i] \in Messages /\ d[i].type = "Bind"
    BY <1>1 DEF AuthorizedTells
  <2> QED BY <2>1, <2>2, <2>3, OwnFields DEF Quiet
<1>7. OwnSays(v)' = OwnSays(v) /\ OwnAbout(v)' = OwnAbout(v)
  BY <1>2 DEF OwnSays, OwnAbout
<1>8. vehicleHandlings[v].uses <=> vehicleHandlings[v].mods = NoMods
  BY DEF ServerAgrees
<1>9. CASE v \in S
  <2>1. vehicleHandlings[v].mods # NoMods /\ v \in born'
    BY <1>2, <1>9 DEF ServerTypes
  <2> HIDE DEF S, q1, q2, q3
  <2>2. Tells(c, OwnAbout(v), OwnSays(v)) BY <1>3, <1>9, <2>1, OwnVehiclesTold
  <2>3. Tells(q3, OwnAbout(v), OwnSays(v)) BY <1>3, <1>4, <2>2, TellsLast DEF q3
  <2>4. Tells(toClient', OwnAbout(v), OwnSays(v))
    BY <1>3, <1>4, <1>6, <2>3, TellsStill
  <2> QED BY <1>2, <1>7, <2>1, <2>4, OwnTold
<1>10. CASE v \notin S
  <2>1. v \in exists => vehicleHandlings[v].mods = NoMods BY <1>8, <1>10
  <2> HIDE DEF S, q1, q2, q3
  <2>2. Quiet(c, OwnAbout(v)) BY <1>3, <1>10, OwnVehiclesTold
  <2>3. Quiet(q1, OwnAbout(v))
    BY <1>3, <1>5, <1>6, QuietBoth DEF q1, OwnNothing
  <2>4. Quiet(q2, OwnAbout(v)) BY <1>3, <1>4, <1>6, <2>3, QuietBoth DEF q2
  <2>5. Quiet(q3, OwnAbout(v)) BY <1>3, <1>4, <2>2, <2>4, QuietBoth DEF q3
  <2>6. Quiet(toClient', OwnAbout(v)) BY <1>3, <1>4, <1>6, <2>5, QuietBoth
  <2>7. OwnNothing(v)' BY <1>2, <1>5, <1>7, <2>6 DEF OwnNothing
  <2>8. v \in exists => OwnHas(v)'
    BY <1>2, <2>1, <2>7, NoneIsNot DEF OwnHas, OwnNothing
  <2> QED BY <1>2, <1>7, <2>6, <2>7, <2>8 DEF OwnOk, OwnDue
<1> QED BY <1>9, <1>10

LEMMA OtherNativesOwn ==
  ASSUME Orderly, ServerTypes, ChannelTypes, OwnInv, Natives,
         ~OnPlayerAuthorized, ~ProcessTick, ~ResetAll,
         \A w \in Vehicles : ~OnVehicleStreamIn(w) /\ ~ResetVehicleHandling(w)
                             /\ ~BroadcastVehicleCorrection(w)
  PROVE  OwnInv'
<1>1. UNCHANGED <<authorized, apart, own, pending, flying, flyingByPtr>>
  BY DEF Natives, OnCreateVehicle, OnDestroyVehicle, SetVehicleHandling,
         SetVehicleDoorMissing, BindVehicle, UnbindVehicle, StreamOut,
         SetModelHandling, ResetModelHandling, SetPlayerHandling,
         ResetPlayerHandling, clientVars, blocks, airVars
<1> DEFINE L == {"Unbind", "Bind", "Door", "SetModel", "ResetModel",
                 "SetPlayer", "ResetPlayer"}
<1>2. Gives(L) \/ Sends({"ResetModel"})
  <2>1. /\ {} \subseteq L /\ {"Unbind"} \subseteq L /\ {"Bind"} \subseteq L
        /\ {"Door"} \subseteq L /\ {"SetPlayer"} \subseteq L
        /\ {"ResetPlayer"} \subseteq L
    OBVIOUS
  <2> HIDE DEF L
  <2>2. \A K : K \subseteq L /\ Gives(K) => Gives(L) BY MoreGiven
  <2>3. ASSUME NEW v \in Vehicles,
               \/ OnCreateVehicle(v) \/ OnDestroyVehicle(v)
               \/ \E mods \in Given : SetVehicleHandling(v, mods)
               \/ BindVehicle(v) \/ UnbindVehicle(v) \/ StreamOut(v)
               \/ \E gone \in BOOLEAN : SetVehicleDoorMissing(v, gone)
        PROVE  Gives(L)
    BY ONLY <2>1, <2>2, <2>3, VehicleNativeGives, ServerTypes, ChannelTypes, Zenon
  <2>4. ASSUME \/ \E m \in Models, mods \in Given : SetModelHandling(m, mods)
               \/ \E x \in Masses : SetPlayerHandling(x)
               \/ ResetPlayerHandling
        PROVE  Gives(L)
    BY ONLY <2>1, <2>2, <2>4, OtherNativeGives, ServerTypes, ChannelTypes, Zenon
  <2>5. ASSUME \E m \in Models : ResetModelHandling(m)
        PROVE  Sends({"ResetModel"})
    BY ONLY <2>5, OtherNativeGives, ServerTypes, ChannelTypes, Zenon
  <2> QED BY <2>3, <2>4, <2>5 DEF Natives
<1>3. ASSUME NEW v \in Vehicles
      PROVE  /\ Quiet(toClient, OwnAbout(v)) => Quiet(toClient', OwnAbout(v))
             /\ \A G : Tells(toClient, OwnAbout(v), G) => Tells(toClient', OwnAbout(v), G)
  <2>1. \A p \in Messages : p \in OwnAbout(v) => p.type \notin L
    BY OwnFields
  <2>2. \A p \in Messages : p \in OwnAbout(v) => p.type \notin {"ResetModel"}
    BY OwnFields
  <2> HIDE DEF L
  <2> QED BY <1>2, <2>1, <2>2, QuietGiven, QuietKinds
<1>4. ASSUME NEW v \in Vehicles
      PROVE  /\ born \subseteq born'
             /\ OwnDue(v)' =>
                   \/ /\ OwnDue(v)
                      /\ vehicleHandlings'[v].mods = vehicleHandlings[v].mods
                   \/ v \notin born /\ vehicleHandlings'[v].mods = NoMods
  <2>1. ASSUME NEW w \in Vehicles, OnCreateVehicle(w)
        PROVE  /\ born \subseteq born'
               /\ OwnDue(v)' =>
                   \/ /\ OwnDue(v)
                      /\ vehicleHandlings'[v].mods = vehicleHandlings[v].mods
                   \/ v \notin born /\ vehicleHandlings'[v].mods = NoMods
    <3>1. /\ vehicleHandlings'[w].mods = NoMods /\ w \notin born
          /\ v # w => vehicleHandlings'[v] = vehicleHandlings[v]
      BY <2>1, FreshTypes DEF OnCreateVehicle, Orderly
    <3>2. /\ exists' = exists \cup {w} /\ born' = born \cup {w}
          /\ UNCHANGED outVehicles
      BY <2>1 DEF OnCreateVehicle
    <3> QED BY <1>1, <3>1, <3>2 DEF OwnDue
  <2>2. ASSUME NEW w \in Vehicles, OnDestroyVehicle(w)
        PROVE  /\ born \subseteq born'
               /\ OwnDue(v)' =>
                   /\ OwnDue(v)
                   /\ vehicleHandlings'[v].mods = vehicleHandlings[v].mods
    <3>1. v # w => vehicleHandlings'[v] = vehicleHandlings[v]
      BY <2>2, FreshTypes DEF OnDestroyVehicle
    <3>2. exists' = exists \ {w} /\ born' = born /\ UNCHANGED outVehicles
      BY <2>2 DEF OnDestroyVehicle
    <3> QED BY <1>1, <3>1, <3>2 DEF OwnDue
  <2>3. ASSUME NEW w \in Vehicles, NEW mods \in Given, SetVehicleHandling(w, mods)
        PROVE  /\ born \subseteq born'
               /\ OwnDue(v)' =>
                   /\ OwnDue(v)
                   /\ vehicleHandlings'[v].mods = vehicleHandlings[v].mods
    <3>1. /\ v # w => vehicleHandlings'[v] = vehicleHandlings[v]
          /\ vehicleHandlings'[w].mods = Over(mods, vehicleHandlings[w].mods)
      <4>1. AddVehicleMod(w, mods) BY <2>3 DEF SetVehicleHandling
      <4>2. /\ v # w => vehicleHandlings'[v] = vehicleHandlings[v]
            /\ vehicleHandlings'[w] =
                 [uses |-> FALSE, mods |-> Over(mods, vehicleHandlings[w].mods),
                  mass |-> OrElse(mods.mass, GetVehicleHandling(w).mass),
                  plane |-> OrElse(mods.plane, GetVehicleHandling(w).plane)]
        BY ONLY <4>1, AddTypes, ServerTypes, v \in Vehicles, w \in Vehicles,
           mods \in Given
      <4> QED BY <4>2
    <3>2. /\ exists' = exists /\ born' = born
          /\ outVehicles' = outVehicles \cup {w}
      BY <2>3 DEF SetVehicleHandling
    <3>3. Over(mods, vehicleHandlings[w].mods) # NoMods BY GivenIsSome
    <3> QED BY <1>1, <3>1, <3>2, <3>3 DEF OwnDue
  <2>4. ASSUME ~\E w \in Vehicles : \/ OnCreateVehicle(w) \/ OnDestroyVehicle(w)
                                    \/ \E mods \in Given : SetVehicleHandling(w, mods)
        PROVE  UNCHANGED <<exists, born>> /\ UNCHANGED vehicleHandlings
               /\ UNCHANGED outVehicles
    BY <2>4 DEF Natives, SetVehicleDoorMissing, BindVehicle, UnbindVehicle,
       StreamOut, SetModelHandling, ResetModelHandling, SetPlayerHandling,
       ResetPlayerHandling
  <2> QED BY <1>1, <2>1, <2>2, <2>3, <2>4 DEF OwnDue
<1>5. ASSUME NEW v \in Vehicles PROVE OwnOk(v)'
  <2>1. OwnOk(v) BY DEF OwnInv
  <2> QED BY <1>1, <1>3, <1>4, <2>1, OwnKept
<1> QED BY <1>5 DEF OwnInv

LEMMA NativeOwn ==
  ASSUME Orderly, ServerTypes, ChannelTypes, ServerAgrees, OwnInv, Natives
  PROVE  OwnInv'
<1>1. CASE ResetAll
  <2>1. authorized' /\ apart' BY <1>1 DEF ResetAll
  <2> QED BY <2>1 DEF OwnInv, OwnOk, OwnDue
<1> QED BY <1>1, OtherNativesOwn, ResetOwn, CorrectOwn, TickOwn, StreamOwn,
           AuthorizedOwn

-----------------------------------------------------------------------------
(* The client keeps it. *)

\* A frame finds the vehicle, or what waits for it is applied otherwise.
LEMMA StreamHas ==
  ASSUME BlockInv, WaitInv, NEW w \in Vehicles, StreamIn(w), UNCHANGED vehicleHandlings,
         NEW v \in Vehicles
  PROVE  /\ OwnHas(v) => OwnHas(v)'
         /\ own[v] = None /\ pending[v] = NoMods =>
               own'[v] = None /\ pending'[v] = NoMods
<1>1. /\ pending'[w] = NoMods
      /\ \A x \in Vehicles : x # w => pending'[x] = pending[x]
  BY StreamWaits
<1>2. /\ own' = IF Waiting(w)
                THEN [own EXCEPT ![w] = OrElse(pending[w].mass,
                                               OrElse(own[w], Driven(w)))]
                ELSE own
      /\ Fly(w, pending[w])
  BY DEF StreamIn
<1>3. DOMAIN own = Vehicles BY DEF BlockInv, Domains
<1>4. /\ \A x \in Vehicles : x # w => own'[x] = own[x]
      /\ own'[w] = IF pending[w] # NoMods
                   THEN OrElse(pending[w].mass, OrElse(own[w], Driven(w)))
                   ELSE own[w]
  BY <1>2, <1>3 DEF Waiting
<1>5. pending[w] \in Mods BY DEF WaitInv
<1>6. pending[w].plane \in BOOLEAN \cup {None} BY <1>5 DEF Mods
<1>7. /\ \A x : x # w => /\ x \in flying' <=> x \in flying
                         /\ x \in flyingByPtr' <=> x \in flyingByPtr
      /\ IF pending[w].plane = None
         THEN flying' = flying /\ flyingByPtr' = flyingByPtr
         ELSE /\ w \in flying' <=> pending[w].plane
              /\ w \in flyingByPtr' <=> pending[w].plane
  BY <1>2, <1>6 DEF Fly, airVars
<1>8. CASE v # w
  BY <1>1, <1>4, <1>7, <1>8 DEF OwnHas
<1>9. CASE v = w
  <2>1. own[v] = None /\ pending[v] = NoMods =>
               own'[v] = None /\ pending'[v] = NoMods
    BY <1>1, <1>4, <1>9
  <2>2. ASSUME OwnHas(v) PROVE OwnHas(v)'
    <3> PICK mods : mods = vehicleHandlings[v].mods OBVIOUS
    <3>1. mods = NoMods => own'[v] = None /\ pending'[v] = NoMods
      BY <2>1, <2>2 DEF OwnHas
    <3>2. mods.mass # None => OrElse(pending'[v].mass, own'[v]) = mods.mass
      <4>1. pending'[v].mass = None BY <1>1, <1>9, NoneIsNot
      <4>2. mods.mass # None => OrElse(pending[v].mass, own[v]) = mods.mass
        BY <2>2 DEF OwnHas
      <4> QED BY <1>4, <1>9, <4>1, <4>2, NoneIsNot DEF OrElse
    <3>3. ASSUME mods.plane # None
          PROVE  /\ pending'[v].plane = None
                 /\ v \in flying' <=> mods.plane
                 /\ v \in flyingByPtr' => mods.plane
      <4>1. pending'[v].plane = None BY <1>1, <1>9, NoneIsNot
      <4>2. IF pending[v].plane # None THEN pending[v].plane = mods.plane
            ELSE /\ v \in flying <=> mods.plane
                 /\ v \in flyingByPtr => mods.plane
        BY <2>2, <3>3 DEF OwnHas
      <4> QED BY <1>7, <1>9, <4>1, <4>2
    <3> QED BY <3>1, <3>2, <3>3 DEF OwnHas
  <2> QED BY <2>1, <2>2
<1> QED BY <1>8, <1>9

\* What is under way is the same, and the client's side no worse.
LEMMA OwnSame ==
  ASSUME OwnInv, UNCHANGED serverVars, UNCHANGED <<toClient, apart>>,
         \A v \in Vehicles :
            /\ OwnHas(v) => OwnHas(v)'
            /\ own[v] = None /\ pending[v] = NoMods =>
                  own'[v] = None /\ pending'[v] = NoMods
  PROVE  OwnInv'
<1> SUFFICES ASSUME NEW v \in Vehicles PROVE OwnOk(v)'
  BY DEF OwnInv
<1>1. OwnSays(v)' = OwnSays(v) /\ OwnAbout(v)' = OwnAbout(v)
  BY DEF OwnSays, OwnAbout, serverVars
<1>2. OwnDue(v)' <=> OwnDue(v) BY DEF OwnDue, serverVars
<1>3. OwnOk(v) BY DEF OwnInv
<1>4. UNCHANGED <<authorized, born>> BY DEF serverVars
<1> QED BY <1>1, <1>2, <1>3, <1>4 DEF OwnOk, OwnNothing

LEMMA GameOwn ==
  ASSUME ServerTypes, ChannelTypes, BlockInv, WaitInv, OwnInv, Game
  PROVE  OwnInv'
<1>1. UNCHANGED serverVars /\ UNCHANGED <<toClient, apart>>
  BY GameChannel
<1>2. UNCHANGED vehicleHandlings BY <1>1 DEF serverVars
<1>3. ASSUME NEW w \in Vehicles, StreamIn(w) PROVE OwnInv'
  BY <1>1, <1>2, <1>3, StreamHas, OwnSame
<1>4. ASSUME UNCHANGED <<own, pending, flying>>, flyingByPtr' \subseteq flyingByPtr
      PROVE  OwnInv'
  <2>1. \A v \in Vehicles : OwnHas(v) => OwnHas(v)'
    BY <1>2, <1>4 DEF OwnHas
  <2> QED BY <1>1, <1>4, <2>1, OwnSame
<1>5. ASSUME NEW v \in Vehicles, Process(v) \/ Arrive(v) PROVE StreamIn(v)
  BY <1>5 DEF Process, Arrive
<1>6. ASSUME \/ Create \/ LeaveRide \/ EnterRide
             \/ \E v \in Vehicles : Appear(v) \/ Disappear(v) \/ Depart(v)
             \/ \E v \in Vehicles \cup {None} : Ride(v)
      PROVE  UNCHANGED <<own, pending, flying>> /\ flyingByPtr' \subseteq flyingByPtr
  BY <1>6 DEF Create, LeaveRide, EnterRide, Appear, Disappear, Depart, Ride,
     blocks, airVars
<1>7. CASE RunTask
  <2> PICK p : p = Head(tasks) OBVIOUS
  <2>2. tasks # <<>> BY <1>7 DEF RunTask
  <2>3. p \in TaskMessages /\ p \in Messages BY <2>2, TaskIsMessage DEF Messages
  <2>4. p.vehicle \in Vehicles /\ p.type \in {"Bind", "Unbind", "Door"}
    BY <2>3, MessageFields
  <2>5. UNCHANGED <<own, pending, flying, flyingByPtr>> \/ StreamIn(p.vehicle)
    <3>1. CASE p.type = "Bind" BY <1>7, <3>1 DEF RunTask, airVars
    <3>2. CASE p.type = "Unbind" BY <1>7, <3>2 DEF RunTask, airVars
    <3>3. CASE p.type = "Door" BY <1>7, <3>3 DEF RunTask, airVars
    <3> QED BY <2>4, <3>1, <3>2, <3>3
  <2> QED BY <1>3, <1>4, <2>4, <2>5
<1> QED BY <1>3, <1>4, <1>5, <1>6, <1>7 DEF Game

\* A packet about another vehicle, or none, changes nothing here.
LEMMA PacketOwnOther ==
  ASSUME ServerTypes, ChannelTypes, BlockInv, WaitInv, Packets, NEW v \in Vehicles,
         Msg \notin OwnAbout(v)
  PROVE  /\ own'[v] = own[v] /\ pending'[v] = pending[v]
         /\ v \in flying' <=> v \in flying
         /\ v \in flyingByPtr' <=> v \in flyingByPtr
<1> PICK p : p = Msg OBVIOUS
<1>1. p \in Messages BY PacketChannel
<1>2. DOMAIN own = Vehicles /\ pending \in [Vehicles -> Mods]
  BY DEF BlockInv, Domains, WaitInv
<1>3. p.type \in {"SetVehicle", "ResetVehicle"} => p.vehicle # v
  BY <1>1 DEF OwnAbout
<1>4. CASE ProcessVehicleMods
  <2>1. p.type = "SetVehicle" BY <1>4 DEF ProcessVehicleMods
  <2>2. p.vehicle # v /\ p.mods \in Mods BY <1>1, <1>3, <2>1, MessageFields
  <2>3. p.mods.plane \in BOOLEAN \cup {None} BY <2>2 DEF Mods
  <2> PICK mass : mass = OrElse(p.mods.mass, OrElse(own[p.vehicle], Driven(p.vehicle)))
    OBVIOUS
  <2>4. \/ /\ own' = [own EXCEPT ![p.vehicle] = mass]
           /\ Fly(p.vehicle, p.mods) /\ UNCHANGED pending
        \/ /\ pending' = [pending EXCEPT ![p.vehicle] = Over(p.mods, @)]
           /\ UNCHANGED <<own, airVars>>
    BY <1>4 DEF ProcessVehicleMods
  <2>5. own'[v] = own[v] /\ pending'[v] = pending[v] BY <1>2, <2>2, <2>4
  <2>6. Fly(p.vehicle, p.mods) \/ UNCHANGED airVars BY <2>4
  <2> QED BY <2>2, <2>3, <2>5, <2>6 DEF Fly, airVars
<1>5. CASE ResetVehicle
  <2>1. /\ p.type = "ResetVehicle" /\ own' = [own EXCEPT ![p.vehicle] = None]
        /\ pending' = [pending EXCEPT ![p.vehicle] = NoMods]
        /\ flying' = flying \ {p.vehicle} /\ UNCHANGED flyingByPtr
    BY <1>5 DEF ResetVehicle
  <2> QED BY <1>2, <1>3, <2>1
<1>6. CASE ~ProcessVehicleMods /\ ~ResetVehicle
  BY <1>6 DEF Packets, ProcessModelMods, ResetModel, ProcessPlayerMods,
     ResetPlayer, ReceiveTask, blocks, airVars
<1> QED BY <1>4, <1>5, <1>6

\* The packet that says it.
LEMMA PacketOwnSays ==
  ASSUME Orderly, ServerTypes, ChannelTypes, BlockInv, WaitInv, Packets,
         NEW v \in Vehicles, Msg \in OwnSays(v)
  PROVE  OwnHas(v)'
<1> PICK p : p = Msg OBVIOUS
<1> PICK mods : mods = vehicleHandlings[v].mods OBVIOUS
<1>1. /\ p \in Messages /\ UNCHANGED serverVars /\ pool \subseteq previous
  BY PacketChannel
<1>2. DOMAIN own = Vehicles /\ pending \in [Vehicles -> Mods]
  BY DEF BlockInv, Domains, WaitInv
<1>3. /\ p.type \in {"SetVehicle", "ResetVehicle"} /\ p.vehicle = v
      /\ p.type = "SetVehicle" => p.mods = mods /\ mods # NoMods
      /\ p.type = "ResetVehicle" => mods = NoMods
  BY <1>1 DEF OwnSays, OwnAbout
<1>4. vehicleHandlings'[v].mods = mods BY <1>1 DEF serverVars
<1>5. CASE ProcessVehicleMods
  <2>1. p.type = "SetVehicle" BY <1>5 DEF ProcessVehicleMods
  <2>2. mods \in Mods /\ mods # NoMods /\ p.mods = mods
    BY <1>1, <1>3, <2>1, MessageFields
  <2>3. mods.plane \in BOOLEAN \cup {None} BY <2>2 DEF Mods
  <2> PICK mass : mass = OrElse(mods.mass, OrElse(own[v], Driven(v)))
    OBVIOUS
  <2>4. CASE v \in pool
    <3>1. /\ own' = [own EXCEPT ![v] = mass]
          /\ Fly(v, mods) /\ UNCHANGED pending
      BY <1>3, <1>5, <2>2, <2>4 DEF ProcessVehicleMods
    <3>2. pending'[v] = NoMods BY <1>1, <2>4, <3>1 DEF WaitInv
    <3>3. own'[v] = mass BY <1>2, <3>1
    <3>4. mods.mass # None => OrElse(pending'[v].mass, own'[v]) = mods.mass
      BY <3>2, <3>3, NoneIsNot DEF OrElse
    <3>5. ASSUME mods.plane # None
          PROVE  /\ pending'[v].plane = None
                 /\ v \in flying' <=> mods.plane
                 /\ v \in flyingByPtr' => mods.plane
      BY <2>3, <3>1, <3>2, <3>5, NoneIsNot DEF Fly
    <3> QED BY <1>4, <2>2, <3>4, <3>5 DEF OwnHas
  <2>5. CASE v \notin pool
    <3>1. pending' = [pending EXCEPT ![v] = Over(mods, @)]
      BY <1>3, <1>5, <2>2, <2>5 DEF ProcessVehicleMods
    <3>2. pending'[v] = Over(mods, pending[v]) BY <1>2, <3>1
    <3>3. /\ mods.mass # None => pending'[v].mass = mods.mass
          /\ mods.plane # None => pending'[v].plane = mods.plane
      BY <3>2 DEF Over, OrElse
    <3>4. mods.mass # None => OrElse(pending'[v].mass, own'[v]) = mods.mass
      BY <3>3 DEF OrElse
    <3> QED BY <1>4, <2>2, <3>3, <3>4 DEF OwnHas
  <2> QED BY <2>4, <2>5
<1>6. CASE ResetVehicle
  <2>1. /\ p.type = "ResetVehicle" /\ own' = [own EXCEPT ![v] = None]
        /\ pending' = [pending EXCEPT ![v] = NoMods]
    BY <1>3, <1>6 DEF ResetVehicle
  <2>2. own'[v] = None /\ pending'[v] = NoMods BY <1>2, <2>1
  <2>3. mods = NoMods BY <1>3, <2>1
  <2> QED BY <1>4, <2>2, <2>3, NoneIsNot DEF OwnHas
<1>7. ProcessVehicleMods \/ ResetVehicle
  BY <1>3 DEF Packets, ProcessModelMods, ResetModel, ProcessPlayerMods,
     ResetPlayer, ReceiveTask
<1> QED BY <1>5, <1>6, <1>7

LEMMA PacketOwn ==
  ASSUME Orderly, ServerTypes, ChannelTypes, BlockInv, WaitInv, OwnInv, Packets
  PROVE  OwnInv'
<1> SUFFICES ASSUME NEW v \in Vehicles PROVE OwnOk(v)'
  BY DEF OwnInv
<1> PICK p : p = Msg OBVIOUS
<1>1. /\ toClient # <<>> /\ p \in Messages /\ p = Head(toClient)
      /\ toClient' = Tail(toClient) /\ Tail(toClient) \in Seq(Messages)
      /\ UNCHANGED serverVars /\ UNCHANGED apart
  BY PacketChannel
<1>2. toClient \in Seq(Messages) BY DEF ChannelTypes
<1>3. /\ OwnSays(v)' = OwnSays(v) /\ OwnAbout(v)' = OwnAbout(v)
      /\ OwnDue(v)' <=> OwnDue(v)
      /\ UNCHANGED <<authorized, born>>
  BY <1>1 DEF OwnSays, OwnAbout, OwnDue, serverVars
<1>4. /\ Quiet(toClient, OwnAbout(v)) =>
            p \notin OwnAbout(v) /\ Quiet(toClient', OwnAbout(v))
      /\ Tells(toClient, OwnAbout(v), OwnSays(v)) =>
            \/ Tells(toClient', OwnAbout(v), OwnSays(v))
            \/ p \in OwnSays(v) /\ Quiet(toClient', OwnAbout(v))
  BY <1>1, <1>2, TakesFirst
<1>5. p \notin OwnAbout(v) => (OwnHas(v) => OwnHas(v)')
  <2> SUFFICES ASSUME p \notin OwnAbout(v), OwnHas(v) PROVE OwnHas(v)'
    OBVIOUS
  <2>1. UNCHANGED vehicleHandlings BY <1>1 DEF serverVars
  <2> QED BY <2>1, PacketOwnOther DEF OwnHas
<1>6. p \in OwnSays(v) => OwnHas(v)' BY PacketOwnSays
<1>7. p \notin OwnAbout(v) => own'[v] = own[v] /\ pending'[v] = pending[v]
  BY PacketOwnOther
<1>8. OwnOk(v) BY DEF OwnInv
<1>9. OwnDue(v)' => \/ Tells(toClient', OwnAbout(v)', OwnSays(v)')
                    \/ Quiet(toClient', OwnAbout(v)') /\ OwnHas(v)'
  BY <1>3, <1>4, <1>5, <1>6, <1>8 DEF OwnOk
<1>10. OwnNothing(v) => OwnNothing(v)'
  BY <1>3, <1>4, <1>7 DEF OwnNothing
<1>11. ~authorized' \/ (v \notin born' /\ ~apart') => OwnNothing(v)
  BY <1>1, <1>3, <1>8 DEF OwnOk
<1> QED BY <1>9, <1>10, <1>11 DEF OwnOk

LEMMA RejoinOwn ==
  ASSUME Rejoin
  PROVE  OwnInv'
<1>1. /\ authorized' = FALSE /\ toClient' = <<>>
      /\ own' = [v \in Vehicles |-> None] /\ pending' = [v \in Vehicles |-> NoMods]
  BY DEF Rejoin
<1>2. \A v : Quiet(toClient', OwnAbout(v)) BY <1>1, Nothing
<1> QED BY <1>1, <1>2 DEF OwnInv, OwnOk, OwnDue, OwnNothing

LEMMA OwnStep ==
  ASSUME Orderly, ServerTypes, ChannelTypes, ServerAgrees, BlockInv, WaitInv,
         OwnInv, [Next]_vars
  PROVE  OwnInv'
<1>1. CASE UNCHANGED vars
  <2>1. UNCHANGED serverVars /\ UNCHANGED <<toClient, apart>> BY <1>1 DEF vars
  <2>2. UNCHANGED <<own, pending, flying, flyingByPtr, vehicleHandlings>>
    BY <1>1 DEF vars, clientVars, blocks, airVars, serverVars
  <2>3. \A v \in Vehicles : OwnHas(v) => OwnHas(v)' BY <2>2 DEF OwnHas
  <2> QED BY <2>1, <2>2, <2>3, OwnSame
<1> QED BY <1>1, NativeOwn, PacketOwn, GameOwn, RejoinOwn DEF Next

LEMMA InitOwn == Init => OwnInv
<1> SUFFICES ASSUME Init PROVE OwnInv
  OBVIOUS
<1>1. /\ authorized = FALSE /\ toClient = <<>>
      /\ own = [v \in Vehicles |-> None] /\ pending = [v \in Vehicles |-> NoMods]
  BY DEF Init
<1>2. \A v : Quiet(toClient, OwnAbout(v)) BY <1>1, Nothing
<1> QED BY <1>1, <1>2 DEF OwnInv, OwnOk, OwnDue, OwnNothing

-----------------------------------------------------------------------------
(* The base model's handling. *)

LEMMA ModelFields ==
  /\ \A p \in Messages : p \in ModelAbout => p.type \in {"SetModel", "ResetModel"}
  /\ ModelSays \subseteq ModelAbout /\ ModelResets \subseteq ModelAbout
BY DEF ModelAbout, ModelSays, ModelResets

\* What the server has of the model, and what is under way about it, stay.
LEMMA ModelKept ==
  ASSUME ModelInv,
         Quiet(toClient, ModelAbout) => Quiet(toClient', ModelAbout),
         \A G : Tells(toClient, ModelAbout, G) => Tells(toClient', ModelAbout, G),
         UNCHANGED <<authorized, apart, model>>,
         modelHandlings'[Base].mass = modelHandlings[Base].mass,
         Base \in outModels /\ modelHandlings[Base].mass # None => Base \in outModels'
  PROVE  ModelInv'
<1>1. ModelSays' = ModelSays BY DEF ModelSays
<1>2. ModelHas' <=> ModelHas BY DEF ModelHas
<1> QED BY <1>1, <1>2 DEF ModelInv

LEMMA ModelsTell ==
  ASSUME ServerTypes, NEW S, S \subseteq Models, NEW a, ModelsTold(a, S)
  PROVE  /\ Base \in S /\ modelHandlings[Base].mass # None =>
               Tells(a, ModelAbout, ModelSays)
         /\ Base \notin S \/ modelHandlings[Base].mass = None => Quiet(a, ModelAbout)
<1>1. \A s \in S : SetModelMsg(s) \in ModelAbout =>
          s = Base /\ modelHandlings[Base].mass # None
  BY TypeOf DEF ModelAbout
<1>2. ASSUME Base \in S, modelHandlings[Base].mass # None
      PROVE  Tells(a, ModelAbout, ModelSays)
  <2>1. SetModelMsg(Base) \in ModelSays
    BY <1>2, TypeOf, MessageTypes, Distinct DEF ModelSays, ModelAbout
  <2> QED BY <1>1, <1>2, <2>1 DEF ModelsTold
<1>3. ASSUME Base \notin S \/ modelHandlings[Base].mass = None
      PROVE  Quiet(a, ModelAbout)
  <2>1. \A s \in S : SetModelMsg(s) \notin ModelAbout BY <1>1, <1>3
  <2> QED BY <2>1 DEF ModelsTold
<1> QED BY <1>2, <1>3

LEMMA ResetModelModel ==
  ASSUME ServerTypes, ChannelTypes, ModelInv, NEW m \in Models, ResetModelHandling(m)
  PROVE  ModelInv'
<1> PICK p : p = [type |-> "ResetModel", model |-> m] OBVIOUS
<1>1. p \in Messages /\ p.type = "ResetModel" /\ p.model = m BY MessageTypes
<1>2. toClient' = toClient \o <<p>> /\ toClient \in Seq(Messages)
  BY OtherNativeGives DEF ChannelTypes
<1>3. /\ UNCHANGED <<authorized, apart, model, outModels>>
      /\ modelHandlings' = [modelHandlings EXCEPT ![m] = NoMods]
  BY DEF ResetModelHandling, clientVars, blocks
<1>4. <<p>> \in Seq(Messages) BY <1>1
<1>5. CASE m = Base
  <2>1. modelHandlings'[Base].mass = None
    BY <1>3, <1>5, NoneIsNot, Distinct DEF ServerTypes
  <2>2. p \in ModelSays' /\ p \in ModelResets
    BY <1>1, <1>5, <2>1 DEF ModelSays, ModelResets, ModelAbout
  <2>3. Tells(<<p>>, ModelAbout, ModelSays') /\ Tells(<<p>>, ModelAbout, ModelResets)
    BY <1>1, <1>2, <2>2, Single
  <2>4. /\ Tells(toClient', ModelAbout, ModelSays')
        /\ Tells(toClient', ModelAbout, ModelResets)
    BY <1>2, <1>4, <2>3, TellsLast
  <2> QED BY <1>3, <2>4 DEF ModelInv
<1>6. CASE m # Base
  <2>1. modelHandlings'[Base].mass = modelHandlings[Base].mass
    BY <1>3, <1>6, Distinct DEF ServerTypes
  <2>2. p \notin ModelAbout BY <1>1, <1>6 DEF ModelAbout
  <2>3. Quiet(<<p>>, ModelAbout) BY <1>1, <1>2, <2>2, Single
  <2>4. Quiet(toClient, ModelAbout) => Quiet(toClient', ModelAbout)
    BY <1>2, <1>4, <2>3, QuietBoth
  <2>5. \A G : Tells(toClient, ModelAbout, G) => Tells(toClient', ModelAbout, G)
    BY <1>2, <1>4, <2>3, TellsStill
  <2> QED BY <1>3, <2>1, <2>4, <2>5, ModelKept
<1> QED BY <1>5, <1>6

LEMMA TickModel ==
  ASSUME ServerTypes, ChannelTypes, ModelInv, ProcessTick
  PROVE  ModelInv'
<1> DEFINE S == {m \in outModels : modelHandlings[m] # NoMods}
<1>1. PICK a, b : TickTells(a, b) BY TickParts
<1>2. UNCHANGED <<authorized, apart, model, modelHandlings>>
  BY DEF ProcessTick, clientVars, blocks
<1>3. toClient \in Seq(Messages) BY DEF ChannelTypes
<1>4. /\ a \in Seq(Messages) /\ b \in Seq(Messages) /\ a \o b \in Seq(Messages)
      /\ ModelsTold(b, S) /\ S \subseteq Models
  BY <1>1 DEF TickTells, VehiclesTold, ModelsTold, ServerTypes
<1>5. toClient' = IF authorized THEN toClient \o (a \o b) ELSE toClient
  BY <1>1 DEF TickTells, SendAuthorized
<1>6. Quiet(a, ModelAbout)
  <2>1. \A i \in 1..Len(a) : a[i] \in Messages /\ a[i].type = "SetVehicle"
    BY <1>1 DEF TickTells, VehiclesTold
  <2> QED BY <2>1, ModelFields DEF Quiet
<1>7. ModelSays' = ModelSays BY <1>2 DEF ModelSays
<1>8. CASE ~authorized
  <2>1. toClient' = toClient BY <1>5, <1>8
  <2> QED BY <1>2, <1>8, <2>1 DEF ModelInv
<1>9. CASE authorized /\ Base \in outModels /\ modelHandlings[Base].mass # None
  <2>1. Base \in S BY <1>9, NoneIsNot
  <2> HIDE DEF S
  <2>2. Tells(b, ModelAbout, ModelSays) BY <1>4, <1>9, <2>1, ModelsTell
  <2>3. Tells(a \o b, ModelAbout, ModelSays) BY <1>4, <2>2, TellsLast
  <2>4. Tells(toClient', ModelAbout, ModelSays) BY <1>3, <1>4, <1>5, <1>9, <2>3, TellsLast
  <2> QED BY <1>2, <1>7, <1>9, <2>4 DEF ModelInv
<1>10. CASE authorized /\ ~(Base \in outModels /\ modelHandlings[Base].mass # None)
  <2>1. Base \notin S \/ modelHandlings[Base].mass = None BY <1>10
  <2> HIDE DEF S
  <2>2. Quiet(b, ModelAbout) BY <1>4, <2>1, ModelsTell
  <2>3. Quiet(a \o b, ModelAbout) BY <1>4, <1>6, <2>2, QuietBoth
  <2>4. Quiet(toClient, ModelAbout) => Quiet(toClient', ModelAbout)
    BY <1>3, <1>4, <1>5, <1>10, <2>3, QuietBoth
  <2>5. \A G : Tells(toClient, ModelAbout, G) => Tells(toClient', ModelAbout, G)
    BY <1>3, <1>4, <1>5, <1>10, <2>3, TellsStill
  <2> QED BY <1>2, <1>10, <2>4, <2>5, ModelKept
<1> QED BY <1>8, <1>9, <1>10

LEMMA AuthorizedModel ==
  ASSUME ServerTypes, ChannelTypes, ModelInv, OnPlayerAuthorized
  PROVE  ModelInv'
<1> DEFINE S == {m \in Models : modelHandlings[m] # NoMods}
<1>1. PICK a, b, c, d : AuthorizedTells(a, b, c, d) BY AuthorizedParts
<1>2. UNCHANGED <<apart, model, modelHandlings>> /\ ~authorized /\ authorized'
  BY DEF OnPlayerAuthorized, clientVars, blocks
<1>3. /\ a \in Seq(Messages) /\ b \in Seq(Messages) /\ c \in Seq(Messages)
      /\ d \in Seq(Messages) /\ toClient \in Seq(Messages)
      /\ ModelsTold(a, S) /\ S \subseteq Models
      /\ toClient' = (((toClient \o a) \o b) \o c) \o d
  BY <1>1 DEF AuthorizedTells, DoorsTold, ModelsTold, VehiclesTold, ChannelTypes
<1> DEFINE q1 == toClient \o a
           q2 == q1 \o b
           q3 == q2 \o c
<1>4. q1 \in Seq(Messages) /\ q2 \in Seq(Messages) /\ q3 \in Seq(Messages)
      /\ toClient' = q3 \o d
  BY <1>3
<1>5. Quiet(b, ModelAbout) /\ Quiet(c, ModelAbout) /\ Quiet(d, ModelAbout)
  <2>1. \A i \in 1..Len(b) : b[i] \in Messages /\ b[i].type = "Door"
    BY <1>1 DEF AuthorizedTells, DoorsTold
  <2>2. \A i \in 1..Len(c) : c[i] \in Messages /\ c[i].type = "SetVehicle"
    BY <1>1 DEF AuthorizedTells, VehiclesTold
  <2>3. \A i \in 1..Len(d) : d[i] \in Messages /\ d[i].type = "Bind"
    BY <1>1 DEF AuthorizedTells
  <2> QED BY <2>1, <2>2, <2>3, ModelFields DEF Quiet
<1>6. ModelSays' = ModelSays BY <1>2 DEF ModelSays
<1>7. CASE modelHandlings[Base].mass # None
  <2>1. Base \in S BY <1>7, NoneIsNot, Distinct
  <2> HIDE DEF S, q1, q2, q3
  <2>2. Tells(a, ModelAbout, ModelSays) BY <1>3, <1>7, <2>1, ModelsTell
  <2>3. Tells(q1, ModelAbout, ModelSays) BY <1>3, <2>2, TellsLast DEF q1
  <2>4. Tells(q2, ModelAbout, ModelSays) BY <1>3, <1>4, <1>5, <2>3, TellsStill DEF q2
  <2>5. Tells(q3, ModelAbout, ModelSays) BY <1>3, <1>4, <1>5, <2>4, TellsStill DEF q3
  <2>6. Tells(toClient', ModelAbout, ModelSays)
    BY <1>3, <1>4, <1>5, <2>5, TellsStill
  <2> QED BY <1>2, <1>6, <2>6 DEF ModelInv
<1>8. CASE modelHandlings[Base].mass = None
  <2> HIDE DEF S, q1, q2, q3
  <2>1. Quiet(a, ModelAbout) BY <1>3, <1>8, ModelsTell
  <2>2. CASE Quiet(toClient, ModelAbout)
    <3>1. Quiet(q1, ModelAbout) BY <1>3, <2>1, <2>2, QuietBoth DEF q1
    <3>2. Quiet(q2, ModelAbout) BY <1>3, <1>4, <1>5, <3>1, QuietBoth DEF q2
    <3>3. Quiet(q3, ModelAbout) BY <1>3, <1>4, <1>5, <3>2, QuietBoth DEF q3
    <3>4. Quiet(toClient', ModelAbout) BY <1>3, <1>4, <1>5, <3>3, QuietBoth
    <3>5. ModelHas' BY <1>2, <1>8 DEF ModelInv, ModelHas
    <3> QED BY <1>2, <3>4, <3>5 DEF ModelInv
  <2>3. CASE Tells(toClient, ModelAbout, ModelResets)
    <3>1. Tells(q1, ModelAbout, ModelResets) BY <1>3, <2>1, <2>3, TellsStill DEF q1
    <3>2. Tells(q2, ModelAbout, ModelResets) BY <1>3, <1>4, <1>5, <3>1, TellsStill DEF q2
    <3>3. Tells(q3, ModelAbout, ModelResets) BY <1>3, <1>4, <1>5, <3>2, TellsStill DEF q3
    <3>4. Tells(toClient', ModelAbout, ModelResets)
      BY <1>3, <1>4, <1>5, <3>3, TellsStill
    <3>5. ModelResets \subseteq ModelSays BY <1>8 DEF ModelResets, ModelSays
    <3>6. Tells(toClient', ModelAbout, ModelSays) BY <3>4, <3>5, SaysMore
    <3> QED BY <1>2, <1>6, <3>6 DEF ModelInv
  <2> QED BY <1>2, <2>2, <2>3 DEF ModelInv
<1> QED BY <1>7, <1>8

LEMMA OtherNativesModel ==
  ASSUME ServerTypes, ChannelTypes, ModelInv, Natives,
         ~OnPlayerAuthorized, ~ProcessTick, ~ResetAll,
         \A m \in Models : ~ResetModelHandling(m)
  PROVE  ModelInv'
<1> DEFINE L == {"Unbind", "Bind", "Door", "SetVehicle", "ResetVehicle",
                 "SetPlayer", "ResetPlayer"}
<1>1. UNCHANGED <<authorized, apart, model>>
  BY DEF Natives, OnCreateVehicle, OnDestroyVehicle, SetVehicleHandling,
         ResetVehicleHandling, BroadcastVehicleCorrection, SetVehicleDoorMissing,
         BindVehicle, UnbindVehicle, OnVehicleStreamIn, StreamOut,
         SetModelHandling, SetPlayerHandling, ResetPlayerHandling, clientVars,
         blocks, serverVars
<1>2. Gives(L)
  <2>1. /\ {} \subseteq L /\ {"Unbind"} \subseteq L /\ {"Bind"} \subseteq L
        /\ {"Door"} \subseteq L /\ {"SetPlayer"} \subseteq L
        /\ {"ResetPlayer"} \subseteq L /\ {"ResetVehicle"} \subseteq L
        /\ {"SetVehicle", "ResetVehicle"} \subseteq L
        /\ {"Door", "SetVehicle", "Bind"} \subseteq L
    OBVIOUS
  <2> HIDE DEF L
  <2>2. \A K : K \subseteq L /\ Gives(K) => Gives(L) BY MoreGiven
  <2>3. ASSUME NEW v \in Vehicles,
               \/ OnCreateVehicle(v) \/ OnDestroyVehicle(v)
               \/ \E mods \in Given : SetVehicleHandling(v, mods)
               \/ ResetVehicleHandling(v) \/ BroadcastVehicleCorrection(v)
               \/ BindVehicle(v) \/ UnbindVehicle(v) \/ OnVehicleStreamIn(v)
               \/ StreamOut(v)
               \/ \E gone \in BOOLEAN : SetVehicleDoorMissing(v, gone)
        PROVE  Gives(L)
    BY ONLY <2>1, <2>2, <2>3, VehicleNativeGives, ServerTypes, ChannelTypes, Zenon
  <2>4. ASSUME \/ \E m \in Models, mods \in Given : SetModelHandling(m, mods)
               \/ \E x \in Masses : SetPlayerHandling(x)
               \/ ResetPlayerHandling
        PROVE  Gives(L)
    BY ONLY <2>1, <2>2, <2>4, OtherNativeGives, ServerTypes, ChannelTypes, Zenon
  <2> QED BY <2>3, <2>4 DEF Natives
<1>3. /\ Quiet(toClient, ModelAbout) => Quiet(toClient', ModelAbout)
      /\ \A G : Tells(toClient, ModelAbout, G) => Tells(toClient', ModelAbout, G)
  <2>1. \A p \in Messages : p \in ModelAbout => p.type \notin L BY ModelFields
  <2> HIDE DEF L
  <2> QED BY <1>2, <2>1, QuietGiven
<1>4. CASE \E m \in Models, mods \in Given : SetModelHandling(m, mods)
  <2>1. PICK m \in Models, mods \in Given : SetModelHandling(m, mods) BY <1>4
  <2>2. /\ modelHandlings' = [modelHandlings EXCEPT ![m] = Over(mods, @)]
        /\ outModels' = outModels \cup {m}
    BY <2>1 DEF SetModelHandling
  <2>3. CASE m = Base /\ mods.mass # None
    <3>1. modelHandlings'[Base].mass # None /\ Base \in outModels'
      BY <2>2, <2>3, Distinct DEF ServerTypes, Over, OrElse
    <3> QED BY <1>1, <1>3, <3>1 DEF ModelInv
  <2>4. CASE ~(m = Base /\ mods.mass # None)
    <3>1. modelHandlings'[Base].mass = modelHandlings[Base].mass
      BY <2>2, <2>4, Distinct DEF ServerTypes, Over, OrElse
    <3> QED BY <1>1, <1>3, <2>2, <3>1, ModelKept
  <2> QED BY <2>3, <2>4
<1>5. CASE ~\E m \in Models, mods \in Given : SetModelHandling(m, mods)
  <2>1. UNCHANGED <<modelHandlings, outModels>>
    BY <1>5 DEF Natives, OnCreateVehicle, OnDestroyVehicle, SetVehicleHandling,
         ResetVehicleHandling, BroadcastVehicleCorrection, SetVehicleDoorMissing,
         BindVehicle, UnbindVehicle, OnVehicleStreamIn, StreamOut,
         SetPlayerHandling, ResetPlayerHandling, serverVars
  <2> QED BY <1>1, <1>3, <2>1, ModelKept
<1> QED BY <1>4, <1>5

LEMMA NativeModel ==
  ASSUME ServerTypes, ChannelTypes, ModelInv, Natives
  PROVE  ModelInv'
<1>1. CASE ResetAll
  <2>1. authorized' /\ apart' BY <1>1 DEF ResetAll
  <2> QED BY <2>1 DEF ModelInv
<1> QED BY <1>1, OtherNativesModel, ResetModelModel, TickModel, AuthorizedModel

\* A packet about another model, or one that sets no mass, leaves the block or
\* makes one that is the game's.
LEMMA PacketModelOther ==
  ASSUME ChannelTypes, BlockInv, Packets, Msg \notin ModelAbout
  PROVE  model'[Base] = model[Base] \/ (model[Base] = None /\ model'[Base] = Stock)
<1> PICK p : p = Msg OBVIOUS
<1>1. p \in Messages BY PacketChannel
<1>2. DOMAIN model = Models /\ Base \in Models BY Distinct DEF BlockInv, Domains
<1>3. CASE ProcessModelMods
  <2>1. p.type = "SetModel" BY <1>3 DEF ProcessModelMods
  <2>2. p.model = Base => p.mods.mass = None BY <1>1, <2>1 DEF ModelAbout
  <2>3. UNCHANGED model \/ model' = [model EXCEPT ![p.model] =
                                        OrElse(p.mods.mass, OrElse(@, Stock))]
    BY <1>3 DEF ProcessModelMods
  <2> QED BY <1>2, <2>2, <2>3 DEF OrElse
<1>4. CASE ResetModel
  <2>1. p.type = "ResetModel" /\ (UNCHANGED model \/ model' = [model EXCEPT ![p.model] = None])
    BY <1>4 DEF ResetModel
  <2>2. p.model # Base BY <1>1, <2>1 DEF ModelAbout
  <2> QED BY <1>2, <2>1, <2>2
<1>5. CASE ~ProcessModelMods /\ ~ResetModel
  BY <1>5 DEF Packets, ProcessVehicleMods, ResetVehicle, ProcessPlayerMods,
     ResetPlayer, ReceiveTask, blocks
<1> QED BY <1>3, <1>4, <1>5

LEMMA PacketModelSays ==
  ASSUME ChannelTypes, BlockInv, Packets
  PROVE  /\ Msg \in ModelSays => ModelHas'
         /\ Msg \in ModelResets => model'[Base] = None
<1> PICK p : p = Msg OBVIOUS
<1>1. p \in Messages /\ UNCHANGED serverVars BY PacketChannel
<1>2. DOMAIN model = Models /\ Base \in Models BY Distinct DEF BlockInv, Domains
<1>3. UNCHANGED modelHandlings BY <1>1 DEF serverVars
<1>4. ASSUME p \in ModelAbout
      PROVE  /\ p.type = "SetModel" =>
                   p.mods.mass # None /\ model'[Base] = p.mods.mass
             /\ p.type # "SetModel" => model'[Base] = None
  <2>1. /\ p.type \in {"SetModel", "ResetModel"} /\ p.model = Base
        /\ p.type = "SetModel" => p.mods.mass # None
    BY <1>4 DEF ModelAbout
  <2>2. CASE ProcessModelMods
    <3>1. /\ p.type = "SetModel"
          /\ model' = [model EXCEPT ![Base] = OrElse(p.mods.mass, OrElse(@, Stock))]
      BY <2>1, <2>2 DEF ProcessModelMods
    <3> QED BY <1>2, <2>1, <3>1 DEF OrElse
  <2>3. CASE ResetModel
    <3>1. /\ p.type = "ResetModel"
          /\ \/ model[Base] = None /\ UNCHANGED model
             \/ model' = [model EXCEPT ![Base] = None]
      BY <2>1, <2>3 DEF ResetModel
    <3> QED BY <1>2, <3>1
  <2>4. ProcessModelMods \/ ResetModel
    BY <2>1 DEF Packets, ProcessVehicleMods, ResetVehicle, ProcessPlayerMods,
       ResetPlayer, ReceiveTask
  <2> QED BY <2>2, <2>3, <2>4
<1>5. ASSUME p \in ModelSays PROVE ModelHas'
  <2>1. p \in ModelAbout BY <1>5, ModelFields
  <2>2. IF p.type = "SetModel" THEN modelHandlings[Base].mass = p.mods.mass
                               ELSE modelHandlings[Base].mass = None
    BY <1>5 DEF ModelSays
  <2> QED BY <1>3, <1>4, <2>1, <2>2 DEF ModelHas
<1>6. ASSUME p \in ModelResets PROVE model'[Base] = None
  BY <1>4, <1>6, ModelFields DEF ModelResets
<1> QED BY <1>5, <1>6

LEMMA PacketModel ==
  ASSUME ServerTypes, ChannelTypes, BlockInv, ModelInv, Packets
  PROVE  ModelInv'
<1> PICK p : p = Msg OBVIOUS
<1>1. /\ toClient # <<>> /\ p \in Messages /\ p = Head(toClient)
      /\ toClient' = Tail(toClient) /\ Tail(toClient) \in Seq(Messages)
      /\ UNCHANGED serverVars /\ UNCHANGED apart
  BY PacketChannel
<1>2. toClient \in Seq(Messages) BY DEF ChannelTypes
<1>3. UNCHANGED <<authorized, modelHandlings, outModels>> BY <1>1 DEF serverVars
<1>4. ModelSays' = ModelSays BY <1>3 DEF ModelSays
<1>5. /\ Quiet(toClient, ModelAbout) =>
            p \notin ModelAbout /\ Quiet(toClient', ModelAbout)
      /\ \A G : Tells(toClient, ModelAbout, G) =>
            \/ Tells(toClient', ModelAbout, G)
            \/ p \in G /\ Quiet(toClient', ModelAbout)
  BY <1>1, <1>2, TakesFirst
<1>6. p \notin ModelAbout => /\ ModelHas => ModelHas'
                             /\ model[Base] \in {None, Stock} =>
                                   model'[Base] \in {None, Stock}
  <2>1. p \notin ModelAbout => \/ model'[Base] = model[Base]
                               \/ model[Base] = None /\ model'[Base] = Stock
    BY PacketModelOther
  <2> QED BY <1>3, <2>1 DEF ModelHas
<1>7. /\ p \in ModelSays => ModelHas'
      /\ p \in ModelResets => model'[Base] = None
  BY PacketModelSays
<1>8. ASSUME authorized, ~apart, Base \notin outModels \/ modelHandlings[Base].mass = None
      PROVE  \/ Tells(toClient', ModelAbout, ModelSays)
             \/ Quiet(toClient', ModelAbout) /\ ModelHas'
  <2>1. \/ Tells(toClient, ModelAbout, ModelSays)
        \/ Quiet(toClient, ModelAbout) /\ ModelHas
    BY <1>8 DEF ModelInv
  <2> QED BY <1>5, <1>6, <1>7, <2>1
<1>9. ASSUME ~authorized
      PROVE  /\ \/ Tells(toClient', ModelAbout, ModelResets)
                \/ Quiet(toClient', ModelAbout)
             /\ model'[Base] \in {None, Stock}
  <2>1. /\ \/ Tells(toClient, ModelAbout, ModelResets)
           \/ Quiet(toClient, ModelAbout)
        /\ model[Base] \in {None, Stock}
    BY <1>9 DEF ModelInv
  <2>2. p.type = "ResetModel"
    <3>1. Len(toClient) \in Nat /\ 1 \in 1..Len(toClient) /\ p = toClient[1]
      BY <1>1, <1>2
    <3> QED BY <1>9, <3>1 DEF ChannelTypes
  <2>3. p \in ModelAbout => p \in ModelResets BY <2>2 DEF ModelResets
  <2> QED BY <1>5, <1>6, <1>7, <2>1, <2>3
<1> QED BY <1>1, <1>3, <1>4, <1>8, <1>9 DEF ModelInv

LEMMA ModelStep ==
  ASSUME ServerTypes, ChannelTypes, BlockInv, ModelInv, [Next]_vars
  PROVE  ModelInv'
<1>1. CASE Game \/ UNCHANGED vars
  <2>1. UNCHANGED serverVars /\ UNCHANGED <<toClient, apart>>
    BY <1>1, GameChannel DEF vars
  <2>2. UNCHANGED model
    BY <1>1 DEF Game, RunTask, Create, Process, Appear, Arrive, Disappear,
       Depart, Ride, LeaveRide, EnterRide, vars, clientVars, blocks
  <2> QED BY <2>1, <2>2, ModelKept DEF serverVars
<1>2. CASE Rejoin
  <2>1. authorized' = FALSE /\ toClient' = <<>> /\ model' = [m \in Models |-> None]
    BY <1>2 DEF Rejoin
  <2> QED BY <2>1, Nothing, Distinct DEF ModelInv
<1> QED BY <1>1, <1>2, NativeModel, PacketModel DEF Next

LEMMA InitModel == Init => ModelInv
<1> SUFFICES ASSUME Init PROVE ModelInv
  OBVIOUS
<1>1. authorized = FALSE /\ toClient = <<>> /\ model = [m \in Models |-> None]
  BY DEF Init
<1> QED BY <1>1, Nothing, Distinct DEF ModelInv

-----------------------------------------------------------------------------
(* Where vehicles are pointed. *)

\* One vehicle is pointed elsewhere, and others are bound or stay as they are.
LEMMA PointKept ==
  ASSUME PointInv, NEW v, BlockInv,
         pool' \cap previous' \subseteq (pool \cap previous) \cup {v},
         strayed \ {v} \subseteq strayed',
         \A w \in Vehicles : w # v => /\ own'[w] = own[w] /\ pointer'[w] = pointer[w]
                                      /\ applied'[w] = applied[w]
                                      /\ binding'[w] = binding[w] \/ binding'[w] # None,
         UNCHANGED model,
         v \in (pool' \cap previous') \ strayed' => Pointed(v)'
  PROVE  PointInv'
<1> SUFFICES ASSUME NEW w \in (pool' \cap previous') \ strayed' PROVE Pointed(w)'
  BY DEF PointInv
<1>1. CASE w # v
  <2>1. w \in (pool \cap previous) \ strayed /\ w \in Vehicles
    BY <1>1 DEF BlockInv, Domains
  <2>2. Pointed(w) BY <2>1 DEF PointInv
  <2> QED BY <1>1, <2>1, <2>2 DEF Pointed
<1> QED BY <1>1

\* Nothing a vehicle's pointer depends on.
LEMMA PointSame ==
  ASSUME PointInv, pool' \cap previous' \subseteq pool \cap previous,
         UNCHANGED <<own, pointer, applied, binding, model, strayed>>
  PROVE  PointInv'
BY DEF PointInv, Pointed

LEMMA ApplyPoint ==
  ASSUME PointInv, BlockInv, NEW mass, ApplyPlayer(ride, mass),
         UNCHANGED <<pool, previous, own, model, binding>>
  PROVE  PointInv'
<1> PICK v : v = ride OBVIOUS
<1>1. CASE v # None /\ v \in pool /\ own[v] = None /\ applied[v] = None /\ mass # None
  <2>1. /\ applied' = [applied EXCEPT ![v] = mass]
        /\ pointer' = [pointer EXCEPT ![v] = "applied"]
        /\ strayed' = strayed \ {v}
    BY <1>1 DEF ApplyPlayer
  <2>2. v \in Vehicles /\ DOMAIN applied = Vehicles /\ DOMAIN pointer = Vehicles
    BY <1>1 DEF BlockInv, Domains
  <2>3. applied'[v] = mass /\ pointer'[v] = "applied" BY <2>1, <2>2
  <2>4. Pointed(v)' BY <1>1, <2>3 DEF Pointed
  <2>5. \A w \in Vehicles : w # v => applied'[w] = applied[w] /\ pointer'[w] = pointer[w]
    BY <2>1, <2>2
  <2> QED BY <2>1, <2>4, <2>5, PointKept
<1>2. CASE ~(v # None /\ v \in pool /\ own[v] = None /\ applied[v] = None /\ mass # None)
  BY <1>2, PointSame DEF ApplyPlayer
<1> QED BY <1>1, <1>2

LEMMA VehiclePacketPoint ==
  ASSUME BlockInv, PointInv, ProcessVehicleMods \/ ResetVehicle
  PROVE  PointInv'
<1> PICK v : v = Msg.vehicle OBVIOUS
<1>1. /\ DOMAIN own = Vehicles /\ DOMAIN pointer = Vehicles /\ pool \subseteq Vehicles
  BY DEF BlockInv, Domains
<1>2. UNCHANGED <<pool, previous, applied, binding, model>>
  BY DEF ProcessVehicleMods, ResetVehicle, worldVars, bindVars
<1>3. CASE ProcessVehicleMods
  <2> PICK mass : mass = OrElse(Msg.mods.mass, OrElse(own[v], Driven(v))) OBVIOUS
  <2>1. CASE v \in pool
    <3>1. /\ own' = [own EXCEPT ![v] = mass]
          /\ pointer' = [pointer EXCEPT ![v] = "own"]
          /\ strayed' = strayed \ {v}
      BY <1>3, <2>1 DEF ProcessVehicleMods
    <3>2. mass # None BY DrivenIsNot, Kept
    <3>3. own'[v] = mass /\ pointer'[v] = "own" BY <1>1, <2>1, <3>1
    <3>4. Pointed(v)' BY <3>2, <3>3 DEF Pointed
    <3>5. \A w \in Vehicles : w # v => own'[w] = own[w] /\ pointer'[w] = pointer[w]
      BY <1>1, <3>1
    <3> QED BY <1>2, <3>1, <3>4, <3>5, PointKept
  <2>2. CASE v \notin pool
    BY <1>2, <1>3, <2>2, PointSame DEF ProcessVehicleMods
  <2> QED BY <2>1, <2>2
<1>4. CASE ResetVehicle
  <2>1. /\ own' = [own EXCEPT ![v] = None]
        /\ pointer' = IF own[v] # None /\ v \in pool
                      THEN [pointer EXCEPT ![v] = Fallback(v)] ELSE pointer
        /\ strayed' = IF own[v] = None \/ v \notin pool THEN strayed
                      ELSE IF pointer'[v] \in Models \ {ModelOf(v)}
                      THEN strayed \cup {v} ELSE strayed \ {v}
    BY <1>4 DEF ResetVehicle
  <2>2. \A w \in Vehicles : w # v => own'[w] = own[w] /\ pointer'[w] = pointer[w]
    BY <1>1, <2>1
  <2>3. v \in (pool' \cap previous') \ strayed' => Pointed(v)'
    <3>1. CASE own[v] = None /\ v \in pool
      <4>1. own'[v] = own[v] /\ UNCHANGED <<pointer, strayed>> BY <1>1, <2>1, <3>1
      <4> QED BY <1>2, <4>1 DEF PointInv, Pointed
    <3>2. CASE own[v] # None /\ v \in pool
      <4>1. own'[v] = None /\ pointer'[v] = Fallback(v) BY <1>1, <2>1, <3>2
      <4> QED BY <1>2, <4>1 DEF Pointed, Fallback, ModelOrStatic
    <3> QED BY <1>2, <3>1, <3>2
  <2> QED BY <1>2, <2>1, <2>2, <2>3, PointKept
<1> QED BY <1>3, <1>4

LEMMA ModelPacketPoint ==
  ASSUME BlockInv, PointInv, ProcessModelMods \/ ResetModel
  PROVE  PointInv'
<1> PICK m : m = Msg.model OBVIOUS
<1>1. /\ DOMAIN model = Models /\ pool \subseteq Vehicles /\ Base \in Models
  BY Distinct DEF BlockInv, Domains
<1>2. UNCHANGED <<pool, previous, applied, binding, own>>
  BY DEF ProcessModelMods, ResetModel, worldVars, bindVars
<1>3. CASE UNCHANGED <<model, pointer, strayed>>
  BY <1>2, <1>3, PointSame
<1>4. CASE ProcessModelMods /\ ~UNCHANGED <<model, pointer, strayed>>
  <2> PICK mass : mass = OrElse(Msg.mods.mass, OrElse(model[m], Stock)) OBVIOUS
  <2>1. /\ model' = [model EXCEPT ![m] = mass]
        /\ pointer' = [v \in Vehicles |-> IF Follows(v, m) THEN m ELSE pointer[v]]
        /\ strayed' = {v \in strayed : ~Follows(v, m)}
    BY <1>4 DEF ProcessModelMods
  <2>2. m # Base => model'[Base] = model[Base] BY <1>1, <2>1
  <2> SUFFICES ASSUME NEW v \in (pool' \cap previous') \ strayed' PROVE Pointed(v)'
    BY DEF PointInv
  <2>3. v \in Vehicles BY <1>1, <1>2
  <2>4. CASE Follows(v, m)
    <3>1. pointer'[v] = m BY <2>1, <2>3, <2>4
    <3> QED BY <1>2, <2>4, <3>1 DEF Pointed, Follows, ModelOf
  <2>5. CASE ~Follows(v, m)
    <3>1. v \notin strayed /\ pointer'[v] = pointer[v] BY <2>1, <2>3, <2>5
    <3>2. Pointed(v) BY <1>2, <3>1 DEF PointInv
    <3>3. m = Base => binding[v] # None \/ own[v] # None \/ applied[v] # None
      BY <1>2, <2>5 DEF Follows, ModelOf
    <3> QED BY <1>2, <2>2, <3>1, <3>2, <3>3 DEF Pointed
  <2> QED BY <2>4, <2>5
<1>5. CASE ResetModel /\ ~UNCHANGED <<model, pointer, strayed>>
  <2>1. /\ model' = [model EXCEPT ![m] = None]
        /\ pointer' = [v \in Vehicles |-> IF Follows(v, m) THEN "static"
                                                           ELSE pointer[v]]
        /\ strayed' = strayed
    BY <1>5 DEF ResetModel
  <2>2. /\ m # Base => model'[Base] = model[Base]
        /\ m = Base => model'[Base] = None
    BY <1>1, <2>1
  <2> SUFFICES ASSUME NEW v \in (pool' \cap previous') \ strayed' PROVE Pointed(v)'
    BY DEF PointInv
  <2>3. v \in Vehicles BY <1>1, <1>2
  <2>4. Pointed(v) BY <1>2, <2>1 DEF PointInv
  <2>5. CASE Follows(v, m)
    <3>1. m # Base => binding[v] # None BY <2>5 DEF Follows, ModelOf
    <3> QED BY <1>2, <2>2, <2>5, <3>1 DEF Pointed, Follows
  <2>6. CASE ~Follows(v, m)
    <3>1. pointer'[v] = pointer[v] BY <2>1, <2>3, <2>6
    <3> QED BY <1>2, <2>2, <2>4, <3>1 DEF Pointed
  <2> QED BY <2>5, <2>6
<1> QED BY <1>3, <1>4, <1>5

LEMMA ResetPlayerPoint ==
  ASSUME BlockInv, PointInv, ResetPlayer
  PROVE  PointInv'
<1> PICK with : with = IF player # None THEN {v \in Vehicles : applied[v] # None} ELSE {}
  OBVIOUS
<1>1. UNCHANGED <<pool, previous, own, model, binding>> /\ pool \subseteq Vehicles
  BY DEF ResetPlayer, worldVars, bindVars, BlockInv, Domains
<1>2. /\ applied' = [v \in Vehicles |-> IF v \in with THEN None ELSE applied[v]]
      /\ pointer' = [v \in Vehicles |-> IF v \in with \cap pool
                                        THEN ModelOrStatic(Base) ELSE pointer[v]]
      /\ strayed' = {v \in strayed : v \notin with \cap pool}
                    \cup {v \in with \cap pool :
                             own[v] # None \/ Stray(v, pointer'[v], ModelOf(v))}
  BY DEF ResetPlayer
<1> SUFFICES ASSUME NEW v \in (pool' \cap previous') \ strayed' PROVE Pointed(v)'
  BY DEF PointInv
<1>3. v \in Vehicles /\ v \in pool BY <1>1
<1>4. CASE v \in with
  <2>1. /\ applied'[v] = None /\ pointer'[v] = ModelOrStatic(Base) /\ own[v] = None
    BY <1>2, <1>3, <1>4
  <2> QED BY <1>1, <2>1 DEF Pointed, ModelOrStatic
<1>5. CASE v \notin with
  <2>1. applied'[v] = applied[v] /\ pointer'[v] = pointer[v] /\ v \notin strayed
    BY <1>2, <1>3, <1>5
  <2>2. Pointed(v) BY <1>1, <2>1 DEF PointInv
  <2> QED BY <1>1, <2>1, <2>2 DEF Pointed
<1> QED BY <1>4, <1>5

LEMMA PacketPoint ==
  ASSUME BlockInv, PointInv, Packets
  PROVE  PointInv'
<1>1. CASE ReceiveTask
  BY <1>1, PointSame DEF ReceiveTask, worldVars, blocks, bindVars
<1>2. CASE ProcessPlayerMods
  <2>1. /\ ApplyPlayer(ride, Msg.mass)
        /\ UNCHANGED <<pool, previous, own, model, binding>>
    BY <1>2 DEF ProcessPlayerMods, worldVars, bindVars
  <2> QED BY <2>1, ApplyPoint
<1> QED BY <1>1, <1>2, VehiclePacketPoint, ModelPacketPoint, ResetPlayerPoint
        DEF Packets

\* What a frame points a vehicle at, when it is not pointed at its own block.
LEMMA StreamPoint ==
  ASSUME BlockInv, NEW v \in Vehicles, StreamIn(v)
  PROVE  /\ pointer'[v] = StreamedPointer(v)
         /\ own'[v] # None => pointer'[v] = "own"
         /\ own'[v] = None /\ binding[v] = None /\ model[Base] # None =>
               pointer'[v] = Base
         /\ \A w \in Vehicles : w # v => own'[w] = own[w] /\ pointer'[w] = pointer[w]
<1> PICK mass : mass = OrElse(pending[v].mass, OrElse(own[v], Driven(v))) OBVIOUS
<1>1. DOMAIN own = Vehicles /\ DOMAIN pointer = Vehicles BY DEF BlockInv, Domains
<1>2. /\ own' = IF Waiting(v) THEN [own EXCEPT ![v] = mass] ELSE own
      /\ pointer' = [pointer EXCEPT ![v] = StreamedPointer(v)]
  BY DEF StreamIn
<1>3. mass # None BY DrivenIsNot, Kept
<1>4. pointer'[v] = StreamedPointer(v) BY <1>1, <1>2
<1>5. own'[v] = IF Waiting(v) THEN mass ELSE own[v] BY <1>1, <1>2
<1> QED BY <1>1, <1>2, <1>3, <1>4, <1>5 DEF StreamedPointer, ModelOf

LEMMA TaskPoint ==
  ASSUME ChannelTypes, BlockInv, BlockInv', PointInv, RunTask
  PROVE  PointInv'
<1> PICK p : p = Head(tasks) OBVIOUS
<1> PICK v : v = p.vehicle OBVIOUS
<1>1. tasks # <<>> BY DEF RunTask
<1>2. p \in TaskMessages /\ p \in Messages BY <1>1, TaskIsMessage DEF Messages
<1>3. v \in Vehicles /\ p.type \in {"Bind", "Unbind", "Door"}
  BY <1>2, MessageFields
<1>4. UNCHANGED <<pool, previous, applied, model>> BY DEF RunTask, worldVars
<1>5. DOMAIN binding = Vehicles BY DEF BlockInv, Domains
<1>6. CASE p.type = "Bind"
  <2>1. /\ binding' = [binding EXCEPT ![v] = Custom]
        /\ strayed \subseteq strayed' /\ UNCHANGED <<own, pointer>>
    BY <1>6 DEF RunTask
  <2>2. binding'[v] # None /\ \A w \in Vehicles : w # v => binding'[w] = binding[w]
    BY <1>3, <1>5, <2>1, Distinct
  <2>3. v \in (pool' \cap previous') \ strayed' => Pointed(v)'
    BY <1>4, <2>1, <2>2 DEF PointInv, Pointed
  <2> QED BY <1>4, <2>1, <2>2, <2>3, PointKept
<1>7. CASE p.type = "Unbind"
  <2>1. /\ binding' = [binding EXCEPT ![v] = None]
        /\ IF v \in shown \cap pool THEN StreamIn(v) ELSE UNCHANGED <<own, pointer>>
        /\ strayed' = IF v \in pool /\ binding[v] # None /\ pointer'[v] # "own"
                      THEN strayed \cup {v} ELSE strayed
    BY <1>7 DEF RunTask
  <2>2. binding'[v] = None /\ \A w \in Vehicles : w # v => binding'[w] = binding[w]
    BY <1>3, <1>5, <2>1
  <2>3. \A w \in Vehicles : w # v => own'[w] = own[w] /\ pointer'[w] = pointer[w]
    BY <1>3, <2>1, StreamPoint
  <2>4. v \in (pool' \cap previous') \ strayed' => Pointed(v)'
    <3>1. CASE binding[v] = None
      <4>1. v \notin shown BY <3>1 DEF BlockInv
      <4>2. UNCHANGED <<own, pointer>> /\ strayed' = strayed BY <2>1, <3>1, <4>1
      <4> QED BY <1>4, <2>2, <3>1, <4>2 DEF PointInv, Pointed
    <3>2. ASSUME binding[v] # None, v \in (pool' \cap previous') \ strayed'
          PROVE  Pointed(v)'
      <4>1. pointer'[v] = "own" BY <1>4, <2>1, <3>2
      <4>2. Backed(v)' BY <3>2 DEF BlockInv
      <4>3. own'[v] # None BY <4>1, <4>2 DEF Backed
      <4> QED BY <4>1, <4>3 DEF Pointed
    <3> QED BY <3>1, <3>2
  <2>5. strayed \ {v} \subseteq strayed' BY <2>1
  <2> QED BY <1>4, <2>2, <2>3, <2>4, <2>5, PointKept
<1>8. CASE p.type = "Door"
  <2>1. UNCHANGED <<own, pointer, binding, strayed>> BY <1>8 DEF RunTask
  <2> QED BY <1>4, <2>1, PointSame
<1> QED BY <1>3, <1>6, <1>7, <1>8

\* A frame finds a vehicle, or its custom model is shown.  The player has not been
\* in a vehicle that no frame has found.
LEMMA StreamedPoint ==
  ASSUME BlockInv, RideInv, PointInv, NEW v \in Vehicles, Process(v) \/ Arrive(v)
  PROVE  PointInv'
<1>1. /\ StreamIn(v) /\ strayed' = StrayedIn(v) /\ pool' = pool
      /\ UNCHANGED <<applied, model, binding>>
      /\ previous' \subseteq previous \cup {v}
  BY DEF Process, Arrive, StrayedIn, bindVars, worldVars
<1>2. strayed \ {v} \subseteq strayed' BY <1>1 DEF StrayedIn
<1>3. binding[v] # None \/ applied[v] = None
  BY HandlingAssumption DEF Process, Arrive, RideInv
<1>4. /\ own'[v] # None => pointer'[v] = "own"
      /\ own'[v] = None /\ binding[v] = None /\ model[Base] # None =>
            pointer'[v] = Base
      /\ \A w \in Vehicles : w # v => own'[w] = own[w] /\ pointer'[w] = pointer[w]
  BY <1>1, StreamPoint
<1>5. Pointed(v)' BY <1>1, <1>3, <1>4 DEF Pointed
<1> QED BY <1>1, <1>2, <1>4, <1>5, PointKept

LEMMA LeavePoint ==
  ASSUME BlockInv, PointInv, LeaveRide
  PROVE  PointInv'
<1> PICK v : v = lastRide OBVIOUS
<1>1. UNCHANGED <<pool, previous, own, model, binding>> BY DEF LeaveRide, bindVars
<1>2. CASE v \in pool /\ applied[v] # None
  <2>1. /\ applied' = [applied EXCEPT ![v] = None]
        /\ pointer' = [pointer EXCEPT ![v] = IF own[v] # None THEN "own"
                                             ELSE ModelOrStatic(Base)]
        /\ strayed' = IF Stray(v, pointer'[v], ModelOf(v))
                      THEN strayed \cup {v} ELSE strayed \ {v}
    BY <1>2 DEF LeaveRide
  <2>2. v \in Vehicles /\ DOMAIN applied = Vehicles /\ DOMAIN pointer = Vehicles
    BY <1>2 DEF BlockInv, Domains
  <2>3. /\ applied'[v] = None
        /\ pointer'[v] = IF own[v] # None THEN "own" ELSE ModelOrStatic(Base)
    BY <2>1, <2>2
  <2>4. Pointed(v)' BY <1>1, <2>3 DEF Pointed, ModelOrStatic
  <2>5. \A w \in Vehicles : w # v => applied'[w] = applied[w] /\ pointer'[w] = pointer[w]
    BY <2>1, <2>2
  <2>6. strayed \ {v} \subseteq strayed' BY <2>1
  <2> QED BY <1>1, <2>4, <2>5, <2>6, PointKept
<1>3. CASE ~(v \in pool /\ applied[v] # None)
  BY <1>1, <1>3, PointSame DEF LeaveRide
<1> QED BY <1>2, <1>3

LEMMA GamePoint ==
  ASSUME ChannelTypes, BlockInv, BlockInv', RideInv, PointInv, Game
  PROVE  PointInv'
<1>1. CASE EnterRide
  <2>1. ApplyPlayer(ride, player) /\ UNCHANGED <<pool, previous, own, model, binding>>
    BY <1>1 DEF EnterRide, bindVars
  <2> QED BY <2>1, ApplyPoint
<1>2. CASE Create
  BY <1>2, PointSame DEF Create, blocks, worldVars
<1>3. ASSUME NEW v \in Vehicles, Appear(v) PROVE PointInv'
  <2>1. /\ pool' = pool \cup {v} /\ strayed' = strayed \ {v} /\ v \notin previous
        /\ pointer' = [pointer EXCEPT ![v] = "static"]
        /\ UNCHANGED <<previous, own, model, applied, binding>>
    BY <1>3 DEF Appear, blocks, bindVars
  <2>2. \A w \in Vehicles : w # v => pointer'[w] = pointer[w]
    BY <2>1 DEF BlockInv, Domains
  <2> QED BY <2>1, <2>2, PointKept
<1>4. ASSUME NEW v \in Vehicles, Disappear(v) \/ Depart(v) PROVE PointInv'
  <2>1. /\ pool' \cap previous' \subseteq pool \cap previous
        /\ UNCHANGED <<own, pointer, applied, binding, model, strayed>>
    BY <1>4 DEF Disappear, Depart, blocks, bindVars
  <2> QED BY <2>1, PointSame
<1>5. ASSUME NEW v \in Vehicles \cup {None}, Ride(v) PROVE PointInv'
  BY <1>5, PointSame DEF Ride, blocks, bindVars
<1> QED BY <1>1, <1>2, <1>3, <1>4, <1>5, TaskPoint, StreamedPoint, LeavePoint
        DEF Game

LEMMA PointStep ==
  ASSUME ServerTypes, ChannelTypes, BlockInv, RideInv, PointInv, [Next]_vars
  PROVE  PointInv'
<1>1. BlockInv' BY BlockStep
<1>2. CASE Natives \/ UNCHANGED vars
  <2>1. UNCHANGED clientVars
    BY <1>2 DEF Natives, OnCreateVehicle, OnDestroyVehicle, SetVehicleHandling,
         ResetVehicleHandling, BroadcastVehicleCorrection, SetVehicleDoorMissing,
         BindVehicle, UnbindVehicle, OnVehicleStreamIn, StreamOut,
         SetModelHandling, ResetModelHandling, SetPlayerHandling,
         ResetPlayerHandling, ResetAll, ProcessTick, OnPlayerAuthorized, vars
  <2> QED BY <2>1, PointSame DEF clientVars, worldVars, blocks, bindVars
<1>3. CASE Rejoin
  <2>1. pool' = pool /\ strayed' = pool BY <1>3 DEF Rejoin, worldVars
  <2> QED BY <2>1 DEF PointInv
<1> QED BY <1>1, <1>2, <1>3, PacketPoint, GamePoint DEF Next

LEMMA InitPoint == Init => PointInv
BY DEF Init, PointInv

-----------------------------------------------------------------------------
(* Together, and at rest. *)

SyncInv ==
    /\ BlockInv /\ ServerTypes /\ ChannelTypes /\ ServerAgrees /\ RideInv /\ WaitInv
    /\ DoorInv /\ DoorShown /\ PlayerInv /\ OwnInv /\ ModelInv /\ PointInv

LEMMA InitSync == Init => SyncInv
BY InitBlocks, InitTypes, InitAgrees, InitPlayer, InitWaits, InitDoors, InitOwn,
   InitModel, InitPoint DEF SyncInv

LEMMA SyncStep ==
  ASSUME Orderly, SyncInv, [Next]_vars
  PROVE  SyncInv'
<1>1. /\ BlockInv /\ ServerTypes /\ ChannelTypes /\ ServerAgrees /\ RideInv /\ WaitInv
      /\ DoorInv /\ DoorShown /\ PlayerInv /\ OwnInv /\ ModelInv /\ PointInv
  BY DEF SyncInv
<1>2. BlockInv' /\ ServerTypes' /\ ChannelTypes' /\ ServerAgrees'
  BY <1>1, BlockStep, TypesStep, AgreesStep
<1>3. RideInv' /\ WaitInv' BY <1>1, RideStep, WaitStep
<1>4. DoorInv' /\ DoorShown' /\ PlayerInv'
  BY <1>1, DoorStep, ShownDoors, PlayerStep
<1>5. OwnInv' /\ ModelInv' /\ PointInv' BY <1>1, OwnStep, ModelStep, PointStep
<1> QED BY <1>2, <1>3, <1>4, <1>5 DEF SyncInv

\* Nothing is under way to a client at rest.
LEMMA NothingUnderWay ==
  ASSUME AtRest
  PROVE  \A A, G : ~Tells(toClient, A, G)
<1>1. Len(<<>>) = 0 /\ 1..0 = {} OBVIOUS
<1> QED BY <1>1 DEF AtRest, Tells

LEMMA OwnAtRest ==
  ASSUME ServerTypes, ServerAgrees, WaitInv, OwnInv, PointInv
  PROVE  OwnHandlingAgrees
<1> SUFFICES ASSUME AtRest, NEW v \in pool \ strayed
             PROVE  /\ vehicleHandlings[v].mods.mass # None =>
                          Driven(v) = GetVehicleHandling(v).mass
                    /\ vehicleHandlings[v].mods.plane # None =>
                          (v \in flyingByPtr \cup flying) = GetVehicleFlying(v)
  BY DEF OwnHandlingAgrees
<1> PICK mods : mods = vehicleHandlings[v].mods OBVIOUS
<1>1. v \in exists /\ v \in Vehicles /\ v \in previous BY DEF AtRest, ServerTypes
<1>2. OwnDue(v) BY <1>1 DEF AtRest, OwnDue
<1>3. OwnHas(v) BY <1>1, <1>2, NothingUnderWay DEF OwnInv, OwnOk
<1>4. pending[v].mass = None /\ pending[v].plane = None
  BY <1>1, NoneIsNot DEF WaitInv
<1>5. Pointed(v) BY <1>1 DEF PointInv
<1>6. ~vehicleHandlings[v].uses =>
          /\ GetVehicleHandling(v).mass = vehicleHandlings[v].mass
          /\ GetVehicleHandling(v).plane = vehicleHandlings[v].plane
  BY DEF GetVehicleHandling
<1>7. mods # NoMods => ~vehicleHandlings[v].uses BY <1>1 DEF ServerAgrees
<1>8. ASSUME mods.mass # None PROVE Driven(v) = GetVehicleHandling(v).mass
  <2>1. own[v] = mods.mass BY <1>3, <1>4, <1>8 DEF OwnHas, OrElse
  <2>2. pointer[v] = "own" BY <1>5, <1>8, <2>1 DEF Pointed
  <2>3. Driven(v) = mods.mass BY <1>8, <2>1, <2>2 DEF Driven, Dangling, Held
  <2>4. vehicleHandlings[v].mass = mods.mass BY <1>1, <1>8 DEF ServerAgrees
  <2> QED BY <1>6, <1>7, <1>8, <2>3, <2>4, NoneIsNot
<1>9. ASSUME mods.plane # None
      PROVE  (v \in flyingByPtr \cup flying) = GetVehicleFlying(v)
  <2>1. /\ v \in flying <=> mods.plane
        /\ v \in flyingByPtr => mods.plane
    BY <1>3, <1>4, <1>9 DEF OwnHas
  <2>2. vehicleHandlings[v].plane = mods.plane BY <1>1, <1>9 DEF ServerAgrees
  <2>3. GetVehicleFlying(v) = mods.plane
    BY <1>6, <1>7, <1>9, <2>2, NoneIsNot DEF GetVehicleFlying
  <2>4. mods.plane \in BOOLEAN
    <3>1. vehicleHandlings[v].plane \in BOOLEAN BY <1>1 DEF ServerTypes, ServerHandling
    <3> QED BY <2>2, <3>1
  <2>5. v \in flyingByPtr \cup flying <=> mods.plane BY <2>1
  <2> QED BY <2>3, <2>4, <2>5
<1> QED BY <1>8, <1>9

LEMMA ModelAtRest ==
  ASSUME BlockInv, ServerTypes, ServerAgrees, RideInv, OwnInv, ModelInv, PointInv
  PROVE  ModelHandlingAgrees
<1> SUFFICES ASSUME AtRest, NEW v \in pool \ strayed,
                    vehicleHandlings[v].uses, binding[v] = None
             PROVE  Driven(v) = OrElse(IF ride = v THEN applied[v] ELSE None,
                                       GetModelHandling(Base).mass)
  BY DEF ModelHandlingAgrees
<1> PICK mass : mass = modelHandlings[Base].mass OBVIOUS
<1>1. v \in exists /\ v \in Vehicles /\ v \in previous BY DEF AtRest, ServerTypes
<1>2. own[v] = None
  <2>1. OwnDue(v) BY <1>1 DEF AtRest, OwnDue
  <2>2. OwnHas(v) BY <1>1, <2>1, NothingUnderWay DEF OwnInv, OwnOk
  <2>3. vehicleHandlings[v].mods = NoMods BY <1>1 DEF ServerAgrees
  <2> QED BY <2>2, <2>3 DEF OwnHas
<1>3. ModelHas BY NothingUnderWay DEF AtRest, ModelInv
<1>4. Pointed(v) /\ Backed(v) BY <1>1 DEF PointInv, BlockInv
<1>5. GetModelHandling(Base).mass = OrElse(mass, Stock) BY DEF GetModelHandling
<1>6. CASE applied[v] # None
  <2>1. v = ride BY <1>1, <1>6 DEF RideInv, AtRest
  <2>2. pointer[v] = "applied" BY <1>2, <1>4, <1>6 DEF Pointed
  <2>3. Driven(v) = applied[v] BY <1>6, <2>2 DEF Driven, Dangling, Held
  <2> QED BY <1>6, <2>1, <2>3 DEF OrElse
<1>7. CASE applied[v] = None /\ model[Base] # None
  <2>1. pointer[v] = Base BY <1>2, <1>4, <1>7 DEF Pointed
  <2>2. Held(v) = model[Base] BY <2>1, Distinct DEF Held
  <2>3. Driven(v) = model[Base] BY <1>7, <2>2 DEF Driven, Dangling
  <2>4. model[Base] = OrElse(mass, Stock) BY <1>3, <1>7 DEF ModelHas, OrElse
  <2> QED BY <1>5, <1>7, <2>3, <2>4 DEF OrElse
<1>8. CASE applied[v] = None /\ model[Base] = None
  <2>1. mass = None BY <1>3, <1>8 DEF ModelHas
  <2>2. ModelOf(v) = Base BY DEF ModelOf
  <2>3. pointer[v] = "static"
    BY <1>1, <1>2, <1>4, <1>8, <2>2 DEF Backed, BlockInv, Domains
  <2>4. Driven(v) = Stock BY <2>3, Distinct DEF Driven, Dangling, Held
  <2> QED BY <1>5, <1>8, <2>1, <2>4 DEF OrElse
<1> QED BY <1>6, <1>7, <1>8

\* In whatever order a vehicle, its model and its driver are given handling and
\* lose it, doors go, vehicles come in sight and leave, players are authorized,
\* leave and join again: a client at rest, if it was not reset alone, drives
\* the vehicles in sight that have not strayed with the mass and the flying
\* state the server holds for them, knows the player's handling, and shows the
\* doors that are missing (HandlingManager's ProcessTick, OnPlayerAuthorized
\* and OnVehicleStreamIn, the client's OnVehicleStreamIn and packet handlers).
THEOREM ClientArrives ==
  ASSUME Orderly
  PROVE  Spec => []ClientAgrees
<1>1. SyncInv => ClientAgrees
  BY OwnAtRest, ModelAtRest, PlayerAtRest, DoorsAtRest DEF SyncInv, ClientAgrees
<1>2. SyncInv /\ [Next]_vars => SyncInv' BY SyncStep
<1> QED BY <1>1, <1>2, InitSync, PTL DEF Spec

-----------------------------------------------------------------------------
(* Lists: what a recursive function over a list has, step by step. *)

\* A set of natural numbers that is not empty has a least one.
LEMMA NatMin ==
  ASSUME NEW S, S \subseteq Nat, S # {}
  PROVE  \E n \in S : \A m \in S : n <= m
<1> DEFINE Less == {p \in Nat \X Nat : p[1] < p[2]}
<1>1. IsWellFoundedOn(Less, Nat)
  BY NatLessThanWellFounded, Zenon DEF OpToRel
<1>2. \A m, n \in Nat : m < n => <<m, n>> \in Less
  OBVIOUS
<1> HIDE DEF Less
<1>3. PICK n \in S : \A m \in S : ~ (<<m, n>> \in Less)
  BY <1>1, WFMin
<1>4. ASSUME NEW m \in S PROVE n <= m
  <2>1. m \in Nat /\ n \in Nat OBVIOUS
  <2>2. ~(m < n) BY <1>2, <1>3, <2>1
  <2> QED BY <2>1, <2>2
<1> QED BY <1>4

\* A set of lines has a last one.
LEMMA LastIs ==
  ASSUME NEW n \in Nat, NEW S, S \subseteq 1..n
  PROVE  /\ LastOf(S) \in 0..n
         /\ S = {} => LastOf(S) = 0
         /\ S # {} => LastOf(S) \in S /\ \A j \in S : j <= LastOf(S)
<1>1. CASE S = {} BY <1>1 DEF LastOf
<1>2. CASE S # {}
  <2> DEFINE R == {n - i : i \in S}
  <2> \A i \in S : i \in 1..n /\ n - i \in Nat OBVIOUS
  <2>1. R \subseteq Nat /\ R # {}
    <3>1. PICK i \in S : TRUE BY <1>2
    <3>2. n - i \in R OBVIOUS
    <3> QED BY <3>2
  <2> HIDE DEF R
  <2>2. PICK k \in R : \A m \in R : k <= m BY <2>1, NatMin
  <2>3. PICK i \in S : k = n - i BY DEF R
  <2>4. ASSUME NEW j \in S PROVE j <= i
    <3>1. n - j \in R BY DEF R
    <3>2. n - i <= n - j BY <2>2, <2>3, <3>1
    <3> QED BY <3>2
  <2>5. LastOf(S) = CHOOSE x \in S : \A j \in S : j <= x BY <1>2 DEF LastOf
  <2>6. LastOf(S) \in S /\ \A j \in S : j <= LastOf(S) BY <2>4, <2>5
  <2>7. LastOf(S) \in 1..n BY <2>6
  <2> QED BY <1>2, <2>6, <2>7
<1> QED BY <1>1, <1>2

\* A line that is read is the last of those it belongs to.
LEMMA LastGrown ==
  ASSUME NEW n \in Nat, NEW S, NEW T, S \subseteq 1..n, T \subseteq 1..(n + 1),
         \A i \in 1..n : i \in T <=> i \in S
  PROVE  /\ n + 1 \in T => LastOf(T) = n + 1
         /\ n + 1 \notin T => T = S
<1>1. ASSUME n + 1 \in T PROVE LastOf(T) = n + 1
  <2>1. n + 1 \in Nat OBVIOUS
  <2>2. LastOf(T) \in T /\ n + 1 <= LastOf(T) /\ LastOf(T) \in 0..(n + 1)
    BY <1>1, <2>1, LastIs
  <2> QED BY <2>2
<1>2. ASSUME n + 1 \notin T PROVE T = S
  <2>1. T \subseteq 1..n
    <3> SUFFICES ASSUME NEW i \in T PROVE i \in 1..n OBVIOUS
    <3>1. i \in 1..(n + 1) /\ i # n + 1 BY <1>2
    <3> QED BY <3>1
  <2> QED BY <2>1
<1> QED BY <1>1, <1>2

\* Those has the value that its recursion says.
LEMMA ThoseDef ==
  ASSUME NEW list, NEW S, Len(list) \in Nat
  PROVE  \E made :
           /\ made = [i \in 0..Len(list) |->
                         IF i = 0 THEN <<>> ELSE (IF list[i] \in S THEN Append(made[i - 1], list[i]) ELSE made[i - 1])]
           /\ Those(list, S) = made[Len(list)]
<1> DEFINE F(g, n) == [i \in 0..n |-> IF i = 0 THEN <<>>
                                      ELSE (IF list[i] \in S THEN Append(g[i - 1], list[i]) ELSE g[i - 1])]
<1> DEFINE Fails == {n \in Nat : n <= Len(list) /\ ~ \E g : g = F(g, n)}
<1> DEFINE G == CHOOSE g : g = F(g, Len(list))
<1>1. Fails = {}
  <2>1. SUFFICES ASSUME Fails # {} PROVE FALSE
    OBVIOUS
  <2>2. PICK n \in Fails : \A m \in Fails : n <= m
    <3>1. Fails \subseteq Nat OBVIOUS
    <3> HIDE DEF Fails
    <3> QED BY <2>1, <3>1, NatMin
  <2>3. n \in Nat /\ n <= Len(list) /\ ~ \E g : g = F(g, n) OBVIOUS
  <2>4. CASE n = 0
    <3> DEFINE g == [i \in 0..0 |-> <<>>]
    <3>1. g = F(g, 0) OBVIOUS
    <3> QED BY <2>3, <2>4, <3>1
  <2>5. CASE n # 0
    <3>1. n - 1 \in Nat /\ n - 1 <= Len(list) /\ ~(n <= n - 1)
      BY <2>3, <2>5
    <3>2. n - 1 \notin Fails
      <4> HIDE DEF Fails
      <4> QED BY <3>1, <2>2
    <3>3. PICK g : g = F(g, n - 1)
      BY <3>1, <3>2
    <3> DEFINE h == [i \in 0..n |-> IF i < n THEN g[i]
                                    ELSE (IF list[n] \in S THEN Append(g[n - 1], list[n]) ELSE g[n - 1])]
    <3>4. ASSUME NEW i \in 0..n PROVE h[i] = F(h, n)[i]
      <4>1. CASE i = 0 BY <4>1, <3>3, <3>1, <2>5
      <4>2. CASE i # 0 /\ i < n
        <5>1. i \in 0..(n - 1) /\ i - 1 \in 0..n /\ i - 1 < n BY <4>2, <3>1
        <5>2. g[i] = F(g, n - 1)[i] BY <3>3
        <5>3. h[i - 1] = g[i - 1] /\ h[i] = g[i] BY <5>1, <4>2
        <5> QED BY <5>1, <5>2, <5>3, <4>2
      <4>3. CASE i = n BY <4>3, <2>5, <3>1
      <4> QED BY <4>1, <4>2, <4>3
    <3>5. h = F(h, n) BY <3>4
    <3> QED BY <2>3, <3>5
  <2> QED BY <2>4, <2>5
<1>2. G = F(G, Len(list))
  <2>1. Len(list) \in Nat /\ Len(list) <= Len(list) OBVIOUS
  <2>2. \E g : g = F(g, Len(list)) BY <1>1, <2>1
  <2> QED BY <2>2
<1>3. Those(list, S) = G[Len(list)]
  BY DEF Those
<1> HIDE DEF G
<1> QED BY <1>2, <1>3

\* Merged has the value that its recursion says.
LEMMA MergedDef ==
  ASSUME NEW list, NEW more, Len(more) \in Nat
  PROVE  \E made :
           /\ made = [i \in 0..Len(more) |->
                         IF i = 0 THEN list ELSE Once(made[i - 1], more[i])]
           /\ Merged(list, more) = made[Len(more)]
<1> DEFINE F(g, n) == [i \in 0..n |-> IF i = 0 THEN list
                                      ELSE Once(g[i - 1], more[i])]
<1> DEFINE Fails == {n \in Nat : n <= Len(more) /\ ~ \E g : g = F(g, n)}
<1> DEFINE G == CHOOSE g : g = F(g, Len(more))
<1>1. Fails = {}
  <2>1. SUFFICES ASSUME Fails # {} PROVE FALSE
    OBVIOUS
  <2>2. PICK n \in Fails : \A m \in Fails : n <= m
    <3>1. Fails \subseteq Nat OBVIOUS
    <3> HIDE DEF Fails
    <3> QED BY <2>1, <3>1, NatMin
  <2>3. n \in Nat /\ n <= Len(more) /\ ~ \E g : g = F(g, n) OBVIOUS
  <2>4. CASE n = 0
    <3> DEFINE g == [i \in 0..0 |-> list]
    <3>1. g = F(g, 0) OBVIOUS
    <3> QED BY <2>3, <2>4, <3>1
  <2>5. CASE n # 0
    <3>1. n - 1 \in Nat /\ n - 1 <= Len(more) /\ ~(n <= n - 1)
      BY <2>3, <2>5
    <3>2. n - 1 \notin Fails
      <4> HIDE DEF Fails
      <4> QED BY <3>1, <2>2
    <3>3. PICK g : g = F(g, n - 1)
      BY <3>1, <3>2
    <3> DEFINE h == [i \in 0..n |-> IF i < n THEN g[i]
                                    ELSE Once(g[n - 1], more[n])]
    <3>4. ASSUME NEW i \in 0..n PROVE h[i] = F(h, n)[i]
      <4>1. CASE i = 0 BY <4>1, <3>3, <3>1, <2>5
      <4>2. CASE i # 0 /\ i < n
        <5>1. i \in 0..(n - 1) /\ i - 1 \in 0..n /\ i - 1 < n BY <4>2, <3>1
        <5>2. g[i] = F(g, n - 1)[i] BY <3>3
        <5>3. h[i - 1] = g[i - 1] /\ h[i] = g[i] BY <5>1, <4>2
        <5> QED BY <5>1, <5>2, <5>3, <4>2
      <4>3. CASE i = n BY <4>3, <2>5, <3>1
      <4> QED BY <4>1, <4>2, <4>3
    <3>5. h = F(h, n) BY <3>4
    <3> QED BY <2>3, <3>5
  <2> QED BY <2>4, <2>5
<1>2. G = F(G, Len(more))
  <2>1. Len(more) \in Nat /\ Len(more) <= Len(more) OBVIOUS
  <2>2. \E g : g = F(g, Len(more)) BY <1>1, <2>1
  <2> QED BY <2>2
<1>3. Merged(list, more) = G[Len(more)]
  BY DEF Merged
<1> HIDE DEF G
<1> QED BY <1>2, <1>3

\* The chosen elements of a list are a list, of its elements in S.
LEMMA ThoseAre ==
  ASSUME NEW X, NEW list \in Seq(X), NEW S
  PROVE  Those(list, S) \in Seq(X \cap S)
<1>1. PICK c : /\ c = [i \in 0..Len(list) |->
                         IF i = 0 THEN <<>>
                         ELSE (IF list[i] \in S THEN Append(c[i - 1], list[i])
                               ELSE c[i - 1])]
               /\ Those(list, S) = c[Len(list)]
  <2>1. Len(list) \in Nat OBVIOUS
  <2> QED BY <2>1, ThoseDef
<1> DEFINE Fails == {i \in 0..Len(list) : c[i] \notin Seq(X \cap S)}
<1>2. c[0] = <<>> /\ <<>> \in Seq(X \cap S) BY <1>1
<1>3. Fails = {}
  <2> SUFFICES ASSUME Fails # {} PROVE FALSE
    OBVIOUS
  <2>1. PICK n \in Fails : \A k \in Fails : n <= k
    <3>1. Fails \subseteq Nat OBVIOUS
    <3> HIDE DEF Fails
    <3> QED BY <3>1, NatMin
  <2>2. n \in 0..Len(list) /\ n # 0 /\ c[n] \notin Seq(X \cap S) BY <1>2
  <2>3. n - 1 \in 0..Len(list) /\ ~(n <= n - 1) BY <2>2
  <2>4. c[n - 1] \in Seq(X \cap S) BY <2>1, <2>3
  <2>5. c[n] = IF list[n] \in S THEN Append(c[n - 1], list[n]) ELSE c[n - 1]
    BY <1>1, <2>2
  <2>6. list[n] \in X BY <2>2
  <2> HIDE DEF Fails
  <2> QED BY <2>2, <2>4, <2>5, <2>6
<1>4. Len(list) \in 0..Len(list) BY <1>1
<1>5. c[Len(list)] \in Seq(X \cap S) BY <1>3, <1>4
<1> QED BY <1>1, <1>5

\* A list to which an element is added once.
LEMMA OnceIs ==
  ASSUME NEW X, NEW list \in Seq(X), IsInjective(list), NEW x \in X
  PROVE  /\ Once(list, x) \in Seq(X) /\ IsInjective(Once(list, x))
         /\ ToSet(Once(list, x)) = ToSet(list) \cup {x}
<1>1. CASE x \in ToSet(list) BY <1>1 DEF Once
<1>2. CASE x \notin ToSet(list)
  <2> DEFINE more == Append(list, x)
  <2>1. Once(list, x) = more BY <1>2 DEF Once
  <2>2. /\ more \in Seq(X) /\ Len(more) = Len(list) + 1 /\ Len(list) \in Nat
        /\ DOMAIN more = 1..(Len(list) + 1) /\ DOMAIN list = 1..Len(list)
        /\ \A i \in 1..Len(list) : more[i] = list[i]
        /\ more[Len(list) + 1] = x
    OBVIOUS
  <2> HIDE DEF more
  <2>3. \A i \in 1..Len(list) : list[i] # x BY <1>2, <2>2 DEF ToSet
  <2>4. \A i \in DOMAIN more : i = Len(list) + 1 \/ i \in 1..Len(list) BY <2>2
  <2>5. ASSUME NEW i \in DOMAIN more, NEW j \in DOMAIN more, more[i] = more[j]
        PROVE  i = j
    <3>1. CASE i = Len(list) + 1 BY <2>2, <2>3, <2>4, <2>5, <3>1
    <3>2. CASE j = Len(list) + 1 BY <2>2, <2>3, <2>4, <2>5, <3>2
    <3>3. CASE i \in 1..Len(list) /\ j \in 1..Len(list)
      <4>1. list[i] = list[j] BY <2>2, <2>5, <3>3
      <4> QED BY <2>2, <3>3, <4>1 DEF IsInjective
    <3> QED BY <2>4, <3>1, <3>2, <3>3
  <2>6. IsInjective(more) BY <2>5 DEF IsInjective
  <2>7. ToSet(more) = ToSet(list) \cup {x}
    <3>1. ASSUME NEW y \in ToSet(more) PROVE y \in ToSet(list) \cup {x}
      <4>1. PICK i \in DOMAIN more : y = more[i] BY DEF ToSet
      <4> QED BY <2>2, <2>4, <4>1 DEF ToSet
    <3>2. ASSUME NEW y \in ToSet(list) PROVE y \in ToSet(more)
      <4>1. PICK i \in DOMAIN list : y = list[i] BY DEF ToSet
      <4>2. i \in DOMAIN more /\ more[i] = y BY <2>2, <4>1
      <4> QED BY <4>2 DEF ToSet
    <3>3. x \in ToSet(more)
      <4>1. Len(list) + 1 \in DOMAIN more BY <2>2
      <4> QED BY <2>2, <4>1 DEF ToSet
    <3> QED BY <3>1, <3>2, <3>3
  <2> QED BY <2>1, <2>2, <2>6, <2>7
<1> QED BY <1>1, <1>2

\* Merged adds what the list has not, and nothing twice.
LEMMA MergedIs ==
  ASSUME NEW X, NEW list \in Seq(X), IsInjective(list), NEW more \in Seq(X)
  PROVE  /\ Merged(list, more) \in Seq(X) /\ IsInjective(Merged(list, more))
         /\ ToSet(Merged(list, more)) = ToSet(list) \cup ToSet(more)
<1>1. PICK c : /\ c = [i \in 0..Len(more) |->
                         IF i = 0 THEN list ELSE Once(c[i - 1], more[i])]
               /\ Merged(list, more) = c[Len(more)]
  <2>1. Len(more) \in Nat OBVIOUS
  <2> QED BY <2>1, MergedDef
<1> DEFINE Upto(i) == {more[j] : j \in 1..i}
<1> DEFINE Holds(i) == /\ c[i] \in Seq(X) /\ IsInjective(c[i])
                      /\ ToSet(c[i]) = ToSet(list) \cup Upto(i)
<1> DEFINE Fails == {i \in 0..Len(more) : ~Holds(i)}
<1>2. Holds(0)
  <2>1. c[0] = list BY <1>1
  <2>2. Upto(0) = {} OBVIOUS
  <2> QED BY <2>1, <2>2
<1>3. ASSUME NEW n \in 1..Len(more), Holds(n - 1) PROVE Holds(n)
  <2>1. c[n] = Once(c[n - 1], more[n]) BY <1>1
  <2>2. more[n] \in X OBVIOUS
  <2>3. Upto(n) = Upto(n - 1) \cup {more[n]}
    <3>1. 1..n = 1..(n - 1) \cup {n} OBVIOUS
    <3>2. Upto(n) = {more[j] : j \in 1..(n - 1) \cup {n}} BY <3>1
    <3> QED BY <3>2
  <2> HIDE DEF Upto
  <2>4. /\ c[n] \in Seq(X) /\ IsInjective(c[n])
        /\ ToSet(c[n]) = ToSet(c[n - 1]) \cup {more[n]}
    <3>1. c[n - 1] \in Seq(X) /\ IsInjective(c[n - 1]) BY <1>3
    <3> QED BY <2>1, <2>2, <3>1, OnceIs
  <2> QED BY <1>3, <2>3, <2>4
<1> HIDE DEF Holds
<1>4. Fails = {}
  <2> SUFFICES ASSUME Fails # {} PROVE FALSE
    OBVIOUS
  <2>1. PICK n \in Fails : \A k \in Fails : n <= k
    <3>1. Fails \subseteq Nat OBVIOUS
    <3> HIDE DEF Fails
    <3> QED BY <3>1, NatMin
  <2>2. n \in 0..Len(more) /\ n # 0 /\ ~Holds(n) BY <1>2
  <2>3. n \in 1..Len(more) /\ n - 1 \in 0..Len(more) /\ ~(n <= n - 1) BY <2>2
  <2>4. Holds(n - 1) BY <2>1, <2>3
  <2> QED BY <1>3, <2>2, <2>3, <2>4
<1>5. Holds(Len(more))
  <2>1. Len(more) \in 0..Len(more) OBVIOUS
  <2> QED BY <1>4, <2>1
<1>6. Upto(Len(more)) = ToSet(more) BY DEF ToSet
<1> QED BY <1>1, <1>5, <1>6 DEF Holds

-----------------------------------------------------------------------------
(* What is read of a file: the lines, and what was made of them. *)

ReadInv == read \in Seq(Lines) /\ section \in Section

\* What one more line does to the lines that are read.
LEMMA LinesGrow ==
  ASSUME ReadInv, NEW l \in Lines, Reading(l)
  PROVE  /\ Len(read) \in Nat /\ DOMAIN read = 1..Len(read)
         /\ DOMAIN read' = 1..(Len(read) + 1)
         /\ \A i \in 1..Len(read) : read'[i] = read[i]
         /\ read'[Len(read) + 1] = l /\ l.section = section
         /\ ReadInv'
  BY DEF ReadInv, Reading

\* So do the lines of a kind.
LEMMA SomeGrow ==
  ASSUME ReadInv, NEW l \in Lines, Reading(l), NEW S, NEW T,
         S \subseteq DOMAIN read, T \subseteq DOMAIN read',
         \A i \in 1..Len(read) : i \in T <=> i \in S
  PROVE  /\ LastOf(S) \in 0..Len(read)
         /\ S = {} => LastOf(S) = 0
         /\ S # {} => LastOf(S) \in S /\ LastOf(S) \in 1..Len(read)
         /\ Len(read) + 1 \in T => LastOf(T) = Len(read) + 1
         /\ Len(read) + 1 \notin T => T = S
<1>1. /\ Len(read) \in Nat /\ S \subseteq 1..Len(read)
      /\ T \subseteq 1..(Len(read) + 1)
  BY LinesGrow
<1> QED BY <1>1, LastIs, LastGrown

-----------------------------------------------------------------------------
(* The handling. *)

Handled == /\ DOMAIN handlingData = Attributes /\ DOMAIN handlingMods = Attributes
           /\ \A a \in Attributes : handlingMods[a] # Unread => handlingMods[a] \in HandlingKeys[a]
           /\ HandlingFollowsFile

\* The handling of a vehicle has all attributes.
LEMMA CopyHasAll ==
  ASSUME NEW v
  PROVE  DOMAIN CopyDefault(v) = Attributes
BY ConfigAssumption DEF CopyDefault

\* A line either replaces the handling or sets one attribute, if it is one of
\* these, and leaves it else.
HandledBy(l) ==
    /\ handlingData' = IF IsBase(l) THEN CopyDefault(l.val)
               ELSE IF Valid(l)
               THEN [handlingData EXCEPT ![l.key] = Written(l.key, l.val)] ELSE handlingData
    /\ handlingMods' = IF Valid(l) THEN [handlingMods EXCEPT ![l.key] = Written(l.key, l.val)]
               ELSE handlingMods

\* A line leaves the handling what the lines make of it.
LEMMA HandlingKept ==
  ASSUME ReadInv, Handled, NEW l \in Lines, Reading(l), HandledBy(l)
  PROVE  Handled'
<1> DEFINE n == Len(read)
<1> DEFINE base == LastOf(BasesRead)
<1>1. /\ n \in Nat /\ DOMAIN read = 1..n /\ DOMAIN read' = 1..(n + 1)
      /\ \A i \in 1..n : read'[i] = read[i]
      /\ read'[n + 1] = l
  BY LinesGrow
<1>2. ~(IsBase(l) /\ Valid(l)) BY DEF IsBase, Valid
<1>3. DOMAIN handlingData' = Attributes /\ DOMAIN handlingMods' = Attributes
  BY CopyHasAll DEF Handled, HandledBy
<1>4. ASSUME NEW a \in Attributes, handlingMods'[a] # Unread PROVE handlingMods'[a] \in HandlingKeys[a]
  <2>1. CASE Valid(l) /\ l.key = a
    <3>1. handlingMods'[a] = Written(a, l.val) BY <2>1 DEF HandledBy, Handled
    <3> QED BY <2>1, <3>1 DEF Valid, IsValidHandlingValue
  <2>2. CASE ~(Valid(l) /\ l.key = a)
    <3>1. handlingMods'[a] = handlingMods[a] BY <2>2 DEF HandledBy, Handled
    <3> QED BY <1>4, <3>1 DEF Handled
  <2> QED BY <2>1, <2>2
<1>5. /\ base \in 0..n /\ (base # 0 => base \in 1..n)
      /\ IsBase(l) => LastOf(BasesRead') = n + 1
      /\ ~IsBase(l) => LastOf(BasesRead') = base
  <2>1. /\ BasesRead \subseteq DOMAIN read /\ BasesRead' \subseteq DOMAIN read'
        /\ \A i \in 1..n : i \in BasesRead' <=> i \in BasesRead
        /\ n + 1 \in BasesRead' <=> IsBase(l)
    BY <1>1 DEF BasesRead
  <2>2. n + 1 \in BasesRead' \/ BasesRead' = BasesRead BY <2>1, SomeGrow
  <2> QED BY <2>1, <2>2, SomeGrow
<1>6. ASSUME NEW a \in Attributes
      PROVE  LET set == LastOf(Settings(a)') IN
             /\ handlingMods'[a] = IF set = 0 THEN Unread ELSE Written(a, read'[set].val)
             /\ handlingData'[a] = IF set > LastOf(BasesRead') THEN Written(a, read'[set].val)
                           ELSE CopyDefault(IF LastOf(BasesRead') = 0 THEN FallbackBase
                                            ELSE read'[LastOf(BasesRead')].val)[a]
  <2> DEFINE set == LastOf(Settings(a))
  <2> DEFINE set2 == LastOf(Settings(a)')
  <2> DEFINE base2 == LastOf(BasesRead')
  <2>1. /\ Settings(a) \subseteq DOMAIN read /\ Settings(a)' \subseteq DOMAIN read'
        /\ \A i \in 1..n : i \in Settings(a)' <=> i \in Settings(a)
        /\ n + 1 \in Settings(a)' <=> (Valid(l) /\ l.key = a)
    BY <1>1 DEF Settings
  <2>2. /\ set \in 0..n /\ (set # 0 => set \in 1..n)
        /\ Valid(l) /\ l.key = a => set2 = n + 1
        /\ ~(Valid(l) /\ l.key = a) => set2 = set
    <3>1. n + 1 \in Settings(a)' \/ Settings(a)' = Settings(a) BY <2>1, SomeGrow
    <3> QED BY <2>1, <3>1, SomeGrow
  <2>3. /\ handlingMods[a] = IF set = 0 THEN Unread ELSE Written(a, read[set].val)
        /\ handlingData[a] = IF set > base THEN Written(a, read[set].val)
                     ELSE CopyDefault(IF base = 0 THEN FallbackBase
                                      ELSE read[base].val)[a]
    BY DEF Handled, HandlingFollowsFile
  <2> HIDE DEF set, set2, base, base2
  <2>4. CASE IsBase(l)
    <3>1. ~Valid(l) /\ set2 = set /\ base2 = n + 1 BY <1>2, <1>5, <2>2, <2>4 DEF base2
    <3>2. handlingMods'[a] = handlingMods[a] /\ handlingData'[a] = CopyDefault(l.val)[a]
      BY <2>4, <3>1 DEF HandledBy
    <3>3. ~(set2 > base2) /\ base2 # 0 /\ read'[base2] = l BY <1>1, <2>2, <3>1
    <3>4. set # 0 => read'[set] = read[set] BY <1>1, <2>2
    <3> QED BY <2>3, <3>1, <3>2, <3>3, <3>4 DEF base2, set2
  <2>5. CASE Valid(l) /\ l.key = a
    <3>1. set2 = n + 1 /\ base2 = base BY <1>2, <1>5, <2>2, <2>5 DEF base2
    <3>2. handlingMods'[a] = Written(a, l.val) /\ handlingData'[a] = Written(a, l.val)
      BY <1>2, <2>5 DEF HandledBy, Handled
    <3>3. set2 > base2 /\ set2 # 0 /\ read'[set2] = l BY <1>1, <1>5, <3>1
    <3> QED BY <3>2, <3>3 DEF base2, set2
  <2>6. CASE ~IsBase(l) /\ ~(Valid(l) /\ l.key = a)
    <3>1. set2 = set /\ base2 = base BY <1>5, <2>2, <2>6 DEF base2
    <3>2. handlingMods'[a] = handlingMods[a] /\ handlingData'[a] = handlingData[a]
      BY <2>6 DEF HandledBy, Handled
    <3>3. set # 0 => read'[set] = read[set] BY <1>1, <2>2
    <3>4. set > base => set # 0 BY <1>1, <1>5, <2>2
    <3>5. base # 0 => read'[base] = read[base] BY <1>1, <1>5
    <3> QED BY <2>3, <3>1, <3>2, <3>3, <3>4, <3>5 DEF base2, set2
  <2> QED BY <2>4, <2>5, <2>6 DEF base2, set2
<1>7. HandlingFollowsFile' BY <1>6 DEF HandlingFollowsFile
<1> QED BY <1>3, <1>4, <1>7 DEF Handled

-----------------------------------------------------------------------------
(* The plates. *)

MeshFields == {"enabled", "x", "y", "z", "rotX", "rotY", "rotZ", "scale"}
Meshed == /\ DOMAIN mesh = Sides /\ \A s \in Sides : DOMAIN mesh[s] = MeshFields
          /\ \A s \in Sides : s \in explicit <=> Switches(s) # {}
          /\ "rotZ" \in explicit <=> Turns # {}
          /\ explicit \subseteq Sides \cup {"rotZ"}
          /\ PlatesFollowFile

\* A line of a plate changes that plate, any other none.
MeshedBy(l) ==
    /\ mesh' = IF l.section = "plate" /\ l.side \in Sides
               THEN [mesh EXCEPT ![l.side] = MeshAfter(@, l.side, l.key, l.val)]
               ELSE mesh
    /\ explicit' = IF l.section = "plate" /\ l.side \in Sides
                   THEN explicit \cup SaidBy(l.side, l.key, l.val) ELSE explicit

\* The lines of a kind after one more line.
LEMMA MeshLinesGrow ==
  ASSUME ReadInv, NEW l \in Lines, Reading(l), NEW s \in Sides
  PROVE  LET n == Len(read) IN
         /\ Switches(s)' = IF OfMesh(l, s) /\ (l.key = "enabled" \/ Whole(l))
                           THEN Switches(s) \cup {n + 1} ELSE Switches(s)
         /\ Positions(s)' = IF OfMesh(l, s) /\ l.key \in Axis
                            THEN Positions(s) \cup {n + 1} ELSE Positions(s)
         /\ Turns' = IF OfMesh(l, "rear") /\ (l.key = "rotZ" \/ Whole(l))
                     THEN Turns \cup {n + 1} ELSE Turns
         /\ n \in Nat
         /\ Switches(s) \subseteq 1..n /\ Turns \subseteq 1..n
         /\ \A i \in 1..n : read'[i] = read[i]
         /\ read'[n + 1] = l
<1> DEFINE n == Len(read)
<1>1. /\ n \in Nat /\ DOMAIN read = 1..n /\ DOMAIN read' = 1..(n + 1)
      /\ \A i \in 1..n : read'[i] = read[i]
      /\ read'[n + 1] = l
  BY LinesGrow
<1>2. 1..(n + 1) = 1..n \cup {n + 1} /\ n + 1 \notin 1..n BY <1>1
<1> HIDE DEF n
<1>3. Switches(s)' = IF OfMesh(l, s) /\ (l.key = "enabled" \/ Whole(l))
                     THEN Switches(s) \cup {n + 1} ELSE Switches(s)
  BY <1>1, <1>2 DEF Switches
<1>4. Positions(s)' = IF OfMesh(l, s) /\ l.key \in Axis
                      THEN Positions(s) \cup {n + 1} ELSE Positions(s)
  BY <1>1, <1>2 DEF Positions
<1>5. Turns' = IF OfMesh(l, "rear") /\ (l.key = "rotZ" \/ Whole(l))
               THEN Turns \cup {n + 1} ELSE Turns
  BY <1>1, <1>2 DEF Turns
<1>6. Switches(s) \subseteq 1..n /\ Turns \subseteq 1..n BY <1>1 DEF Switches, Turns
<1> QED BY <1>1, <1>3, <1>4, <1>5, <1>6 DEF n

\* The last of them is the new line, or the one it was.
LEMMA LastOfOneMore ==
  ASSUME NEW n \in Nat, NEW S, S \subseteq 1..n
  PROVE  /\ LastOf(S \cup {n + 1}) = n + 1
         /\ S # {} => LastOf(S) \in 1..n
<1>1. /\ S \cup {n + 1} \subseteq 1..(n + 1) /\ n + 1 \in S \cup {n + 1}
      /\ \A i \in 1..n : i \in S \cup {n + 1} <=> i \in S
  OBVIOUS
<1>2. LastOf(S \cup {n + 1}) = n + 1 BY <1>1, LastGrown
<1> QED BY <1>2, LastIs

\* A mesh keeps its fields; what a line does to its switch and its rotation.
LEMMA MeshAfterIs ==
  ASSUME NEW l \in Lines, l.section = "plate", l.side \in Sides,
         NEW m, DOMAIN m = MeshFields
  PROVE  LET s  == l.side
             m2 == MeshAfter(m, s, l.key, l.val)
         IN
         /\ DOMAIN m2 = MeshFields
         /\ m2.enabled = IF Whole(l) THEN 1
                         ELSE IF l.key = "enabled" THEN IF l.val = 1 THEN 1 ELSE 0
                         ELSE IF l.key \in Axis /\ s \notin explicit THEN 1
                         ELSE m.enabled
         /\ m2.rotZ = IF Whole(l)
                      THEN IF Len(l.val) >= 6 THEN Num(l.val[6])
                           ELSE IF s = "rear" THEN 180 ELSE m.rotZ
                      ELSE IF l.key = "rotZ" THEN Num(l.val)
                      ELSE IF /\ l.key \in Axis /\ s = "rear"
                              /\ "rotZ" \notin explicit /\ m.rotZ = 0
                      THEN 180 ELSE m.rotZ
<1> DEFINE s == l.side
<1> DEFINE m2 == MeshAfter(m, s, l.key, l.val)
<1>1. CASE l.key = "list"
  <2>1. l.val \in Seq(Int \cup {Bad}) BY <1>1, ConfigAssumption
  <2>2. Len(l.val) \in Nat /\ (6 \in DOMAIN l.val <=> Len(l.val) >= 6) BY <2>1
  <2>3. m2 = IF Len(l.val) >= 3 THEN MeshOf(m, s, l.val) ELSE m
    BY <1>1 DEF MeshAfter, Axis
  <2>4. DOMAIN m2 = MeshFields BY <2>3 DEF MeshOf, MeshFields
  <2>5. m2.enabled = IF Whole(l) THEN 1 ELSE m.enabled
    BY <1>1, <2>3 DEF MeshOf, Whole
  <2>6. Whole(l) => m2.rotZ = IF 6 \in DOMAIN l.val THEN Num(l.val[6])
                              ELSE IF s = "rear" THEN 180 ELSE m.rotZ
    BY <1>1, <2>3 DEF MeshOf, Whole
  <2>7. ~Whole(l) => m2.rotZ = m.rotZ BY <1>1, <2>3 DEF Whole
  <2>8. l.key \notin Axis /\ l.key # "rotZ" /\ l.key # "enabled" BY <1>1 DEF Axis
  <2> HIDE DEF m2
  <2> QED BY <2>2, <2>4, <2>5, <2>6, <2>7, <2>8 DEF m2
<1>2. CASE l.key = "enabled"
  <2>1. m2 = [m EXCEPT !.enabled = IF l.val = 1 THEN 1 ELSE 0]
    BY <1>2 DEF MeshAfter, Axis
  <2> QED BY <1>2, <2>1 DEF MeshFields, Whole, Axis
<1>3. CASE l.key \in Axis
  <2>1. m2 = [Turned(Switched(m, s), s) EXCEPT ![l.key] = Num(l.val)]
    BY <1>3 DEF MeshAfter, Axis
  <2> DEFINE m1 == Switched(m, s)
  <2> DEFINE mt == Turned(m1, s)
  <2>2. /\ DOMAIN m1 = MeshFields /\ m1.rotZ = m.rotZ
        /\ m1.enabled = IF s \notin explicit THEN 1 ELSE m.enabled
    BY DEF Switched, MeshFields
  <2> HIDE DEF m1
  <2>3. /\ DOMAIN mt = MeshFields /\ mt.enabled = m1.enabled
        /\ mt.rotZ = IF s = "rear" /\ "rotZ" \notin explicit /\ m1.rotZ = 0
                     THEN 180 ELSE m1.rotZ
    BY <2>2 DEF Turned, MeshFields
  <2>4. m2 = [mt EXCEPT ![l.key] = Num(l.val)] BY <2>1 DEF m1
  <2> HIDE DEF mt, m2
  <2>5. l.key # "rotZ" /\ l.key # "enabled" /\ ~Whole(l) BY <1>3 DEF Axis, Whole
  <2>6. DOMAIN m2 = MeshFields /\ m2.enabled = mt.enabled /\ m2.rotZ = mt.rotZ
    BY <2>3, <2>4, <2>5 DEF MeshFields
  <2> QED BY <1>3, <2>2, <2>3, <2>5, <2>6 DEF m2
<1>4. CASE l.key \notin Axis \cup {"list", "enabled"}
  <2>1. m2 = [m EXCEPT ![l.key] = Num(l.val)] BY <1>4 DEF MeshAfter
  <2>2. ~Whole(l) BY <1>4 DEF Whole
  <2>3. DOMAIN m2 = MeshFields /\ m2.enabled = m.enabled
    BY <1>4, <2>1 DEF MeshFields
  <2>4. m2.rotZ = IF l.key = "rotZ" THEN Num(l.val) ELSE m.rotZ
    BY <2>1 DEF MeshFields
  <2> HIDE DEF m2
  <2> QED BY <1>4, <2>2, <2>3, <2>4 DEF m2
<1> QED BY <1>1, <1>2, <1>3, <1>4

\* The lines that make a plate's switch or the rear one's turn explicit are
\* those that the file has of them.
LEMMA SaidIs ==
  ASSUME NEW l \in Lines, l.section = "plate", l.side \in Sides
  PROVE  LET said == SaidBy(l.side, l.key, l.val) IN
         /\ said \subseteq {l.side, "rotZ"}
         /\ l.side \in said <=> l.key = "enabled" \/ Whole(l)
         /\ "rotZ" \in said <=> /\ OfMesh(l, "rear")
                                /\ l.key = "rotZ" \/ Whole(l)
<1>1. "rotZ" \notin Sides /\ l.side # "rotZ" BY DEF Sides
<1>2. CASE l.key = "list" /\ Len(l.val) >= 3
  <2>1. SaidBy(l.side, l.key, l.val) =
            {l.side} \cup (IF l.side = "rear" THEN {"rotZ"} ELSE {})
    BY <1>2 DEF SaidBy
  <2> QED BY <1>1, <1>2, <2>1 DEF Whole, OfMesh
<1>3. CASE l.key = "enabled"
  <2>1. SaidBy(l.side, l.key, l.val) = {l.side} BY <1>3 DEF SaidBy
  <2> QED BY <1>1, <1>3, <2>1 DEF Whole, OfMesh
<1>4. CASE l.side = "rear" /\ l.key = "rotZ"
  <2>1. SaidBy(l.side, l.key, l.val) = {"rotZ"} BY <1>4 DEF SaidBy
  <2> QED BY <1>1, <1>4, <2>1 DEF Whole, OfMesh
<1>5. CASE /\ ~(l.key = "list" /\ Len(l.val) >= 3) /\ l.key # "enabled"
           /\ ~(l.side = "rear" /\ l.key = "rotZ")
  <2>1. SaidBy(l.side, l.key, l.val) = {} BY <1>5 DEF SaidBy
  <2> QED BY <1>1, <1>5, <2>1 DEF Whole, OfMesh
<1> QED BY <1>2, <1>3, <1>4, <1>5

\* So do the plates, after a line of a plate or of another section.
LEMMA MeshKept ==
  ASSUME ReadInv, Meshed, NEW l \in Lines, Reading(l), MeshedBy(l)
  PROVE  Meshed'
<1> DEFINE n == Len(read)
<1>1. "rear" \in Sides /\ "rotZ" \notin Sides BY DEF Sides
<1>2. ASSUME NEW s \in Sides, ~OfMesh(l, s)
      PROVE  mesh'[s] = mesh[s] /\ (s \in explicit' <=> s \in explicit)
  <2>1. mesh'[s] = mesh[s] BY <1>2 DEF MeshedBy, Meshed, OfMesh
  <2>2. CASE l.section = "plate" /\ l.side \in Sides
    <3>1. s # l.side /\ s # "rotZ" BY <1>1, <1>2, <2>2 DEF OfMesh
    <3>2. SaidBy(l.side, l.key, l.val) \subseteq {l.side, "rotZ"} BY <2>2, SaidIs
    <3> QED BY <2>1, <2>2, <3>1, <3>2 DEF MeshedBy
  <2>3. CASE ~(l.section = "plate" /\ l.side \in Sides)
    BY <2>1, <2>3 DEF MeshedBy
  <2> QED BY <2>2, <2>3
<1>3. ASSUME NEW s \in Sides, OfMesh(l, s)
      PROVE  /\ mesh'[s] = MeshAfter(mesh[s], s, l.key, l.val)
             /\ s \in explicit' <=> s \in explicit \/ l.key = "enabled" \/ Whole(l)
  <2>1. l.section = "plate" /\ l.side \in Sides /\ l.side = s BY <1>3 DEF OfMesh
  <2>2. mesh'[s] = MeshAfter(mesh[s], s, l.key, l.val) BY <2>1 DEF MeshedBy, Meshed
  <2>3. explicit' = explicit \cup SaidBy(l.side, l.key, l.val) BY <2>1 DEF MeshedBy
  <2> QED BY <2>1, <2>2, <2>3, SaidIs
<1>4. "rotZ" \in explicit' <=> \/ "rotZ" \in explicit
                               \/ OfMesh(l, "rear") /\ (l.key = "rotZ" \/ Whole(l))
  <2>1. CASE l.section = "plate" /\ l.side \in Sides
    BY <2>1, SaidIs DEF MeshedBy
  <2>2. CASE ~(l.section = "plate" /\ l.side \in Sides)
    BY <1>1, <2>2 DEF MeshedBy, OfMesh
  <2> QED BY <2>1, <2>2
<1>5. explicit' \subseteq Sides \cup {"rotZ"}
  <2>1. CASE l.section = "plate" /\ l.side \in Sides
    <3>1. SaidBy(l.side, l.key, l.val) \subseteq {l.side, "rotZ"} BY <2>1, SaidIs
    <3> QED BY <2>1, <3>1 DEF MeshedBy, Meshed
  <2>2. CASE ~(l.section = "plate" /\ l.side \in Sides)
    BY <2>2 DEF MeshedBy, Meshed
  <2> QED BY <2>1, <2>2
<1>6. DOMAIN mesh' = Sides BY DEF MeshedBy, Meshed
<1>7. ASSUME NEW s \in Sides
      PROVE  /\ DOMAIN mesh'[s] = MeshFields
             /\ s \in explicit' <=> Switches(s)' # {}
             /\ LET last == read'[LastOf(Switches(s)')] IN
                mesh'[s].enabled =
                   IF IF Switches(s)' # {} THEN Whole(last) \/ last.val = 1
                      ELSE Positions(s)' # {}
                   THEN 1 ELSE 0
  <2>1. /\ s \in explicit <=> Switches(s) # {}
        /\ DOMAIN mesh[s] = MeshFields
        /\ LET last == read[LastOf(Switches(s))] IN
           mesh[s].enabled = IF IF Switches(s) # {} THEN Whole(last) \/ last.val = 1
                                ELSE Positions(s) # {}
                             THEN 1 ELSE 0
    BY DEF Meshed, PlatesFollowFile, PlateSwitchWins
  <2> DEFINE sw == OfMesh(l, s) /\ (l.key = "enabled" \/ Whole(l))
  <2>2. /\ Switches(s)' = IF sw THEN Switches(s) \cup {n + 1} ELSE Switches(s)
        /\ Positions(s)' = IF OfMesh(l, s) /\ l.key \in Axis
                           THEN Positions(s) \cup {n + 1} ELSE Positions(s)
        /\ n \in Nat /\ Switches(s) \subseteq 1..n
        /\ \A i \in 1..n : read'[i] = read[i]
        /\ read'[n + 1] = l
    BY MeshLinesGrow
  <2>3. /\ LastOf(Switches(s) \cup {n + 1}) = n + 1
        /\ Switches(s) # {} => LastOf(Switches(s)) \in 1..n
    BY <2>2, LastOfOneMore
  <2>4. Switches(s) # {} => read'[LastOf(Switches(s))] = read[LastOf(Switches(s))]
    BY <2>2, <2>3
  <2> HIDE DEF n
  <2>5. CASE ~OfMesh(l, s)
    <3>1. Switches(s)' = Switches(s) /\ Positions(s)' = Positions(s) BY <2>2, <2>5
    <3>2. mesh'[s] = mesh[s] /\ (s \in explicit' <=> s \in explicit) BY <1>2, <2>5
    <3> QED BY <2>1, <2>4, <3>1, <3>2
  <2>6. CASE OfMesh(l, s)
    <3>1. /\ mesh'[s] = MeshAfter(mesh[s], s, l.key, l.val)
          /\ s \in explicit' <=> s \in explicit \/ l.key = "enabled" \/ Whole(l)
      BY <1>3, <2>6
    <3>2. l.section = "plate" /\ l.side = s BY <2>6 DEF OfMesh
    <3>3. /\ DOMAIN mesh'[s] = MeshFields
          /\ mesh'[s].enabled =
                IF Whole(l) THEN 1
                ELSE IF l.key = "enabled" THEN IF l.val = 1 THEN 1 ELSE 0
                ELSE IF l.key \in Axis /\ s \notin explicit THEN 1
                ELSE mesh[s].enabled
      BY <2>1, <3>1, <3>2, MeshAfterIs
    <3>4. CASE sw
      <4>1. /\ Switches(s)' # {} /\ read'[LastOf(Switches(s)')] = l
            /\ s \in explicit'
        BY <2>2, <2>3, <3>1, <3>4
      <4> QED BY <3>3, <3>4, <4>1
    <3>5. CASE ~sw
      <4>1. Switches(s)' = Switches(s) BY <2>2, <3>5
      <4>2. l.key # "enabled" /\ ~Whole(l) BY <2>6, <3>5
      <4>3. (s \in explicit' <=> Switches(s)' # {}) BY <2>1, <3>1, <4>1, <4>2
      <4>4. CASE Switches(s) # {}
        BY <2>1, <2>4, <3>3, <4>1, <4>2, <4>3, <4>4
      <4>5. CASE Switches(s) = {}
        <5>1. mesh'[s].enabled = IF l.key \in Axis THEN 1 ELSE mesh[s].enabled
          BY <2>1, <3>3, <4>2, <4>5
        <5>2. Positions(s)' # {} <=> Positions(s) # {} \/ l.key \in Axis
          BY <2>2, <2>6
        <5> QED BY <2>1, <3>3, <4>1, <4>3, <4>5, <5>1, <5>2
      <4> QED BY <4>4, <4>5
    <3> QED BY <3>4, <3>5
  <2> QED BY <2>5, <2>6
<1>8. /\ "rotZ" \in explicit' <=> Turns' # {}
      /\ RearFacesBack'
  <2>1. /\ "rotZ" \in explicit <=> Turns # {}
        /\ DOMAIN mesh["rear"] = MeshFields
        /\ LET last == read[LastOf(Turns)] IN
           mesh["rear"].rotZ =
              IF Turns = {} THEN IF Positions("rear") # {} THEN 180 ELSE 0
              ELSE IF last.key = "rotZ" THEN Num(last.val)
              ELSE IF Len(last.val) >= 6 THEN Num(last.val[6]) ELSE 180
    BY <1>1 DEF Meshed, PlatesFollowFile, RearFacesBack
  <2> DEFINE tu == OfMesh(l, "rear") /\ (l.key = "rotZ" \/ Whole(l))
  <2>2. /\ Turns' = IF tu THEN Turns \cup {n + 1} ELSE Turns
        /\ Positions("rear")' = IF OfMesh(l, "rear") /\ l.key \in Axis
                                THEN Positions("rear") \cup {n + 1}
                                ELSE Positions("rear")
        /\ n \in Nat /\ Turns \subseteq 1..n
        /\ \A i \in 1..n : read'[i] = read[i]
        /\ read'[n + 1] = l
    BY <1>1, MeshLinesGrow
  <2>3. /\ LastOf(Turns \cup {n + 1}) = n + 1
        /\ Turns # {} => LastOf(Turns) \in 1..n
    BY <2>2, LastOfOneMore
  <2>4. Turns # {} => read'[LastOf(Turns)] = read[LastOf(Turns)]
    BY <2>2, <2>3
  <2> HIDE DEF n
  <2>5. "rotZ" \in explicit' <=> Turns' # {} BY <1>4, <2>1, <2>2
  <2>6. CASE ~OfMesh(l, "rear")
    <3>1. Turns' = Turns /\ Positions("rear")' = Positions("rear") BY <2>2, <2>6
    <3>2. mesh'["rear"] = mesh["rear"] BY <1>1, <1>2, <2>6
    <3> QED BY <2>1, <2>4, <2>5, <3>1, <3>2 DEF RearFacesBack
  <2>7. CASE OfMesh(l, "rear")
    <3>1. mesh'["rear"] = MeshAfter(mesh["rear"], "rear", l.key, l.val)
      BY <1>1, <1>3, <2>7
    <3>2. l.section = "plate" /\ l.side = "rear" BY <2>7 DEF OfMesh
    <3>3. mesh'["rear"].rotZ =
             IF Whole(l) THEN IF Len(l.val) >= 6 THEN Num(l.val[6]) ELSE 180
             ELSE IF l.key = "rotZ" THEN Num(l.val)
             ELSE IF l.key \in Axis /\ "rotZ" \notin explicit /\ mesh["rear"].rotZ = 0
             THEN 180 ELSE mesh["rear"].rotZ
      BY <1>1, <2>1, <3>1, <3>2, MeshAfterIs
    <3>4. CASE tu
      <4>1. Turns' # {} /\ read'[LastOf(Turns')] = l BY <2>2, <2>3, <3>4
      <4>2. Whole(l) => l.key # "rotZ" BY DEF Whole
      <4> QED BY <2>5, <3>3, <3>4, <4>1, <4>2 DEF RearFacesBack
    <3>5. CASE ~tu
      <4>1. Turns' = Turns /\ l.key # "rotZ" /\ ~Whole(l) BY <2>2, <2>7, <3>5
      <4>2. CASE Turns # {}
        <5>1. mesh'["rear"].rotZ = mesh["rear"].rotZ BY <2>1, <3>3, <4>1, <4>2
        <5> QED BY <2>1, <2>4, <2>5, <4>1, <4>2, <5>1 DEF RearFacesBack
      <4>3. CASE Turns = {}
        <5>1. mesh'["rear"].rotZ = IF l.key \in Axis /\ mesh["rear"].rotZ = 0
                                   THEN 180 ELSE mesh["rear"].rotZ
          BY <2>1, <3>3, <4>1, <4>3
        <5>2. Positions("rear")' # {} <=> Positions("rear") # {} \/ l.key \in Axis
          BY <2>2, <2>7
        <5> QED BY <2>1, <2>5, <4>1, <4>3, <5>1, <5>2 DEF RearFacesBack
      <4> QED BY <4>2, <4>3
    <3> QED BY <3>4, <3>5
  <2> QED BY <2>6, <2>7
<1>9. PlateSwitchWins' BY <1>7 DEF PlateSwitchWins
<1> QED BY <1>5, <1>6, <1>7, <1>8, <1>9 DEF Meshed, PlatesFollowFile

-----------------------------------------------------------------------------
(* The parts and the colours. *)

PartIds == {PartId[p] : p \in DOMAIN PartId}
Variations == [1..4 -> Colour]
Listed == /\ modNames \in Seq(DOMAIN PartId) /\ IsInjective(modNames)
          /\ modIds \in Seq(PartIds) /\ IsInjective(modIds)
          /\ ToSet(modIds) = {PartId[p] : p \in ToSet(modNames)}
          /\ "carmods" \notin has => modNames = <<>>
          /\ \A k \in DOMAIN categorizedMods :
                ToSet(categorizedMods[k]) \subseteq ToSet(modNames)
          /\ colorVariations \in Seq(Variations) /\ IsInjective(colorVariations)

\* A line of [carmods] adds its parts, one of [carcols] its variations.
ListedBy(l) ==
    /\ IF l.section = "carmods"
       THEN /\ modNames' = Merged(modNames, ValidParts(l))
            /\ modIds' = Ids(l)
            /\ categorizedMods' = IF ValidParts(l) = <<>> THEN categorizedMods
                                  ELSE With(categorizedMods, l.key, ValidParts(l))
            /\ "carmods" \in has'
       ELSE UNCHANGED <<modNames, modIds, categorizedMods>>
    /\ colorVariations' = IF l.section = "carcols" /\ l.key \in {"variations", "variation"}
                          THEN Merged(colorVariations, NewVariations(l))
                          ELSE colorVariations
    /\ has \subseteq has'

\* A line leaves the lists without a part or a variation twice.
LEMMA ListsKept ==
  ASSUME Listed, NEW l \in Lines, ListedBy(l)
  PROVE  Listed'
<1>1. ASSUME l.section = "carmods"
      PROVE  /\ modNames' \in Seq(DOMAIN PartId) /\ IsInjective(modNames')
             /\ modIds' \in Seq(PartIds) /\ IsInjective(modIds')
             /\ ToSet(modIds') = {PartId[p] : p \in ToSet(modNames')}
             /\ "carmods" \in has'
             /\ \A k \in DOMAIN categorizedMods' :
                   ToSet(categorizedMods'[k]) \subseteq ToSet(modNames')
  <2> DEFINE parts == ValidParts(l)
  <2>1. l.val \in Seq(DOMAIN PartId) BY <1>1, ConfigAssumption
  <2>2. parts \in Seq(DOMAIN PartId)
    <3> DEFINE S == {p \in DOMAIN PartId : PartId[p] \in 1000..1193}
    <3>1. Those(l.val, S) \in Seq(DOMAIN PartId \cap S) BY <2>1, ThoseAre
    <3>2. DOMAIN PartId \cap S \subseteq DOMAIN PartId OBVIOUS
    <3>3. parts = Those(l.val, S) BY DEF ValidParts
    <3> HIDE DEF S, parts
    <3> QED BY <3>1, <3>2, <3>3
  <2>3. /\ NewIds(l) \in Seq(PartIds) /\ Len(NewIds(l)) = Len(parts)
        /\ DOMAIN parts = 1..Len(parts) /\ DOMAIN NewIds(l) = DOMAIN parts
        /\ \A i \in DOMAIN parts : NewIds(l)[i] = PartId[parts[i]]
    <3> HIDE DEF parts
    <3>1. NewIds(l) = [i \in DOMAIN parts |-> PartId[parts[i]]] BY DEF NewIds, parts
    <3>2. DOMAIN parts = 1..Len(parts) /\ Len(parts) \in Nat BY <2>2
    <3>3. \A i \in 1..Len(parts) : PartId[parts[i]] \in PartIds BY <2>2, <3>2 DEF PartIds
    <3> QED BY <3>1, <3>2, <3>3
  <2> HIDE DEF parts
  <2>4. ToSet(NewIds(l)) = {PartId[p] : p \in ToSet(parts)}
    <3>1. ToSet(NewIds(l)) = {NewIds(l)[i] : i \in DOMAIN parts} BY <2>3 DEF ToSet
    <3>2. ToSet(parts) = {parts[i] : i \in DOMAIN parts} BY DEF ToSet
    <3> QED BY <2>3, <3>1, <3>2
  <2>5. /\ modNames' = Merged(modNames, parts) /\ modIds' = Merged(modIds, NewIds(l))
        /\ categorizedMods' = IF parts = <<>> THEN categorizedMods
                              ELSE With(categorizedMods, l.key, parts)
        /\ "carmods" \in has'
    BY <1>1 DEF ListedBy, Ids, parts
  <2>6. /\ modNames' \in Seq(DOMAIN PartId) /\ IsInjective(modNames')
        /\ ToSet(modNames') = ToSet(modNames) \cup ToSet(parts)
    BY <2>2, <2>5, MergedIs DEF Listed
  <2>7. /\ modIds' \in Seq(PartIds) /\ IsInjective(modIds')
        /\ ToSet(modIds') = ToSet(modIds) \cup ToSet(NewIds(l))
    BY <2>3, <2>5, MergedIs DEF Listed
  <2>8. ToSet(modIds') = {PartId[p] : p \in ToSet(modNames')}
    BY <2>4, <2>6, <2>7 DEF Listed
  <2>9. ASSUME NEW k \in DOMAIN categorizedMods'
        PROVE  ToSet(categorizedMods'[k]) \subseteq ToSet(modNames')
    <3>1. \/ categorizedMods'[k] = parts
          \/ k \in DOMAIN categorizedMods /\ categorizedMods'[k] = categorizedMods[k]
      <4>1. CASE parts = <<>> BY <2>5, <2>9, <4>1
      <4>2. CASE parts # <<>> BY <2>5, <2>9, <4>2 DEF With
      <4> QED BY <4>1, <4>2
    <3> QED BY <2>6, <3>1 DEF Listed
  <2> QED BY <2>5, <2>6, <2>7, <2>8, <2>9
<1>2. colorVariations' \in Seq(Variations) /\ IsInjective(colorVariations')
  <2>1. CASE l.section = "carcols" /\ l.key \in {"variations", "variation"}
    <3> DEFINE S == {e \in ToSet(l.val) : IsVariation(e)}
    <3> DEFINE found == Those(l.val, S)
    <3>1. l.val \in Seq(Seq(Int \cup {Bad})) BY <2>1, ConfigAssumption
    <3>2. found \in Seq(Seq(Int \cup {Bad}) \cap S) BY <3>1, ThoseAre
    <3>3. NewVariations(l) = [i \in DOMAIN found |-> FourOf(found[i])]
      BY DEF NewVariations
    <3> HIDE DEF found
    <3>4. DOMAIN found = 1..Len(found) /\ Len(found) \in Nat BY <3>2
    <3>5. ASSUME NEW i \in 1..Len(found) PROVE FourOf(found[i]) \in Variations
      <4>1. found[i] \in S BY <3>2, <3>4
      <4>2. \A j \in DOMAIN found[i] : j <= 4 => found[i][j] \in Colour
        BY <4>1 DEF IsVariation
      <4>3. 0 \in Colour BY DEF Colour
      <4>4. \A j \in 1..4 : j <= 4 OBVIOUS
      <4> QED BY <4>2, <4>3, <4>4 DEF FourOf, Variations
    <3> HIDE DEF S
    <3>6. NewVariations(l) \in Seq(Variations) BY <3>3, <3>4, <3>5
    <3>7. colorVariations' = Merged(colorVariations, NewVariations(l))
      BY <2>1 DEF ListedBy
    <3> QED BY <3>6, <3>7, MergedIs DEF Listed
  <2>2. CASE ~(l.section = "carcols" /\ l.key \in {"variations", "variation"})
    <3>1. colorVariations' = colorVariations BY <2>2 DEF ListedBy
    <3> QED BY <3>1 DEF Listed
  <2> QED BY <2>1, <2>2
<1>3. CASE l.section = "carmods" BY <1>1, <1>2, <1>3 DEF Listed
<1>4. CASE l.section # "carmods"
  <2>1. /\ modNames' = modNames /\ modIds' = modIds
        /\ categorizedMods' = categorizedMods
        /\ has \subseteq has'
    BY <1>4 DEF ListedBy
  <2> QED BY <1>2, <2>1 DEF Listed
<1> QED BY <1>3, <1>4

\* What natives tell by index is the list.
LEMMA ByIndex ==
  ASSUME Listed
  PROVE  PartsListedOnce
<1>1. AllowedUpgrades \in Seq(PartIds) /\ IsInjective(AllowedUpgrades)
  BY DEF AllowedUpgrades, Listed, IsInjective
<1>2. ColorVariations \in Seq(Variations) /\ IsInjective(ColorVariations)
  BY DEF ColorVariations, Listed, IsInjective
<1>3. ASSUME NEW q, NEW X, q \in Seq(X), IsInjective(q),
             NEW i \in 0..(Len(q) - 1), NEW j \in 0..(Len(q) - 1),
             q[i + 1] = q[j + 1]
      PROVE  i = j
  <2>1. i + 1 \in DOMAIN q /\ j + 1 \in DOMAIN q BY <1>3
  <2>2. i + 1 = j + 1 BY <1>3, <2>1 DEF IsInjective
  <2> QED BY <2>2
<1>4. \A i, j \in 0..(GetCustomVehicleAllowedUpgradesCount - 1) :
         GetCustomVehicleAllowedUpgrade(i) = GetCustomVehicleAllowedUpgrade(j) => i = j
  BY <1>1, <1>3 DEF GetCustomVehicleAllowedUpgradesCount, GetCustomVehicleAllowedUpgrade
<1>5. \A i, j \in 0..(GetCustomVehicleColorVariationsCount - 1) :
         GetCustomVehicleColorVariation(i) = GetCustomVehicleColorVariation(j) => i = j
  BY <1>2, <1>3 DEF GetCustomVehicleColorVariationsCount, GetCustomVehicleColorVariation
<1>6. ToSet(AllowedUpgrades) = {PartId[p] : p \in ToSet(modNames)}
  <2>1. CASE "carmods" \in has BY <2>1 DEF AllowedUpgrades, Listed
  <2>2. CASE "carmods" \notin has
    <3>1. AllowedUpgrades = <<>> /\ modNames = <<>> BY <2>2 DEF AllowedUpgrades, Listed
    <3> QED BY <3>1 DEF ToSet
  <2> QED BY <2>1, <2>2
<1> QED BY <1>4, <1>5, <1>6 DEF PartsListedOnce, Listed

-----------------------------------------------------------------------------
(* The keys. *)

Props == /\ \A i \in DOMAIN read :
               /\ read[i].section \in Section
               /\ <<"", read[i].side, read[i].key>> \in DOMAIN customProperties
               /\ <<read[i].section, read[i].side, read[i].key>>
                     \in DOMAIN customProperties
         /\ PropertiesFollowFile

\* "" is the name of no section.
LEMMA SectionNamed == "" \notin Section
BY DEF Section, Tables

\* A line writes its key, with its section and with "", and no other.
LEMMA RememberedIs ==
  ASSUME ReadInv, NEW l \in Lines, Reading(l)
  PROVE  LET mine == <<section, l.side, l.key>>
             any  == <<"", l.side, l.key>>
         IN
         /\ DOMAIN customProperties' = DOMAIN customProperties \cup {mine, any}
         /\ customProperties'[mine] = l.val
         /\ customProperties'[any] = l.val
         /\ \A k \in DOMAIN customProperties :
               k # mine /\ k # any => customProperties'[k] = customProperties[k]
<1> DEFINE mine == <<section, l.side, l.key>>
<1> DEFINE any == <<"", l.side, l.key>>
<1> DEFINE inner == With(customProperties, mine, l.val)
<1>1. customProperties' = With(inner, any, l.val) BY DEF Reading, Remembered
<1>2. mine # any BY SectionNamed DEF ReadInv
<1> HIDE DEF mine, any
<1>3. /\ DOMAIN inner = {mine} \cup DOMAIN customProperties
      /\ inner[mine] = l.val
      /\ \A k \in DOMAIN customProperties : k # mine => inner[k] = customProperties[k]
  BY DEF With
<1> HIDE DEF inner
<1>4. /\ DOMAIN customProperties' = {any} \cup DOMAIN inner
      /\ customProperties'[any] = l.val
      /\ \A k \in DOMAIN inner : k # any => customProperties'[k] = inner[k]
  BY <1>1 DEF With
<1>5. /\ DOMAIN customProperties' = DOMAIN customProperties \cup {mine, any}
      /\ customProperties'[mine] = l.val
      /\ customProperties'[any] = l.val
      /\ \A k \in DOMAIN customProperties :
            k # mine /\ k # any => customProperties'[k] = customProperties[k]
  BY <1>2, <1>3, <1>4
<1> QED BY <1>5 DEF mine, any

\* What a key says stays the last line's.
LEMMA PropsKept ==
  ASSUME ReadInv, Props, NEW l \in Lines, Reading(l)
  PROVE  Props'
<1> DEFINE n == Len(read)
<1> DEFINE mine == <<section, l.side, l.key>>
<1> DEFINE any == <<"", l.side, l.key>>
<1>1. /\ n \in Nat /\ DOMAIN read = 1..n /\ DOMAIN read' = 1..(n + 1)
      /\ \A i \in 1..n : read'[i] = read[i]
      /\ read'[n + 1] = l /\ l.section = section /\ section \in Section
  BY LinesGrow DEF ReadInv
<1>2. /\ DOMAIN customProperties' = DOMAIN customProperties \cup {mine, any}
      /\ customProperties'[mine] = l.val
      /\ customProperties'[any] = l.val
      /\ \A k \in DOMAIN customProperties :
            k # mine /\ k # any => customProperties'[k] = customProperties[k]
  BY RememberedIs
<1>3. ASSUME NEW i \in DOMAIN read'
      PROVE  /\ read'[i].section \in Section
             /\ <<"", read'[i].side, read'[i].key>> \in DOMAIN customProperties'
             /\ <<read'[i].section, read'[i].side, read'[i].key>>
                   \in DOMAIN customProperties'
  <2>1. CASE i = n + 1 BY <1>1, <1>2, <2>1
  <2>2. CASE i \in 1..n
    <3>1. read'[i] = read[i] /\ i \in DOMAIN read BY <1>1, <2>2
    <3>2. /\ read[i].section \in Section
          /\ <<"", read[i].side, read[i].key>> \in DOMAIN customProperties
          /\ <<read[i].section, read[i].side, read[i].key>> \in DOMAIN customProperties
      BY <3>1 DEF Props
    <3> HIDE DEF mine, any
    <3> QED BY <1>2, <3>1, <3>2
  <2>3. i = n + 1 \/ i \in 1..n BY <1>1, <1>3
  <2> QED BY <2>1, <2>2, <2>3
<1>4. ASSUME NEW i \in DOMAIN read'
      PROVE  LET last == LastOf(Alike(read[i])')
                 here == LastOf({j \in Alike(read[i]) :
                                   read[j].section = read[i].section}')
             IN /\ customProperties'[<<"", read'[i].side, read'[i].key>>]
                      = read'[last].val
                /\ customProperties'[<<read'[i].section, read'[i].side, read'[i].key>>]
                      = read'[here].val
  <2> DEFINE k == read'[i]
  <2> DEFINE S == {j \in 1..n : read[j].side = k.side /\ read[j].key = k.key}
  <2> DEFINE T == {j \in 1..(n + 1) : read'[j].side = k.side /\ read'[j].key = k.key}
  <2> DEFINE SH == {j \in S : read[j].section = k.section}
  <2> DEFINE TH == {j \in T : read'[j].section = k.section}
  <2> DEFINE ofAny == <<"", k.side, k.key>>
  <2> DEFINE ofMine == <<k.section, k.side, k.key>>
  <2>1. /\ Alike(read[i])' = T
        /\ {j \in Alike(read[i]) : read[j].section = read[i].section}' = TH
    BY <1>1 DEF Alike
  <2>2. k.section \in Section BY <1>3
  <2>3. /\ S \subseteq DOMAIN read /\ T \subseteq DOMAIN read'
        /\ SH \subseteq DOMAIN read /\ TH \subseteq DOMAIN read'
        /\ \A j \in 1..n : j \in T <=> j \in S
        /\ \A j \in 1..n : j \in TH <=> j \in SH
        /\ n + 1 \in T <=> (l.side = k.side /\ l.key = k.key)
        /\ n + 1 \in TH <=> (n + 1 \in T /\ l.section = k.section)
    BY <1>1
  <2>4. ASSUME i \in 1..n
        PROVE  /\ i \in S /\ i \in SH
               /\ ofAny \in DOMAIN customProperties
               /\ ofMine \in DOMAIN customProperties
               /\ customProperties[ofAny] = read[LastOf(S)].val
               /\ customProperties[ofMine] = read[LastOf(SH)].val
    <3>1. k = read[i] /\ i \in DOMAIN read BY <1>1, <2>4
    <3>2. i \in S /\ i \in SH BY <2>4, <3>1
    <3>3. /\ Alike(read[i]) = S
          /\ {j \in Alike(read[i]) : read[j].section = read[i].section} = SH
      BY <1>1, <3>1 DEF Alike
    <3>4. /\ ofAny = <<"", read[i].side, read[i].key>>
          /\ ofMine = <<read[i].section, read[i].side, read[i].key>>
      BY <3>1
    <3> HIDE DEF S, SH, k, ofAny, ofMine
    <3>5. ofAny \in DOMAIN customProperties /\ ofMine \in DOMAIN customProperties
      BY <3>1, <3>4 DEF Props
    <3>6. /\ GetCustomVehicleConfigString(ofAny) = read[LastOf(S)].val
          /\ GetCustomVehicleConfigString(ofMine) = read[LastOf(SH)].val
      BY <3>1, <3>3, <3>4 DEF Props, PropertiesFollowFile
    <3> QED BY <3>2, <3>5, <3>6 DEF GetCustomVehicleConfigString
  <2>5. i \notin 1..n => n + 1 \in T /\ n + 1 \in TH BY <1>1, <2>3
  <2>6. /\ n + 1 \in T => ofAny = any
        /\ n + 1 \in TH => ofMine = mine
        /\ n + 1 \notin T => ofAny # any
        /\ n + 1 \notin TH => ofMine # mine
        /\ ofAny # mine /\ ofMine # any
    BY <1>1, <2>2, <2>3, SectionNamed
  <2> HIDE DEF S, SH, T, TH, k, ofAny, ofMine, mine, any
  <2>7. customProperties'[ofAny] = read'[LastOf(T)].val
    <3>1. CASE n + 1 \in T
      <4>1. LastOf(T) = n + 1 BY <2>3, <3>1, SomeGrow
      <4> QED BY <1>1, <1>2, <2>6, <3>1, <4>1
    <3>2. CASE n + 1 \notin T
      <4>1. i \in 1..n BY <2>5, <3>2
      <4>2. T = S /\ LastOf(S) \in 1..n BY <2>3, <2>4, <3>2, <4>1, SomeGrow
      <4> QED BY <1>1, <1>2, <2>4, <2>6, <3>2, <4>1, <4>2
    <3> QED BY <3>1, <3>2
  <2>8. customProperties'[ofMine] = read'[LastOf(TH)].val
    <3>1. CASE n + 1 \in TH
      <4>1. LastOf(TH) = n + 1 BY <2>3, <3>1, SomeGrow
      <4> QED BY <1>1, <1>2, <2>6, <3>1, <4>1
    <3>2. CASE n + 1 \notin TH
      <4>1. i \in 1..n BY <2>5, <3>2
      <4>2. TH = SH /\ LastOf(SH) \in 1..n BY <2>3, <2>4, <3>2, <4>1, SomeGrow
      <4> QED BY <1>1, <1>2, <2>4, <2>6, <3>2, <4>1, <4>2
    <3> QED BY <3>1, <3>2
  <2> QED BY <2>1, <2>7, <2>8 DEF ofAny, ofMine, k
<1>5. \A i \in DOMAIN read' :
         /\ GetCustomVehicleConfigString(<<"", read[i].side, read[i].key>>)'
               = read'[LastOf(Alike(read[i])')].val
         /\ GetCustomVehicleConfigString(
               <<read[i].section, read[i].side, read[i].key>>)'
               = read'[LastOf({j \in Alike(read[i]) :
                                 read[j].section = read[i].section}')].val
  BY <1>3, <1>4 DEF GetCustomVehicleConfigString
<1>6. PropertiesFollowFile' BY <1>5 DEF PropertiesFollowFile
<1> QED BY <1>3, <1>6 DEF Props

-----------------------------------------------------------------------------
(* All of it. *)

\* The configuration follows the lines that are read.
ConfigInv == ReadInv /\ Handled /\ Meshed /\ Listed /\ Props

\* A line that does what it may to each part keeps the configuration in step.
LEMMA LineKeeps ==
  ASSUME ConfigInv, NEW l \in Lines, Reading(l), HandledBy(l), MeshedBy(l),
         ListedBy(l)
  PROVE  ConfigInv'
<1>1. ReadInv' BY LinesGrow DEF ConfigInv
<1>2. Handled' BY HandlingKept DEF ConfigInv
<1>3. Meshed' BY MeshKept DEF ConfigInv
<1>4. Listed' BY ListsKept DEF ConfigInv
<1>5. Props' BY PropsKept DEF ConfigInv
<1> QED BY <1>1, <1>2, <1>3, <1>4, <1>5 DEF ConfigInv

\* Before the first line it follows none.
LEMMA ConfigFirst == ConfigInit => ConfigInv
<1> SUFFICES ASSUME ConfigInit PROVE ConfigInv
  OBVIOUS
<1>1. read = <<>> /\ DOMAIN read = {} BY DEF ConfigInit
<1>2. ReadInv BY <1>1 DEF ConfigInit, ReadInv, Section, Tables
<1>3. Handled
  <2>1. LastOf(BasesRead) = 0 /\ \A a : LastOf(Settings(a)) = 0
    BY <1>1 DEF BasesRead, Settings, LastOf
  <2>2. /\ handlingData = CopyDefault(FallbackBase)
        /\ handlingMods = [a \in Attributes |-> Unread]
    BY DEF ConfigInit
  <2>3. HandlingFollowsFile BY <2>1, <2>2 DEF HandlingFollowsFile
  <2> QED BY <2>2, <2>3, CopyHasAll DEF Handled
<1>4. Meshed
  <2>1. /\ \A s : Switches(s) = {} /\ Positions(s) = {}
        /\ Turns = {}
    BY <1>1 DEF Switches, Positions, Turns
  <2>2. mesh = [s \in Sides |-> NoMesh] /\ explicit = {} BY DEF ConfigInit
  <2>3. DOMAIN NoMesh = MeshFields /\ NoMesh.enabled = 0 /\ NoMesh.rotZ = 0
    BY DEF NoMesh, MeshFields
  <2> HIDE DEF NoMesh
  <2>4. "rear" \in Sides BY DEF Sides
  <2>5. PlateSwitchWins BY <2>1, <2>2, <2>3 DEF PlateSwitchWins
  <2>6. RearFacesBack BY <2>1, <2>2, <2>3, <2>4 DEF RearFacesBack
  <2> QED BY <2>1, <2>2, <2>3, <2>5, <2>6 DEF Meshed, PlatesFollowFile
<1>5. Listed
  <2>1. /\ modNames = <<>> /\ modIds = <<>> /\ categorizedMods = <<>>
        /\ colorVariations = <<>>
    BY DEF ConfigInit
  <2>2. DOMAIN <<>> = {} /\ ToSet(<<>>) = {} BY DEF ToSet
  <2> QED BY <2>1, <2>2 DEF Listed, IsInjective
<1>6. Props BY <1>1 DEF Props, PropertiesFollowFile
<1> QED BY <1>2, <1>3, <1>4, <1>5, <1>6 DEF ConfigInv

\* What a line of each section does.
LEMMA ModelLineKeeps ==
  ASSUME ConfigInv, NEW l \in Lines, ModelLine(l)
  PROVE  ConfigInv'
<1>1. Reading(l) /\ l.section = "model" BY DEF ModelLine, Reading
<1>2. HandledBy(l) BY <1>1 DEF ModelLine, HandledBy, IsBase, Valid, DataAfter
<1>3. MeshedBy(l) BY <1>1 DEF ModelLine, MeshedBy
<1>4. ListedBy(l) BY <1>1 DEF ModelLine, ListedBy
<1> QED BY <1>1, <1>2, <1>3, <1>4, LineKeeps

LEMMA TableLineKeeps ==
  ASSUME ConfigInv, NEW l \in Lines, TableLine(l)
  PROVE  ConfigInv'
<1>1. /\ Reading(l)
      /\ l.section \in {"ide", "flags", "lighting", "offsets", "audio"}
  BY DEF TableLine, Reading
<1>2. HandledBy(l) BY <1>1 DEF TableLine, HandledBy, IsBase, Valid
<1>3. MeshedBy(l) BY <1>1 DEF TableLine, MeshedBy
<1>4. ListedBy(l) BY <1>1 DEF TableLine, ListedBy
<1> QED BY <1>1, <1>2, <1>3, <1>4, LineKeeps

LEMMA HandlingLineKeeps ==
  ASSUME ConfigInv, NEW l \in Lines, HandlingLine(l)
  PROVE  ConfigInv'
<1>1. Reading(l) /\ l.section = "handling" BY DEF HandlingLine, Reading
<1>2. HandledBy(l)
  BY <1>1 DEF HandlingLine, HandledBy, IsBase, Valid, Recorded
<1>3. MeshedBy(l) BY <1>1 DEF HandlingLine, MeshedBy
<1>4. ListedBy(l) BY <1>1 DEF HandlingLine, ListedBy
<1> QED BY <1>1, <1>2, <1>3, <1>4, LineKeeps

LEMMA CarmodsLineKeeps ==
  ASSUME ConfigInv, NEW l \in Lines, CarmodsLine(l)
  PROVE  ConfigInv'
<1>1. Reading(l) /\ l.section = "carmods" BY DEF CarmodsLine, Reading
<1>2. HandledBy(l) BY <1>1 DEF CarmodsLine, HandledBy, IsBase, Valid
<1>3. MeshedBy(l) BY <1>1 DEF CarmodsLine, MeshedBy
<1>4. ListedBy(l) BY <1>1 DEF CarmodsLine, ListedBy
<1> QED BY <1>1, <1>2, <1>3, <1>4, LineKeeps

LEMMA CarcolsLineKeeps ==
  ASSUME ConfigInv, NEW l \in Lines, CarcolsLine(l)
  PROVE  ConfigInv'
<1>1. Reading(l) /\ l.section = "carcols" BY DEF CarcolsLine, Reading
<1>2. HandledBy(l) BY <1>1 DEF CarcolsLine, HandledBy, IsBase, Valid
<1>3. MeshedBy(l) BY <1>1 DEF CarcolsLine, MeshedBy
<1>4. ListedBy(l) BY <1>1 DEF CarcolsLine, ListedBy
<1> QED BY <1>1, <1>2, <1>3, <1>4, LineKeeps

LEMMA PlateLineKeeps ==
  ASSUME ConfigInv, NEW l \in Lines, PlateLine(l)
  PROVE  ConfigInv'
<1>1. Reading(l) /\ l.section = "plate" BY DEF PlateLine, Reading
<1>2. HandledBy(l) BY <1>1 DEF PlateLine, HandledBy, IsBase, Valid
<1>3. MeshedBy(l) BY <1>1 DEF PlateLine, MeshedBy
<1>4. ListedBy(l) BY <1>1 DEF PlateLine, ListedBy
<1> QED BY <1>1, <1>2, <1>3, <1>4, LineKeeps

LEMMA OtherLineKeeps ==
  ASSUME ConfigInv, NEW l \in Lines, OtherLine(l)
  PROVE  ConfigInv'
<1>1. Reading(l) /\ l.section = "unknown" BY DEF OtherLine, Reading
<1>2. HandledBy(l) BY <1>1 DEF OtherLine, HandledBy, IsBase, Valid
<1>3. MeshedBy(l) BY <1>1 DEF OtherLine, MeshedBy
<1>4. ListedBy(l) BY <1>1 DEF OtherLine, ListedBy
<1> QED BY <1>1, <1>2, <1>3, <1>4, LineKeeps

\* What follows the lines still does when none is read.
LEMMA NothingRead ==
  ASSUME ConfigInv, section' \in Section,
         UNCHANGED <<has, fields, handlingData, handlingMods, modNames, modIds, categorizedMods,
                     colorVariations, mesh, explicit, customProperties, read>>
  PROVE  ConfigInv'
<1>1. ReadInv' BY DEF ConfigInv, ReadInv
<1>2. Handled' BY DEF ConfigInv, Handled, HandlingFollowsFile, BasesRead, Settings
<1>3. Meshed'
  <2>1. /\ \A s : Switches(s)' = Switches(s) /\ Positions(s)' = Positions(s)
        /\ Turns' = Turns
    BY DEF Switches, Positions, Turns
  <2>2. PlateSwitchWins' BY <2>1 DEF ConfigInv, Meshed, PlatesFollowFile, PlateSwitchWins
  <2>3. RearFacesBack' BY <2>1 DEF ConfigInv, Meshed, PlatesFollowFile, RearFacesBack
  <2> QED BY <2>1, <2>2, <2>3 DEF ConfigInv, Meshed, PlatesFollowFile
<1>4. Listed' BY DEF ConfigInv, Listed
<1>5. Props'
  <2>1. ASSUME NEW i \in DOMAIN read
        PROVE  /\ GetCustomVehicleConfigString(<<"", read[i].side, read[i].key>>)'
                     = read'[LastOf(Alike(read[i])')].val
               /\ GetCustomVehicleConfigString(
                     <<read[i].section, read[i].side, read[i].key>>)'
                     = read'[LastOf({j \in Alike(read[i]) :
                                       read[j].section = read[i].section}')].val
    <3> DEFINE T == {j \in Alike(read[i]) : read[j].section = read[i].section}
    <3>1. Alike(read[i])' = Alike(read[i]) BY DEF Alike
    <3>2. T' = T BY <3>1
    <3>3. /\ GetCustomVehicleConfigString(<<"", read[i].side, read[i].key>>)
                = read[LastOf(Alike(read[i]))].val
          /\ GetCustomVehicleConfigString(
                <<read[i].section, read[i].side, read[i].key>>)
                = read[LastOf(T)].val
      BY DEF ConfigInv, Props, PropertiesFollowFile
    <3>4. /\ GetCustomVehicleConfigString(<<"", read[i].side, read[i].key>>)'
                = GetCustomVehicleConfigString(<<"", read[i].side, read[i].key>>)
          /\ GetCustomVehicleConfigString(
                <<read[i].section, read[i].side, read[i].key>>)'
                = GetCustomVehicleConfigString(
                     <<read[i].section, read[i].side, read[i].key>>)
      BY DEF GetCustomVehicleConfigString
    <3> HIDE DEF T
    <3>5. /\ read'[LastOf(Alike(read[i])')] = read[LastOf(Alike(read[i]))]
          /\ read'[LastOf(T')] = read[LastOf(T)]
      BY <3>1, <3>2
    <3> QED BY <3>3, <3>4, <3>5 DEF T
  <2>2. PropertiesFollowFile' BY <2>1 DEF PropertiesFollowFile
  <2> QED BY <2>2 DEF ConfigInv, Props
<1> QED BY <1>1, <1>2, <1>3, <1>4, <1>5 DEF ConfigInv

\* Each line keeps it, in any section.
LEMMA ConfigStep == ConfigInv /\ [ConfigNext]_configVars => ConfigInv'
<1> SUFFICES ASSUME ConfigInv, [ConfigNext]_configVars PROVE ConfigInv'
  OBVIOUS
<1>1. ASSUME NEW s \in Section, Header(s) PROVE ConfigInv'
  BY <1>1, NothingRead DEF Header
<1>2. ASSUME NEW l \in Lines, ModelLine(l) PROVE ConfigInv' BY <1>2, ModelLineKeeps
<1>3. ASSUME NEW l \in Lines, TableLine(l) PROVE ConfigInv' BY <1>3, TableLineKeeps
<1>4. ASSUME NEW l \in Lines, HandlingLine(l) PROVE ConfigInv'
  BY <1>4, HandlingLineKeeps
<1>5. ASSUME NEW l \in Lines, CarmodsLine(l) PROVE ConfigInv'
  BY <1>5, CarmodsLineKeeps
<1>6. ASSUME NEW l \in Lines, CarcolsLine(l) PROVE ConfigInv'
  BY <1>6, CarcolsLineKeeps
<1>7. ASSUME NEW l \in Lines, PlateLine(l) PROVE ConfigInv' BY <1>7, PlateLineKeeps
<1>8. ASSUME NEW l \in Lines, OtherLine(l) PROVE ConfigInv' BY <1>8, OtherLineKeeps
<1>9. CASE UNCHANGED configVars
  <2>1. section' \in Section BY <1>9 DEF configVars, ConfigInv, ReadInv
  <2> QED BY <1>9, <2>1, NothingRead DEF configVars
<1> QED
  BY <1>1, <1>2, <1>3, <1>4, <1>5, <1>6, <1>7, <1>8, <1>9 DEF ConfigNext

\* ParseString (src/Server/src/ModelConfigParser.cpp:517): the handling of a model
\* is its base's but for what the lines after it set, the modifications are the
\* last of each attribute, whatever the order of the sections.
THEOREM HandlingCorrect == ConfigSpec => []HandlingFollowsFile
<1>1. ConfigInv => HandlingFollowsFile BY DEF ConfigInv, Handled
<1> QED BY <1>1, ConfigFirst, ConfigStep, PTL DEF ConfigSpec

\* The lines of [plate] (src/Server/src/ModelConfigParser.cpp:1543): what a file
\* says of a plate's switch holds wherever it says so, and a rear plate faces
\* backward unless the file turns it.
THEOREM PlatesCorrect == ConfigSpec => []PlatesFollowFile
<1>1. ConfigInv => PlatesFollowFile BY DEF ConfigInv, Meshed
<1> QED BY <1>1, ConfigFirst, ConfigStep, PTL DEF ConfigSpec

\* What natives tell scripts of a file: no part or colour variation twice, and of
\* each key what the last line with it says.
THEOREM ScriptsCorrect == ConfigSpec => []ScriptsReadFile
<1>1. ConfigInv => ScriptsReadFile
  BY ByIndex DEF ConfigInv, Props, ScriptsReadFile
<1> QED BY <1>1, ConfigFirst, ConfigStep, PTL DEF ConfigSpec

-----------------------------------------------------------------------------
(* The fields of the tables. *)

\* What the tables accept are numbers, or texts.
LEMMA TablesAccept ==
  ASSUME NEW s \in DOMAIN Tables, NEW k \in DOMAIN Tables[s],
         NEW v \in Tables[s][k].values
  PROVE  v \in Texts
<1>1. \A x \in DOMAIN ModelKeys : ModelKeys[x].values \subseteq Texts
  <2>1. /\ StockVehicles \subseteq Texts /\ VehicleOrCustom \subseteq Texts
        /\ Sounds \subseteq Texts /\ 1..16 \subseteq Texts
    BY DEF Texts, StockVehicles, VehicleOrCustom, Sounds
  <2>2. \A x \in DOMAIN ModelKeys :
           ModelKeys[x].values \in {Texts, StockVehicles, VehicleOrCustom, Sounds, 1..16}
    BY DEF ModelKeys, To
  <2> QED BY <2>1, <2>2
<1>2. \A x \in DOMAIN IdeKeys : IdeKeys[x].values \subseteq Texts
  BY DEF IdeKeys, To, Texts
<1>3. \A x \in DOMAIN FlagKeys : FlagKeys[x].values \subseteq Texts
  BY DEF FlagKeys, To, Texts, Flag
<1>4. \A x \in DOMAIN LightingKeys : LightingKeys[x].values \subseteq Texts
  BY DEF LightingKeys, To, Texts
<1>5. \A x \in DOMAIN OffsetKeys : OffsetKeys[x].values \subseteq Texts
  BY DEF OffsetKeys, To, Texts
<1>6. \A x \in DOMAIN AudioKeys : AudioKeys[x].values \subseteq Texts
  <2> DEFINE low == 0..100
  <2> DEFINE least == 10..50000
  <2> DEFINE most == 100..200000
  <2> DEFINE pitch == 10..400
  <2> DEFINE factor == 0..300
  <2>1. /\ Files \subseteq Texts /\ Flag \subseteq Texts /\ low \subseteq Texts
        /\ least \subseteq Texts /\ most \subseteq Texts /\ pitch \subseteq Texts
        /\ factor \subseteq Texts
    BY DEF Texts, Flag, Files
  <2>2. AudioKeys =
           [engine |-> To({"engineFile"}, Files),
            acceleration |-> To({"accelerationFile"}, Files),
            deacceleration |-> To({"deaccelerationFile"}, Files),
            brake |-> To({"brakeFile"}, Files), crash |-> To({"crashFile"}, Files),
            volume |-> To({"audioVolume"}, low),
            mindistance |-> To({"audioMinDistance"}, least),
            maxdistance |-> To({"audioMaxDistance"}, most),
            pitchmultiplier |-> To({"audioPitchMultiplier"}, pitch),
            accelpitchfactor |-> To({"audioAccelPitchFactor"}, factor),
            mutenative |-> To({"audioMuteNative"}, Flag)]
    BY DEF AudioKeys
  <2> HIDE DEF low, least, most, pitch, factor
  <2>3. \A x \in DOMAIN AudioKeys :
           AudioKeys[x].values \in {Files, Flag, low, least, most, pitch, factor}
    BY <2>2 DEF To
  <2> QED BY <2>1, <2>3
<1>7. \A x \in DOMAIN ColourKeys : ColourKeys[x].values \subseteq Texts
  BY DEF ColourKeys, To, Texts, Colour
<1>8. \A x \in DOMAIN PlateTexts : PlateTexts[x].values \subseteq Texts
  BY DEF PlateTexts, To
<1>9. Tables[s] \in {ModelKeys, IdeKeys, FlagKeys, LightingKeys, OffsetKeys,
                     AudioKeys, ColourKeys, PlateTexts}
  BY DEF Tables
<1> HIDE DEF Tables, Texts
<1> QED BY <1>1, <1>2, <1>3, <1>4, <1>5, <1>6, <1>7, <1>8, <1>9

FieldsTyped == /\ has \subseteq Section
               /\ DOMAIN fields = Fields /\ \A f \in Fields : fields[f] \in Texts

\* A key of a table leaves the fields what they are.
LEMMA FieldsAfterTyped ==
  ASSUME FieldsTyped, NEW l
  PROVE  DOMAIN FieldsAfter(l) = Fields /\ \A f \in Fields : FieldsAfter(l)[f] \in Texts
<1>1. Accepted(l) => l.val \in Texts BY TablesAccept DEF Accepted
<1> QED BY <1>1 DEF FieldsAfter, FieldsTyped

LEMMA FieldsFirst == ConfigInit => FieldsTyped
<1>1. \A f \in DOMAIN Defaults : Defaults[f] \in Int BY DEF Defaults
<1>2. \A f : FieldDefault(f) \in Texts BY <1>1 DEF FieldDefault, Texts
<1> QED BY <1>2 DEF ConfigInit, FieldsTyped

LEMMA FieldsStep == FieldsTyped /\ [ConfigNext]_configVars => FieldsTyped'
<1> SUFFICES ASSUME FieldsTyped, [ConfigNext]_configVars PROVE FieldsTyped'
  OBVIOUS
<1>1. {"plate", "handling", "carmods", "carcols", "ide", "flags", "lighting",
       "offsets", "audio"} \subseteq Section
  BY DEF Section, Tables
<1>2. ASSUME UNCHANGED <<fields, has>> PROVE FieldsTyped' BY <1>2 DEF FieldsTyped
<1>3. ASSUME NEW l \in Lines, fields' = FieldsAfter(l), has' \subseteq Section
      PROVE  FieldsTyped'
  BY <1>3, FieldsAfterTyped DEF FieldsTyped
<1>4. ASSUME fields' = fields, has' \subseteq Section PROVE FieldsTyped'
  BY <1>4 DEF FieldsTyped
<1>5. ASSUME NEW s \in Section, Header(s) PROVE FieldsTyped' BY <1>2, <1>5 DEF Header
<1>6. ASSUME NEW l \in Lines, ModelLine(l) PROVE FieldsTyped'
  BY <1>1, <1>3, <1>6 DEF ModelLine, FieldsTyped
<1>7. ASSUME NEW l \in Lines, TableLine(l) PROVE FieldsTyped'
  <2>1. has' \subseteq Section BY <1>1, <1>7 DEF TableLine, FieldsTyped
  <2>2. CASE l.key = "vehicleclass"
    <3>1. fields' = [fields EXCEPT !["vehicleClass"] =
                        IF l.val \in 0..13 THEN l.val ELSE 0]
      BY <1>7, <2>2 DEF TableLine
    <3>2. (IF l.val \in 0..13 THEN l.val ELSE 0) \in Texts BY DEF Texts
    <3> QED BY <2>1, <3>1, <3>2 DEF FieldsTyped
  <2>3. CASE l.key # "vehicleclass" BY <1>3, <1>7, <2>1, <2>3 DEF TableLine
  <2> QED BY <2>2, <2>3
<1>8. ASSUME NEW l \in Lines, HandlingLine(l) PROVE FieldsTyped'
  BY <1>1, <1>4, <1>8 DEF HandlingLine, FieldsTyped
<1>9. ASSUME NEW l \in Lines, CarmodsLine(l) PROVE FieldsTyped'
  BY <1>1, <1>4, <1>9 DEF CarmodsLine, FieldsTyped
<1>10. ASSUME NEW l \in Lines, CarcolsLine(l) PROVE FieldsTyped'
  <2>1. has' \subseteq Section BY <1>1, <1>10 DEF CarcolsLine, FieldsTyped
  <2> QED BY <1>3, <1>4, <1>10, <2>1 DEF CarcolsLine
<1>11. ASSUME NEW l \in Lines, PlateLine(l) PROVE FieldsTyped'
  <2>1. has' \subseteq Section BY <1>1, <1>11 DEF PlateLine, FieldsTyped
  <2> QED BY <1>3, <1>4, <1>11, <2>1 DEF PlateLine
<1>12. ASSUME NEW l \in Lines, OtherLine(l) PROVE FieldsTyped'
  BY <1>2, <1>12 DEF OtherLine
<1>13. CASE UNCHANGED configVars BY <1>2, <1>13 DEF configVars
<1> QED
  BY <1>5, <1>6, <1>7, <1>8, <1>9, <1>10, <1>11, <1>12, <1>13 DEF ConfigNext

\* The types of the configuration: every field of a table is a number or a text,
\* and what the natives of the handling are to write is in range.
THEOREM ConfigTypesCorrect == ConfigSpec => []ConfigTypeOK
<1>1. ConfigInv /\ FieldsTyped => ConfigTypeOK
  <2>1. ASSUME Meshed, NEW s \in Sides PROVE mesh[s].enabled \in Flag
    BY <2>1 DEF Meshed, PlatesFollowFile, PlateSwitchWins, Flag
  <2> QED BY <2>1 DEF ConfigInv, ReadInv, Handled, Meshed, FieldsTyped, ConfigTypeOK
<1> QED BY <1>1, ConfigFirst, ConfigStep, FieldsFirst, FieldsStep, PTL DEF ConfigSpec
=============================================================================
