------------------------- MODULE VehicleVisualsProofs -------------------------
(***************************************************************************)
(* VehicleVisuals for every set of vehicles, addresses and models, and any  *)
(* number of waiting tasks.  For either answer to NetworkThread, SameFrame  *)
(* and DeletedFar: types, that a model counts as used exactly as often as   *)
(* a vehicle is bound to it, and that no model is destroyed under a         *)
(* binding.  With Calm, which the run has too: that the maps that go by     *)
(* addresses lead to a vehicle's own entry and collision, and that entries  *)
(* and vehicles say the same.                                               *)
(***************************************************************************)
EXTENDS VehicleVisuals, FiniteSetTheorems, TLAPS

\* The vehicles that a map of bindings binds to a model.
Bound(b, m) == {v \in Ids : b[v].model = m}

\* The counts that agree with the bindings.
Counts(b, count) == \A m \in Models : count[m] = Cardinality(Bound(b, m))

\* Clear subtracts all of a model's bindings at once, so that the type of the
\* counts rests on their exactness: neither is inductive alone.
CountInv == TypeOK /\ UseCountExact

-----------------------------------------------------------------------------
LEMMA BoundIsFinite ==
    ASSUME NEW b, NEW m
    PROVE  /\ IsFiniteSet(Bound(b, m))
           /\ Cardinality(Bound(b, m)) \in Nat
<1>1. IsFiniteSet(Ids) BY VisualsAssumption
<1>2. Bound(b, m) \in SUBSET Ids BY DEF Bound
<1>3. IsFiniteSet(Bound(b, m)) BY <1>1, <1>2, FS_Subset
<1> QED BY <1>3, FS_CardinalityType

\* A vehicle's binding replaced: its former model loses a use, the new one
\* gains it.
Replaced(b, c, v, new) == \A w \in Ids : c[w] = IF w = v THEN new ELSE b[w]

LEMMA OneRebound ==
    ASSUME NEW b, NEW c, NEW v \in Ids, NEW new, NEW m,
           Replaced(b, c, v, new)
    PROVE  Cardinality(Bound(c, m)) =
               IF new.model = m
               THEN IF b[v].model = m THEN Cardinality(Bound(b, m))
                                      ELSE Cardinality(Bound(b, m)) + 1
               ELSE IF b[v].model = m THEN Cardinality(Bound(b, m)) - 1
                                      ELSE Cardinality(Bound(b, m))
<1>1. v \in Bound(b, m) <=> b[v].model = m
  BY DEF Bound
<1>2. IsFiniteSet(Bound(b, m))
  BY BoundIsFinite
<1>3. CASE new.model = m
  <2>1. Bound(c, m) = Bound(b, m) \cup {v}
    BY <1>3 DEF Bound, Replaced
  <2>2. Cardinality(Bound(b, m) \cup {v}) =
          IF v \in Bound(b, m) THEN Cardinality(Bound(b, m))
                               ELSE Cardinality(Bound(b, m)) + 1
    BY <1>2, FS_AddElement
  <2> QED BY <1>1, <1>3, <2>1, <2>2
<1>4. CASE new.model # m
  <2>1. Bound(c, m) = Bound(b, m) \ {v}
    BY <1>4 DEF Bound, Replaced
  <2>2. Cardinality(Bound(b, m) \ {v}) =
          IF v \in Bound(b, m) THEN Cardinality(Bound(b, m)) - 1
                               ELSE Cardinality(Bound(b, m))
    BY <1>2, FS_RemoveElement
  <2> QED BY <1>1, <1>4, <2>1, <2>2
<1> QED BY <1>3, <1>4

\* What changes a binding but not its model changes no count.
LEMMA SameModels ==
    ASSUME NEW b, NEW c, NEW count, Counts(b, count),
           \A v \in Ids : c[v].model = b[v].model
    PROVE  Counts(c, count)
<1>1. \A m \in Models : Bound(c, m) = Bound(b, m)
  BY DEF Bound
<1> QED BY <1>1 DEF Counts

LEMMA CountsDef == UseCountExact <=> Counts(binding, useCount)
BY DEF UseCountExact, Counts, Bound

\* Unbind takes back one use, of a model that was bound.
LEMMA UnbindCounts ==
    ASSUME NEW b, NEW c, NEW v \in Ids, NEW new, Replaced(b, c, v, new),
           NEW count \in [Models -> Nat], Counts(b, count),
           new.model = None
    PROVE  LET after == DecrementModelUse(count, b[v].model)
           IN /\ after \in [Models -> Nat]
              /\ Counts(c, after)
<1> DEFINE after == DecrementModelUse(count, b[v].model)
<1>1. after \in [Models -> Nat]
  BY DEF DecrementModelUse
<1>2. \A m \in Models : after[m] =
          IF m = b[v].model /\ count[m] > 0 THEN count[m] - 1 ELSE count[m]
  BY DEF DecrementModelUse
<1>3. after = DecrementModelUse(count, b[v].model)
  OBVIOUS
<1> HIDE DEF after
<1>4. ASSUME NEW m \in Models
      PROVE  after[m] = Cardinality(Bound(c, m))
  <2>1. new.model # m
    BY VisualsAssumption
  <2>2. count[m] = Cardinality(Bound(b, m)) /\ count[m] \in Nat
    BY DEF Counts
  <2>3. Cardinality(Bound(c, m)) =
            IF b[v].model = m THEN Cardinality(Bound(b, m)) - 1
                              ELSE Cardinality(Bound(b, m))
    BY <2>1, OneRebound
  <2>4. b[v].model = m => count[m] > 0
    <3>1. b[v].model = m => Bound(b, m) # {}
      BY DEF Bound
    <3> QED BY <2>2, <3>1, BoundIsFinite, FS_EmptySet
  <2> QED BY <1>2, <2>2, <2>3, <2>4
<1> QED BY <1>1, <1>3, <1>4 DEF Counts

\* Bind moves one use from the former model, if there was one, to the new.
LEMMA BindCounts ==
    ASSUME NEW b, NEW c, NEW v \in Ids, NEW new, Replaced(b, c, v, new),
           NEW count \in [Models -> Nat], Counts(b, count),
           new.model \in Models, b[v].model # new.model
    PROVE  LET after == IncrementModelUse(DecrementModelUse(count, b[v].model),
                                          new.model)
           IN /\ after \in [Models -> Nat]
              /\ Counts(c, after)
<1> DEFINE less  == DecrementModelUse(count, b[v].model)
           after == IncrementModelUse(less, new.model)
<1>1. less \in [Models -> Nat]
  BY DEF DecrementModelUse
<1>2. \A m \in Models : less[m] =
          IF m = b[v].model /\ count[m] > 0 THEN count[m] - 1 ELSE count[m]
  BY DEF DecrementModelUse
<1> HIDE DEF less
<1>3. after \in [Models -> Nat]
  BY <1>1 DEF IncrementModelUse
<1>4. \A m \in Models :
          after[m] = IF m = new.model THEN less[m] + 1 ELSE less[m]
  BY DEF IncrementModelUse
<1> HIDE DEF after
<1>5. ASSUME NEW m \in Models
      PROVE  after[m] = Cardinality(Bound(c, m))
  <2>1. count[m] = Cardinality(Bound(b, m)) /\ count[m] \in Nat
    BY DEF Counts
  <2>2. CASE b[v].model = m
    <3>1. Bound(b, m) # {}
      BY <2>2 DEF Bound
    <3>2. count[m] > 0
      BY <2>1, <3>1, BoundIsFinite, FS_EmptySet
    <3>3. after[m] = count[m] - 1
      BY <1>2, <1>4, <2>2, <3>2
    <3> QED BY <2>1, <2>2, <3>3, OneRebound
  <2>3. CASE new.model = m
    <3>1. after[m] = count[m] + 1
      BY <1>2, <1>4, <2>3
    <3> QED BY <2>1, <2>3, <3>1, OneRebound
  <2>4. CASE b[v].model # m /\ new.model # m
    <3>1. after[m] = count[m]
      BY <1>2, <1>4, <2>4
    <3> QED BY <2>1, <2>4, <3>1, OneRebound
  <2> QED BY <2>2, <2>3, <2>4
<1>6. after = IncrementModelUse(DecrementModelUse(count, b[v].model), new.model)
  BY DEF less, after
<1> QED BY <1>3, <1>5, <1>6 DEF Counts
-----------------------------------------------------------------------------
LEMMA MapTypes ==
    ASSUME NEW X, NEW f \in [Cars -> X \cup {None}]
    PROVE  /\ \A S : Erase(f, S) \in [Cars -> X \cup {None}]
           /\ \A c, y \in X \cup {None} : Put(f, c, y) \in [Cars -> X \cup {None}]
BY DEF Erase, Put

LEMMA InitCount == Init => CountInv
<1> SUFFICES ASSUME Init PROVE CountInv
  OBVIOUS
<1>1. NoBinding \in BindingType
  BY DEF NoBinding, BindingType
<1>2. TypeOK
  <2>1. tasks \in Seq(TaskType) /\ draining \in Seq(TaskType)
    BY DEF Init
  <2>2. step \in {"idle", "drain", "process", "end"}
    BY DEF Init
  <2>3. /\ ready \subseteq Models /\ downloaded \subseteq Models
        /\ destructionQueue \subseteq Models /\ pendingClearAll \in BOOLEAN
        /\ previousVehicles \subseteq Cars
        /\ changed \subseteq Cars /\ orphaned \subseteq Cars
        /\ near \subseteq Cars
        /\ draining # <<>> => step = "drain"
    BY DEF Init
  <2>4. /\ pool \in [Ids -> Cars \cup {None}]
        /\ clump \in [Cars -> Models \cup {Own, None}]
        /\ binding \in [Ids -> BindingType]
        /\ index \in [Cars -> Ids \cup {None}]
        /\ fastCol \in [Cars -> Models \cup {None}]
        /\ cache \in [Cars -> Ids \cup {None}]
        /\ useCount \in [Models -> Nat]
    BY <1>1 DEF Init
  <2> QED BY <2>1, <2>2, <2>3, <2>4 DEF TypeOK
<1>3. ASSUME NEW m \in Models PROVE Cardinality(Bound(binding, m)) = 0
  <2>1. Bound(binding, m) = {}
    BY VisualsAssumption DEF Init, Bound, NoBinding
  <2> QED BY <2>1, FS_EmptySet
<1>4. Counts(binding, useCount)
  BY <1>3 DEF Init, Counts
<1> QED BY <1>2, <1>4, CountsDef DEF CountInv

\* Clear: every use goes with its binding.
LEMMA ClearCount ==
    ASSUME CountInv, Clear
    PROVE  /\ binding' \in [Ids -> BindingType]
           /\ index' \in [Cars -> Ids \cup {None}]
           /\ fastCol' \in [Cars -> Models \cup {None}]
           /\ useCount' \in [Models -> Nat]
           /\ orphaned' \subseteq Cars
           /\ Counts(binding', useCount')
           /\ \A v \in Ids : binding'[v].model = None
<1>1. NoBinding \in BindingType /\ NoBinding.model = None
  BY DEF NoBinding, BindingType
<1>2. /\ binding' \in [Ids -> BindingType]
      /\ index' \in [Cars -> Ids \cup {None}]
      /\ fastCol' \in [Cars -> Models \cup {None}]
      /\ orphaned' \subseteq Cars
      /\ \A v \in Ids : binding'[v].model = None
  BY <1>1 DEF Clear, CountInv, TypeOK
<1>3. ASSUME NEW m \in Models
      PROVE  useCount'[m] = 0 /\ Cardinality(Bound(binding', m)) = 0
  <2>1. useCount[m] = Cardinality({v \in Ids : binding[v].model = m})
    BY DEF CountInv, UseCountExact
  <2>2. useCount'[m] = useCount[m] - Cardinality({v \in Ids : binding[v].model = m})
    BY DEF Clear
  <2>3. useCount[m] \in Nat
    BY DEF CountInv, TypeOK
  <2>4. Bound(binding', m) = {}
    BY <1>2, VisualsAssumption DEF Bound
  <2> QED BY <2>1, <2>2, <2>3, <2>4, FS_EmptySet
<1>4. useCount' \in [Models -> Nat]
  <2>1. useCount' = [m \in Models |-> useCount'[m]]
    BY DEF Clear
  <2> QED BY <1>3, <2>1
<1> QED BY <1>2, <1>3, <1>4 DEF Counts

\* A task that runs: Bind or Unbind.
LEMMA BindCount ==
    ASSUME CountInv, NEW v \in Ids, NEW m \in Models, Bind(v, m)
    PROVE  /\ binding' \in [Ids -> BindingType]
           /\ fastCol' \in [Cars -> Models \cup {None}]
           /\ useCount' \in [Models -> Nat]
           /\ orphaned' \subseteq Cars
           /\ Counts(binding', useCount')
<1> DEFINE b == binding[v]
           new == IF b.model \in {m, None}
                  THEN [b EXCEPT !.present = TRUE, !.model = m]
                  ELSE Rebound(b, m)
<1>1. b \in BindingType
  BY DEF CountInv, TypeOK
<1>2. new \in BindingType /\ new.model = m
  BY <1>1 DEF BindingType, Rebound, NoBinding
<1>3. Replaced(binding, binding', v, new)
  BY DEF CountInv, TypeOK, Bind, Replaced
<1>4. binding' \in [Ids -> BindingType]
  BY <1>2 DEF CountInv, TypeOK, Bind
<1>5. fastCol' \in [Cars -> Models \cup {None}]
  BY MapTypes DEF CountInv, TypeOK, Bind, CollisionsAfterBind
<1>6. orphaned' \subseteq Cars
  BY DEF CountInv, TypeOK, Bind
<1>7. Counts(binding, useCount) /\ useCount \in [Models -> Nat]
  BY CountsDef DEF CountInv, TypeOK
<1>8. CASE b.model = m
  <2>1. useCount' = useCount
    BY <1>8 DEF Bind
  <2>2. \A w \in Ids : binding'[w].model = binding[w].model
    BY <1>2, <1>3, <1>8 DEF Replaced
  <2>3. Counts(binding', useCount)
    BY <1>7, <2>2, SameModels
  <2> QED BY <1>4, <1>5, <1>6, <1>7, <2>1, <2>3
<1>9. CASE b.model # m
  <2>1. useCount' = IncrementModelUse(DecrementModelUse(useCount, b.model), m)
    BY <1>9 DEF Bind, UsesAfterBind
  <2> HIDE DEF new
  <2>2. useCount' \in [Models -> Nat] /\ Counts(binding', useCount')
    BY <1>2, <1>3, <1>7, <1>9, <2>1, BindCounts
  <2> QED BY <1>4, <1>5, <1>6, <2>2
<1> QED BY <1>8, <1>9

LEMMA UnbindCount ==
    ASSUME CountInv, NEW v \in Ids, Unbind(v)
    PROVE  /\ binding' \in [Ids -> BindingType]
           /\ clump' \in [Cars -> Models \cup {Own, None}]
           /\ index' \in [Cars -> Ids \cup {None}]
           /\ fastCol' \in [Cars -> Models \cup {None}]
           /\ useCount' \in [Models -> Nat]
           /\ Counts(binding', useCount')
<1>1. NoBinding \in BindingType /\ NoBinding.model = None
  BY DEF NoBinding, BindingType
<1>2. Replaced(binding, binding', v, NoBinding)
  BY DEF CountInv, TypeOK, Unbind, Put, Replaced
<1>3. /\ binding' \in [Ids -> BindingType]
      /\ clump' \in [Cars -> Models \cup {Own, None}]
  BY <1>1 DEF CountInv, TypeOK, Unbind, Put
<1>4. /\ index' \in [Cars -> Ids \cup {None}]
      /\ fastCol' \in [Cars -> Models \cup {None}]
  BY MapTypes DEF CountInv, TypeOK, Unbind
<1>5. Counts(binding, useCount) /\ useCount \in [Models -> Nat]
  BY CountsDef DEF CountInv, TypeOK
<1>6. useCount' = DecrementModelUse(useCount, binding[v].model)
  BY DEF Unbind
<1>7. useCount' \in [Models -> Nat] /\ Counts(binding', useCount')
  BY <1>1, <1>2, <1>5, <1>6, UnbindCounts
<1> QED BY <1>3, <1>4, <1>7

-----------------------------------------------------------------------------
\* The actions that touch no binding's model.
LEMMA KeepsModels ==
    ASSUME CountInv, TypeOK',
           useCount' = useCount,
           \A v \in Ids : binding'[v].model = binding[v].model
    PROVE  CountInv'
<1>1. Counts(binding, useCount)
  BY CountsDef DEF CountInv
<1>2. Counts(binding', useCount')
  BY <1>1, SameModels
<1>3. UseCountExact'
  BY <1>2 DEF UseCountExact, Counts, Bound
<1> QED BY <1>3 DEF CountInv

LEMMA ValidHasId == \A c : Valid(c) => IdOf(c) \in Ids /\ pool[IdOf(c)] = c
BY DEF Valid, IdOf

LEMMA GameStep ==
    ASSUME CountInv,
           \/ \E v \in Ids, c \in Cars : CreateVehicle(v, c)
           \/ \E v \in Ids : DeleteVehicle(v)
           \/ \E c \in Cars : PlayerMoves(c)
    PROVE  CountInv'
<1>1. UNCHANGED <<bindingVars, cache, modelVars, tasks, draining,
                  previousVehicles, step>>
  BY DEF CreateVehicle, DeleteVehicle, PlayerMoves
<1>2. ASSUME NEW v \in Ids, NEW c \in Cars, CreateVehicle(v, c)
      PROVE  TypeOK'
  BY <1>1, <1>2 DEF CountInv, TypeOK, CreateVehicle, Put, bindingVars, modelVars
<1>3. ASSUME NEW v \in Ids, DeleteVehicle(v)
      PROVE  TypeOK'
  <2>1. pool[v] \in Cars
    BY <1>3 DEF CountInv, TypeOK, DeleteVehicle
  <2> QED
    BY <1>1, <1>3, <2>1 DEF CountInv, TypeOK, DeleteVehicle, Put, bindingVars,
                            modelVars
<1>4. ASSUME NEW c \in Cars, PlayerMoves(c)
      PROVE  TypeOK'
  BY <1>1, <1>4 DEF CountInv, TypeOK, PlayerMoves, bindingVars, modelVars
<1>5. TypeOK'
  BY <1>2, <1>3, <1>4
<1> QED BY <1>1, <1>5, KeepsModels DEF bindingVars

LEMMA FindStep ==
    ASSUME CountInv, NEW c \in Cars, FindByVehicle(c)
    PROVE  CountInv'
<1> DEFINE v == GetVehicleSAMPId(c)
<1>1. v \in Ids
  BY ValidHasId DEF FindByVehicle, GetVehicleSAMPId, CountInv, TypeOK
<1>2. UNCHANGED <<gameVars, clump, fastCol, useCount, modelVars, frameVars,
                  orphaned>>
  BY DEF FindByVehicle
<1>3. cache' = Put(cache, c, v)
  BY DEF FindByVehicle
<1>4. binding[v] \in BindingType
  BY <1>1 DEF CountInv, TypeOK
<1>5. CASE binding[v].present
  <2> DEFINE new == [binding[v] EXCEPT
                        !.applied = c,
                        !.modelApplied = @ /\ binding[v].applied = c]
  <2>1. /\ index' = Put(Erase(index, {binding[v].applied} \ {c}), c, v)
        /\ binding' = [binding EXCEPT ![v] = new]
    BY <1>5 DEF FindByVehicle
  <2>2. new \in BindingType /\ new.model = binding[v].model
    BY <1>4 DEF BindingType
  <2> HIDE DEF new, v
  <2>3. binding' \in [Ids -> BindingType]
    BY <1>1, <2>1, <2>2 DEF CountInv, TypeOK
  <2>4. index' \in [Cars -> Ids \cup {None}]
    <3>1. Erase(index, {binding[v].applied} \ {c}) \in [Cars -> Ids \cup {None}]
      BY MapTypes DEF CountInv, TypeOK
    <3> QED BY <1>1, <2>1, <3>1 DEF Put
  <2>5. \A w \in Ids : binding'[w].model = binding[w].model
    BY <1>1, <2>1, <2>2 DEF CountInv, TypeOK
  <2>6. TypeOK'
    BY <1>1, <1>2, <1>3, <2>3, <2>4
       DEF CountInv, TypeOK, Put, gameVars, modelVars, frameVars
  <2> QED BY <1>2, <2>5, <2>6, KeepsModels
<1>6. CASE ~binding[v].present
  <2>1. index' = Put(index, c, None) /\ binding' = binding
    BY <1>6 DEF FindByVehicle
  <2> HIDE DEF v
  <2>2. TypeOK'
    BY <1>1, <1>2, <1>3, <2>1
       DEF CountInv, TypeOK, Put, gameVars, modelVars, frameVars
  <2> QED BY <1>2, <2>1, <2>2, KeepsModels
<1> QED BY <1>5, <1>6

LEMMA ReceiveStep ==
    ASSUME CountInv,
           \/ \E v \in Ids, m \in Models : ReceiveBind(v, m)
           \/ \E v \in Ids : ReceiveUnbind(v)
           \/ \E m \in Models : Downloaded(m) \/ PushDestructionCommand(m)
    PROVE  CountInv'
<1>1. UNCHANGED <<gameVars, clump, bindingVars, cache, draining,
                  previousVehicles, step, changed, orphaned>>
  BY DEF ReceiveBind, ReceiveUnbind, Downloaded, PushDestructionCommand,
         modelVars, frameVars
<1>2. tasks' \in Seq(TaskType)
  <2>1. ASSUME NEW v \in Ids, NEW m \in Models, ReceiveBind(v, m)
        PROVE  tasks' \in Seq(TaskType)
    <3>1. [type |-> "Bind", vehicle |-> v, model |-> m] \in TaskType
      BY DEF TaskType
    <3> QED BY <2>1, <3>1 DEF CountInv, TypeOK, ReceiveBind
  <2>2. ASSUME NEW v \in Ids, ReceiveUnbind(v)
        PROVE  tasks' \in Seq(TaskType)
    <3>1. [type |-> "Unbind", vehicle |-> v] \in TaskType
      BY DEF TaskType
    <3> QED BY <2>2, <3>1 DEF CountInv, TypeOK, ReceiveUnbind
  <2>3. ASSUME NEW m \in Models, Downloaded(m) \/ PushDestructionCommand(m)
        PROVE  tasks' \in Seq(TaskType)
    BY <2>3 DEF CountInv, TypeOK, Downloaded, PushDestructionCommand, frameVars
  <2> QED BY <2>1, <2>2, <2>3
<1>3. /\ ready' \subseteq Models /\ downloaded' \subseteq Models
      /\ destructionQueue' \subseteq Models /\ pendingClearAll' \in BOOLEAN
  BY DEF CountInv, TypeOK, ReceiveBind, ReceiveUnbind, Downloaded,
         PushDestructionCommand, modelVars
<1>4. TypeOK'
  BY <1>1, <1>2, <1>3 DEF CountInv, TypeOK, gameVars, bindingVars
<1> QED BY <1>1, <1>4, KeepsModels DEF bindingVars

LEMMA AttributeStep ==
    ASSUME CountInv, NEW v \in Ids, ReceiveAttribute(v)
    PROVE  CountInv'
<1> DEFINE new == [binding[v] EXCEPT !.present = TRUE]
<1>1. new \in BindingType /\ new.model = binding[v].model
  <2>1. binding[v] \in BindingType
    BY DEF CountInv, TypeOK
  <2> QED BY <2>1 DEF BindingType
<1>2. binding' = [binding EXCEPT ![v] = new]
  BY DEF ReceiveAttribute
<1> HIDE DEF new
<1>3. UNCHANGED <<gameVars, clump, index, fastCol, useCount, cache, modelVars,
                  frameVars, orphaned>>
  BY DEF ReceiveAttribute
<1>4. TypeOK'
  BY <1>1, <1>2, <1>3 DEF CountInv, TypeOK, gameVars, modelVars, frameVars
<1>5. \A w \in Ids : binding'[w].model = binding[w].model
  BY <1>1, <1>2 DEF CountInv, TypeOK
<1> QED BY <1>3, <1>4, <1>5, KeepsModels

LEMMA ResetStep ==
    ASSUME CountInv, NEW session \in BOOLEAN, ResetAll(session)
    PROVE  CountInv'
<1>1. UNCHANGED <<gameVars, clump, cache, ready, destructionQueue, frameVars>>
  BY DEF ResetAll
<1>2. downloaded' \subseteq Models /\ pendingClearAll' \in BOOLEAN
  BY DEF ResetAll, CountInv, TypeOK
<1>3. Clear
  BY DEF ResetAll
<1>4. TypeOK'
  BY <1>1, <1>2, <1>3, ClearCount DEF CountInv, TypeOK, gameVars, frameVars
<1>5. Counts(binding', useCount')
  BY <1>3, ClearCount
<1> QED BY <1>4, <1>5 DEF CountInv, UseCountExact, Counts, Bound

LEMMA BeginStep ==
    ASSUME CountInv, BeginFrame
    PROVE  CountInv'
<1>1. TypeOK'
  BY DEF BeginFrame, CountInv, TypeOK, gameVars, bindingVars, modelVars
<1> QED BY <1>1, KeepsModels DEF BeginFrame, bindingVars

LEMMA TaskStep ==
    ASSUME CountInv, RunTask
    PROVE  CountInv'
<1> DEFINE task == Head(draining)
<1>1. /\ task \in TaskType
      /\ draining' \in Seq(TaskType)
      /\ step = "drain"
  BY DEF RunTask, CountInv, TypeOK
<1>2. UNCHANGED <<gameVars, cache, modelVars, tasks, previousVehicles, step,
                  changed>>
  BY DEF RunTask
<1>3. CASE task.type = "Bind"
  <2>1. Bind(task.vehicle, task.model)
    BY <1>3 DEF RunTask
  <2>2. task.vehicle \in Ids /\ task.model \in Models
    BY <1>1, <1>3 DEF TaskType
  <2> HIDE DEF task
  <2>3. UNCHANGED <<index, clump>>
    BY <2>1 DEF Bind
  <2>4. TypeOK'
    BY <1>1, <1>2, <2>1, <2>2, <2>3, BindCount
       DEF CountInv, TypeOK, gameVars, modelVars
  <2>5. Counts(binding', useCount')
    BY <2>1, <2>2, BindCount
  <2> QED BY <2>4, <2>5 DEF CountInv, UseCountExact, Counts, Bound
<1>4. CASE task.type # "Bind"
  <2>1. Unbind(task.vehicle)
    BY <1>4 DEF RunTask
  <2>2. task.vehicle \in Ids
    BY <1>1, <1>4 DEF TaskType
  <2> HIDE DEF task
  <2>3. UNCHANGED orphaned
    BY <2>1 DEF Unbind
  <2>4. TypeOK'
    BY <1>1, <1>2, <2>1, <2>2, <2>3, UnbindCount
       DEF CountInv, TypeOK, gameVars, modelVars
  <2>5. Counts(binding', useCount')
    BY <2>1, <2>2, UnbindCount
  <2> QED BY <2>4, <2>5 DEF CountInv, UseCountExact, Counts, Bound
<1> QED BY <1>3, <1>4

LEMMA FinalizeStep ==
    ASSUME CountInv, NEW spawned \in BOOLEAN, ClearAndFinalize(spawned)
    PROVE  CountInv'
<1>1. UNCHANGED <<gameVars, clump, cache, destructionQueue, tasks, draining,
                  previousVehicles, changed>>
  BY DEF ClearAndFinalize
<1>2. /\ ready' \subseteq Models /\ downloaded' \subseteq Models
      /\ pendingClearAll' \in BOOLEAN
      /\ step' = "process" /\ draining = <<>>
  BY DEF ClearAndFinalize, Drained, CountInv, TypeOK
<1>3. CASE pendingClearAll
  <2>1. Clear
    BY <1>3 DEF ClearAndFinalize
  <2>2. TypeOK'
    BY <1>1, <1>2, <2>1, ClearCount DEF CountInv, TypeOK, gameVars
  <2>3. Counts(binding', useCount')
    BY <2>1, ClearCount
  <2> QED BY <2>2, <2>3 DEF CountInv, UseCountExact, Counts, Bound
<1>4. CASE ~pendingClearAll
  <2>1. UNCHANGED <<bindingVars, orphaned>>
    BY <1>4 DEF ClearAndFinalize
  <2>2. TypeOK'
    BY <1>1, <1>2, <2>1 DEF CountInv, TypeOK, gameVars, bindingVars
  <2> QED BY <2>1, <2>2, KeepsModels DEF bindingVars
<1> QED BY <1>3, <1>4

LEMMA ProcessStep ==
    ASSUME CountInv, Process
    PROVE  CountInv'
<1>1. UNCHANGED <<gameVars, useCount, cache, modelVars, tasks, draining,
                  previousVehicles, changed>>
  BY DEF Process
<1>2. ASSUME NEW v \in Ids
      PROVE  /\ binding'[v] \in BindingType
             /\ binding'[v].model = binding[v].model
  <2>1. binding[v] \in BindingType /\ pool[v] \in Cars \cup {None}
    BY DEF CountInv, TypeOK
  <2>2. CASE v \in Lost
    <3>1. binding'[v] = [binding[v] EXCEPT !.applied = None,
                                           !.modelApplied = FALSE]
      BY <2>2 DEF Process
    <3> QED BY <2>1, <3>1 DEF BindingType
  <2>3. CASE v \notin Lost /\ v \in Applied
    <3>1. binding'[v] = [binding[v] EXCEPT !.applied = pool[v],
                                           !.modelApplied = TRUE]
      BY <2>3 DEF Process
    <3> QED BY <2>1, <3>1 DEF BindingType
  <2>4. CASE v \notin Lost /\ v \notin Applied
    <3>1. binding'[v] = binding[v]
      BY <2>4 DEF Process
    <3> QED BY <2>1, <3>1
  <2> QED BY <2>2, <2>3, <2>4
<1>3. binding' \in [Ids -> BindingType]
  <2>1. binding' = [v \in Ids |-> binding'[v]]
    BY DEF Process
  <2> QED BY <1>2, <2>1
<1>4. \A c : ToApply(c) => IdOf(c) \in Ids
  BY ValidHasId DEF ToApply, Applied, Valid
<1>5. ASSUME NEW c \in Cars, ToApply(c)
      PROVE  binding[IdOf(c)].model \in Models \cup {None}
  BY <1>4, <1>5 DEF CountInv, TypeOK, BindingType
<1>6. /\ clump' \in [Cars -> Models \cup {Own, None}]
      /\ fastCol' \in [Cars -> Models \cup {None}]
  BY <1>5 DEF Process, CountInv, TypeOK
<1>7. index' \in [Cars -> Ids \cup {None}]
  BY <1>4 DEF Process, CountInv, TypeOK
<1>8. orphaned' \subseteq Cars
  BY DEF Process, CountInv, TypeOK
<1>9. step = "process" /\ step' = "end"
  BY DEF Process
<1>10. TypeOK'
  BY <1>1, <1>3, <1>6, <1>7, <1>8, <1>9 DEF CountInv, TypeOK, gameVars, modelVars
<1> QED BY <1>1, <1>2, <1>10, KeepsModels

LEMMA EndStep ==
    ASSUME CountInv, NEW spawned \in BOOLEAN, EndFrame(spawned)
    PROVE  CountInv'
<1>1. UNCHANGED <<gameVars, clump, downloaded, tasks, draining>>
  BY DEF EndFrame
<1>2. /\ ready' \subseteq Models /\ destructionQueue' \subseteq Models
      /\ pendingClearAll' \in BOOLEAN
      /\ previousVehicles' \subseteq Cars /\ changed' \subseteq Cars
      /\ step = "end" /\ step' = "idle"
  BY DEF EndFrame, CurrentVehicles, CountInv, TypeOK
<1>3. cache' \in [Cars -> Ids \cup {None}]
  BY ValidHasId DEF EndFrame, Arrived, CurrentVehicles, CountInv, TypeOK
<1>4. CASE pendingClearAll
  <2>1. Clear
    BY <1>4 DEF EndFrame
  <2>2. TypeOK'
    BY <1>1, <1>2, <1>3, <2>1, ClearCount DEF CountInv, TypeOK, gameVars
  <2>3. Counts(binding', useCount')
    BY <2>1, ClearCount
  <2> QED BY <2>2, <2>3 DEF CountInv, UseCountExact, Counts, Bound
<1>5. CASE ~pendingClearAll
  <2>1. /\ index' = Erase(index, Departed) /\ fastCol' = Erase(fastCol, Departed)
        /\ orphaned' = orphaned \cup {c \in Departed : clump[c] \in Models}
        /\ useCount' = useCount
    BY <1>5 DEF EndFrame
  <2>2. /\ index' \in [Cars -> Ids \cup {None}]
        /\ fastCol' \in [Cars -> Models \cup {None}]
        /\ orphaned' \subseteq Cars
    BY <2>1, MapTypes DEF CountInv, TypeOK, Departed
  <2>3. ASSUME NEW v \in Ids
        PROVE  /\ binding'[v] \in BindingType
               /\ binding'[v].model = binding[v].model
    <3>1. binding[v] \in BindingType
      BY DEF CountInv, TypeOK
    <3>2. \/ binding'[v] = binding[v]
          \/ binding'[v] = [binding[v] EXCEPT !.applied = None,
                                              !.modelApplied = FALSE]
      BY <1>5 DEF EndFrame
    <3> QED BY <3>1, <3>2 DEF BindingType
  <2>4. binding' \in [Ids -> BindingType]
    <3>1. binding' = [v \in Ids |-> binding'[v]]
      BY <1>5 DEF EndFrame
    <3> QED BY <2>3, <3>1
  <2>5. TypeOK'
    BY <1>1, <1>2, <1>3, <2>1, <2>2, <2>4 DEF CountInv, TypeOK, gameVars
  <2> QED BY <2>1, <2>3, <2>5, KeepsModels
<1> QED BY <1>4, <1>5

LEMMA CountStep == CountInv /\ [Next]_vars => CountInv'
<1> SUFFICES ASSUME CountInv, [Next]_vars PROVE CountInv'
  OBVIOUS
<1>1. CASE UNCHANGED vars
  <2>1. TypeOK'
    BY <1>1 DEF CountInv, TypeOK, vars, gameVars, bindingVars, modelVars, frameVars
  <2> QED BY <1>1, <2>1, KeepsModels DEF vars, bindingVars
<1>2. CASE Next
  BY <1>2, GameStep, FindStep, ReceiveStep, AttributeStep, ResetStep, BeginStep,
     TaskStep, FinalizeStep, ProcessStep, EndStep DEF Next, Frame
<1> QED BY <1>1, <1>2

-----------------------------------------------------------------------------
\* The inductive invariant holds in every state: all the types, and the exact
\* use counts of UseBinding and UnuseBinding they rest on.
THEOREM CountCorrect == Spec => []CountInv
BY InitCount, CountStep, PTL DEF Spec

\* The bindings, the maps of addresses, the counts and the queues of the
\* client's frame stay well typed: a count is never taken below zero
\* (DecrementModelUse, CustomVehicleBindingManager::Clear).
THEOREM TypeCorrect == Spec => []TypeOK
<1>1. CountInv => TypeOK
  BY DEF CountInv
<1> QED BY <1>1, CountCorrect, PTL

\* A model's use count is the number of vehicles bound to it, whatever binds,
\* unbinds, attributes and resets led there (Bind, Unbind, Clear).
THEOREM UseCountsCorrect == Spec => []UseCountExact
<1>1. CountInv => UseCountExact
  BY DEF CountInv
<1> QED BY <1>1, CountCorrect, PTL

\* ProcessPendingDestructions frees no model to which a vehicle is bound, and
\* a clear-all leaves none bound to what it frees.
THEOREM DestructionCorrect == Spec => BoundNotDestroyed
<1> DEFINE Kept == \A m \in ready \ ready' : \A v \in Ids : binding'[v].model # m
<1>1. CountInv /\ [Next]_vars => [Kept]_vars
  <2> SUFFICES ASSUME CountInv, Next, NEW m \in ready, m \notin ready', NEW v \in Ids
               PROVE  binding'[v].model # m
    OBVIOUS
  <2>1. m \in Models /\ m # None
    BY VisualsAssumption DEF CountInv, TypeOK
  <2>2. CASE pendingClearAll /\ Clear
    BY <2>1, <2>2, ClearCount
  <2>3. ASSUME NEW spawned \in BOOLEAN, ClearAndFinalize(spawned), ~pendingClearAll
        PROVE  FALSE
    BY <2>3 DEF ClearAndFinalize
  <2>4. ASSUME NEW spawned \in BOOLEAN, EndFrame(spawned), ~pendingClearAll
        PROVE  binding'[v].model # m
    <3>1. ~InUse(m)
      BY <2>4 DEF EndFrame
    <3>2. useCount[m] = Cardinality(Bound(binding, m)) /\ useCount[m] \in Nat
      BY <2>1 DEF CountInv, TypeOK, UseCountExact, Bound
    <3>3. Bound(binding, m) = {}
      BY <3>1, <3>2, BoundIsFinite, FS_EmptySet DEF InUse
    <3>4. binding[v].model # m
      BY <3>3 DEF Bound
    <3>5. binding[v] \in BindingType
      BY DEF CountInv, TypeOK
    <3>6. \/ binding'[v] = binding[v]
          \/ binding'[v] = [binding[v] EXCEPT !.applied = None,
                                              !.modelApplied = FALSE]
      BY <2>4 DEF EndFrame
    <3> QED BY <3>4, <3>5, <3>6 DEF BindingType
  <2>5. \/ ready' = ready
        \/ \E spawned \in BOOLEAN : ClearAndFinalize(spawned) \/ EndFrame(spawned)
    BY DEF Next, Frame, CreateVehicle, DeleteVehicle, PlayerMoves, FindByVehicle,
           ReceiveBind, ReceiveUnbind, ReceiveAttribute, Downloaded,
           PushDestructionCommand, ResetAll, BeginFrame, RunTask, Process, modelVars
  <2>6. \A spawned \in BOOLEAN :
            (ClearAndFinalize(spawned) \/ EndFrame(spawned)) /\ pendingClearAll
            => Clear
    BY DEF ClearAndFinalize, EndFrame
  <2> QED BY <2>2, <2>3, <2>4, <2>5, <2>6
<1> QED BY <1>1, CountCorrect, PTL DEF Spec, BoundNotDestroyed

-----------------------------------------------------------------------------
(* The maps that go by addresses.  What is proved of them is what the runs  *)
(* check: no address is taken, freed or approached twice between two        *)
(* frames, and no vehicle is deleted far away.                              *)

Calm == SameFrame = FALSE /\ DeletedFar = FALSE

\* An address whose vehicle has gone since the last frame: the end of the
\* next one forgets what the maps have of it.
Stale(c) == ~Valid(c) /\ c \in previousVehicles

\* A vehicle has an address of its own, and what differs from the last frame
\* is known to have changed.
Places ==
    /\ \A v, w \in Ids : pool[v] = pool[w] /\ pool[v] # None => v = w
    /\ \A c \in near : Valid(c)
    /\ \A c \in Cars : c \in near <=> ~(c \in previousVehicles <=> c \in changed)

\* A map leads from an address to its vehicle.
Addressed(map) ==
    \A c \in Cars : map[c] # None => pool[map[c]] = c \/ Stale(c)

\* An entry that is applied is in the index, and its vehicle shows its model.
Entries ==
    \A v \in Ids :
        /\ binding[v].model # None => binding[v].present
        /\ binding[v].applied # None =>
               binding[v].present /\ index[binding[v].applied] = v
        /\ binding[v].modelApplied =>
               /\ binding[v].applied # None /\ binding[v].model # None
               /\ pool[v] = binding[v].applied =>
                      clump[pool[v]] = binding[v].model

\* A collision is that of the model a vehicle is bound to and shows.
Collides(c, v) ==
    /\ pool[v] = c /\ binding[v].applied = c
    /\ binding[v].model = fastCol[c] /\ clump[c] = fastCol[c]
Collisions ==
    \A c \in Cars : fastCol[c] # None =>
        fastCol[c] \in ready /\ (Stale(c) \/ \E v \in Ids : Collides(c, v))

\* A vehicle shows a custom model because its entry was applied to it.
Shown ==
    \A v \in Ids : pool[v] # None /\ clump[pool[v]] \in Models
                   /\ pool[v] \notin orphaned =>
        binding[v].modelApplied /\ binding[v].applied = pool[v]

MapInv ==
    /\ Places /\ Addressed(cache) /\ Addressed(index) /\ Entries
    /\ Collisions /\ Shown

LEMMA MapInit == Init => MapInv
<1> SUFFICES ASSUME Init PROVE MapInv
  OBVIOUS
<1>1. NoBinding.applied = None /\ NoBinding.modelApplied = FALSE /\ NoBinding.model = None
  BY DEF NoBinding
<1>2. \A v \in Ids : pool[v] = None /\ binding[v] = NoBinding
  BY DEF Init
<1>3. \A c \in Cars : index[c] = None /\ cache[c] = None /\ fastCol[c] = None
  BY DEF Init
<1>4. near = {} /\ previousVehicles = {} /\ changed = {}
  BY DEF Init
<1> QED BY <1>1, <1>2, <1>3, <1>4
        DEF MapInv, Places, Addressed, Entries, Collisions, Shown

LEMMA OneId ==
  ASSUME TypeOK, Places, NEW v \in Ids, pool[v] # None
  PROVE  pool[v] \in Cars /\ Valid(pool[v]) /\ IdOf(pool[v]) = v
<1>1. Valid(pool[v]) /\ pool[v] \in Cars
  BY DEF Valid, TypeOK
<1>2. IdOf(pool[v]) \in Ids /\ pool[IdOf(pool[v])] = pool[v]
  BY <1>1, ValidHasId
<1> QED BY <1>1, <1>2 DEF Places

\* GetVehicleSAMPId is right about a vehicle that is there.
LEMMA KnowsId ==
  ASSUME TypeOK, Addressed(cache), NEW c \in Cars, Valid(c)
  PROVE  GetVehicleSAMPId(c) \in Ids /\ pool[GetVehicleSAMPId(c)] = c
<1>1. cache[c] # None => cache[c] \in Ids /\ pool[cache[c]] = c
  BY DEF TypeOK, Addressed, Stale
<1> QED BY <1>1, ValidHasId DEF GetVehicleSAMPId

LEMMA CreateMaps ==
  ASSUME Calm, TypeOK, MapInv, NEW v \in Ids, NEW c \in Cars, CreateVehicle(v, c)
  PROVE  MapInv'
<1>1. /\ pool[v] = None /\ c # None /\ \A w \in Ids : pool[w] # c
      /\ c \notin changed /\ c \notin near /\ c \notin previousVehicles
  <2>1. pool[v] = None /\ ~Valid(c) /\ c \notin changed
    BY DEF CreateVehicle, Calm
  <2>2. c \notin near
    BY <2>1 DEF MapInv, Places
  <2> QED BY <2>1, <2>2, VisualsAssumption DEF MapInv, Places, Valid
<1>2. /\ \A w \in Ids : pool'[w] = IF w = v THEN c ELSE pool[w]
      /\ near' = near \cup {c} /\ changed' = changed \cup {c}
      /\ \A d \in Cars : clump'[d] = IF d = c THEN Own ELSE clump[d]
      /\ UNCHANGED <<binding, index, fastCol, cache, ready, previousVehicles, orphaned>>
  BY DEF CreateVehicle, Put, TypeOK, bindingVars, modelVars
<1>3. \A d \in Cars : Valid(d)' <=> d = c \/ Valid(d)
  BY <1>1, <1>2, VisualsAssumption DEF Valid
<1>4. \A d \in Cars : Stale(d)' <=> Stale(d)
  BY <1>1, <1>2, <1>3 DEF Stale
<1>5. Places'
  <2>1. \A d \in near' : Valid(d)'
    BY <1>2, <1>3 DEF MapInv, Places, TypeOK
  <2>2. \A x, y \in Ids : pool'[x] = pool'[y] /\ pool'[x] # None => x = y
    BY <1>1, <1>2 DEF MapInv, Places
  <2>3. \A d \in Cars : d \in near' <=> ~(d \in previousVehicles' <=> d \in changed')
    BY <1>1, <1>2 DEF MapInv, Places
  <2> QED BY <2>1, <2>2, <2>3 DEF Places
<1>6. /\ \A d \in Cars : cache[d] \in Ids \cup {None} /\ index[d] \in Ids \cup {None}
      /\ \A w \in Ids : binding[w].applied \in Cars \cup {None} /\ pool[w] \in Cars \cup {None}
      /\ None \notin Cars
  BY VisualsAssumption DEF TypeOK, BindingType
<1>7. Addressed(cache)' /\ Addressed(index)'
  BY <1>1, <1>2, <1>4, <1>6 DEF MapInv, Addressed
<1>8. Entries'
  <2>1. binding[v].applied # c
    <3>1. index[c] # v
      BY <1>1, <1>6, VisualsAssumption DEF MapInv, Addressed, Stale
    <3> QED BY <1>1, <3>1 DEF MapInv, Entries
  <2>2. ASSUME NEW w \in Ids, binding[w].modelApplied, pool'[w] = binding[w].applied
        PROVE  clump'[pool'[w]] = binding[w].model
    <3>1. w # v
      BY <1>2, <2>1, <2>2
    <3>2. pool'[w] = pool[w] /\ pool[w] # c /\ pool[w] # None
      BY <1>1, <1>2, <2>2, <3>1 DEF MapInv, Entries
    <3>3. clump'[pool[w]] = clump[pool[w]]
      BY <1>2, <1>6, <3>2
    <3> QED BY <2>2, <3>2, <3>3 DEF MapInv, Entries
  <2> QED BY <1>2, <2>2 DEF MapInv, Entries
<1>9. Collisions'
  <2>1. ASSUME NEW d \in Cars, NEW w \in Ids, Collides(d, w)
        PROVE  Collides(d, w)'
    BY <1>1, <1>2, <1>6, <2>1 DEF Collides
  <2> QED BY <1>2, <1>4, <2>1 DEF MapInv, Collisions
<1>10. Shown'
  <2>1. ASSUME NEW w \in Ids, pool'[w] # None, clump'[pool'[w]] \in Models,
               pool'[w] \notin orphaned
        PROVE  binding[w].modelApplied /\ binding[w].applied = pool'[w]
    <3>1. w # v
      BY <1>2, <2>1, VisualsAssumption
    <3>2. pool'[w] = pool[w] /\ pool[w] # c /\ clump'[pool[w]] = clump[pool[w]]
      BY <1>1, <1>2, <1>6, <2>1, <3>1
    <3> QED BY <2>1, <3>2 DEF MapInv, Shown
  <2> QED BY <1>2, <2>1 DEF Shown
<1> QED BY <1>5, <1>7, <1>8, <1>9, <1>10 DEF MapInv

LEMMA DeleteMaps ==
  ASSUME Calm, TypeOK, MapInv, NEW v \in Ids, DeleteVehicle(v)
  PROVE  MapInv'
<1> DEFINE c == pool[v]
<1>1. /\ c # None /\ c \in Cars /\ \A w \in Ids : w # v => pool[w] # c
      /\ c \notin changed /\ c \in near /\ c \in previousVehicles
  <2>1. c # None /\ c \notin changed /\ c \in near
    BY DEF DeleteVehicle, Calm
  <2>2. c \in Cars
    BY <2>1 DEF TypeOK
  <2> QED BY <2>1, <2>2 DEF MapInv, Places
<1>2. /\ \A w \in Ids : pool'[w] = IF w = v THEN None ELSE pool[w]
      /\ near' = near \ {c} /\ changed' = changed \cup {c}
      /\ \A d \in Cars : d # c => clump'[d] = clump[d]
      /\ orphaned' = orphaned \ {c}
      /\ UNCHANGED <<binding, index, fastCol, cache, ready, previousVehicles>>
  BY <1>1 DEF DeleteVehicle, Put, TypeOK, bindingVars, modelVars
<1> HIDE DEF c
<1>3. \A d \in Cars : Valid(d)' <=> d # c /\ Valid(d)
  <2>1. None \notin Cars /\ c = pool[v]
    BY VisualsAssumption DEF c
  <2> QED BY <1>1, <1>2, <2>1 DEF Valid
<1>4. \A d \in Cars : Stale(d)' <=> d = c \/ Stale(d)
  BY <1>1, <1>2, <1>3 DEF Stale
<1>5. Places'
  <2>1. \A d \in near' : Valid(d)'
    BY <1>2, <1>3 DEF MapInv, Places, TypeOK
  <2>2. \A x, y \in Ids : pool'[x] = pool'[y] /\ pool'[x] # None => x = y
    BY <1>2 DEF MapInv, Places
  <2>3. \A d \in Cars : d \in near' <=> ~(d \in previousVehicles' <=> d \in changed')
    BY <1>1, <1>2 DEF MapInv, Places
  <2> QED BY <2>1, <2>2, <2>3 DEF Places
<1>6. /\ \A d \in Cars : cache[d] \in Ids \cup {None} /\ index[d] \in Ids \cup {None}
      /\ \A w \in Ids : binding[w].applied \in Cars \cup {None} /\ pool[w] \in Cars \cup {None}
      /\ None \notin Cars /\ c = pool[v]
  BY VisualsAssumption DEF TypeOK, BindingType, c
<1>7. Addressed(cache)' /\ Addressed(index)'
  BY <1>1, <1>2, <1>4, <1>6 DEF MapInv, Addressed
<1>8. Entries'
  <2>2. ASSUME NEW w \in Ids, binding[w].modelApplied, pool'[w] = binding[w].applied
        PROVE  clump'[pool'[w]] = binding[w].model
    <3>1. w # v /\ pool[w] # None
      BY <1>2, <2>2 DEF MapInv, Entries
    <3>2. pool'[w] = pool[w] /\ pool[w] # c
      BY <1>1, <1>2, <3>1
    <3>3. clump'[pool[w]] = clump[pool[w]]
      BY <1>2, <1>6, <3>1, <3>2
    <3> QED BY <2>2, <3>2, <3>3 DEF MapInv, Entries
  <2> QED BY <1>2, <2>2 DEF MapInv, Entries
<1>9. Collisions'
  <2>1. ASSUME NEW d \in Cars, NEW w \in Ids, Collides(d, w), d # c
        PROVE  Collides(d, w)'
    BY <1>1, <1>2, <1>6, <2>1 DEF Collides
  <2> QED BY <1>2, <1>4, <2>1 DEF MapInv, Collisions
<1>10. Shown'
  <2>1. ASSUME NEW w \in Ids, pool'[w] # None, clump'[pool'[w]] \in Models,
               pool'[w] \notin orphaned'
        PROVE  binding[w].modelApplied /\ binding[w].applied = pool'[w]
    <3>1. w # v
      BY <1>2, <2>1
    <3>2. pool'[w] = pool[w] /\ pool[w] # c /\ clump'[pool[w]] = clump[pool[w]]
      BY <1>1, <1>2, <1>6, <2>1, <3>1
    <3> QED BY <1>2, <2>1, <3>2 DEF MapInv, Shown
  <2> QED BY <1>2, <2>1 DEF Shown
<1> QED BY <1>5, <1>7, <1>8, <1>9, <1>10 DEF MapInv

LEMMA MoveMaps ==
  ASSUME Calm, TypeOK, MapInv, NEW c \in Cars, PlayerMoves(c)
  PROVE  MapInv'
<1>1. /\ Valid(c) /\ c \notin changed /\ changed' = changed \cup {c}
      /\ near' = IF c \in near THEN near \ {c} ELSE near \cup {c}
      /\ UNCHANGED <<pool, clump, binding, index, fastCol, cache, ready,
                     previousVehicles, orphaned>>
  BY DEF PlayerMoves, Calm, bindingVars, modelVars
<1>2. \A d : (Valid(d)' <=> Valid(d)) /\ (Stale(d)' <=> Stale(d))
  BY <1>1 DEF Valid, Stale
<1>3. Places'
  BY <1>1, <1>2 DEF MapInv, Places
<1> QED BY <1>1, <1>2, <1>3
        DEF MapInv, Addressed, Entries, Collisions, Collides, Shown

\* A hook finds an entry for a vehicle that the index does not know.
LEMMA FindMaps ==
  ASSUME TypeOK, MapInv, NEW c \in Cars, FindByVehicle(c)
  PROVE  MapInv'
<1> DEFINE v == GetVehicleSAMPId(c)
           old == binding[v].applied
<1>1. /\ Valid(c) /\ ~IndexHit(c) /\ cache' = Put(cache, c, v)
      /\ UNCHANGED <<pool, near, clump, fastCol, ready, previousVehicles, changed, orphaned>>
  BY DEF FindByVehicle, gameVars, modelVars, frameVars
<1>2. v \in Ids /\ pool[v] = c
  BY <1>1, KnowsId DEF MapInv
<1>3. c # None /\ \A w \in Ids : binding[w].applied # c
  BY <1>1, VisualsAssumption DEF IndexHit, MapInv, Entries
<1>4. /\ \A w \in Ids : w # v => binding'[w] = binding[w]
      /\ \A d \in Cars : cache'[d] = IF d = c THEN v ELSE cache[d]
      /\ \/ /\ binding[v].present
            /\ binding'[v].present = binding[v].present /\ binding'[v].applied = c
            /\ binding'[v].modelApplied = FALSE
            /\ binding'[v].model = binding[v].model
            /\ \A d \in Cars : index'[d] = IF d = c THEN v
                                           ELSE IF d = old THEN None ELSE index[d]
         \/ /\ binding'[v] = binding[v]
            /\ \A d \in Cars : index'[d] = IF d = c THEN None ELSE index[d]
  <2>1. binding[v] \in BindingType /\ binding \in [Ids -> BindingType]
    BY <1>2 DEF TypeOK
  <2>2. cache \in [Cars -> Ids \cup {None}] /\ index \in [Cars -> Ids \cup {None}]
    BY DEF TypeOK
  <2>3. \A d \in Cars : cache'[d] = IF d = c THEN v ELSE cache[d]
    BY <1>1, <2>2 DEF Put
  <2>4. CASE binding[v].present
    <3> DEFINE new == [binding[v] EXCEPT !.applied = c, !.modelApplied = @ /\ old = c]
    <3>1. /\ index' = Put(Erase(index, {old} \ {c}), c, v)
          /\ binding' = [binding EXCEPT ![v] = new]
      BY <2>4 DEF FindByVehicle
    <3>2. /\ new.present = binding[v].present /\ new.applied = c
          /\ new.modelApplied = FALSE /\ new.model = binding[v].model
      BY <1>2, <1>3, <2>1 DEF BindingType
    <3>3. \A d \in Cars : index'[d] = IF d = c THEN v
                                      ELSE IF d = old THEN None ELSE index[d]
      BY <2>2, <3>1 DEF Put, Erase
    <3> HIDE DEF new, v, old
    <3>4. binding'[v] = new /\ \A w \in Ids : w # v => binding'[w] = binding[w]
      BY <1>2, <2>1, <3>1
    <3> QED BY <2>3, <2>4, <3>2, <3>3, <3>4
  <2>5. CASE ~binding[v].present
    <3>1. index' = Put(index, c, None) /\ binding' = binding
      BY <2>5 DEF FindByVehicle
    <3> HIDE DEF v, old
    <3> QED BY <2>2, <2>3, <3>1 DEF Put
  <2> QED BY <2>4, <2>5
<1> HIDE DEF v, old
<1>5. \A d : (Valid(d)' <=> Valid(d)) /\ (Stale(d)' <=> Stale(d))
  BY <1>1 DEF Valid, Stale
<1>6. Places'
  BY <1>1, <1>5 DEF MapInv, Places
<1>7. Addressed(cache)'
  BY <1>1, <1>2, <1>4, <1>5 DEF MapInv, Addressed
<1>8. Addressed(index)'
  BY <1>1, <1>2, <1>4, <1>5 DEF MapInv, Addressed
<1>9. Entries'
  <2>1. ASSUME NEW w \in Ids, binding'[w].applied # None
        PROVE  binding'[w].present /\ index'[binding'[w].applied] = w
    <3>1. CASE binding'[w] = binding[w]
      <4>1. binding[w].applied \in Cars /\ binding[w].applied # c
        BY <1>3, <2>1, <3>1 DEF TypeOK, BindingType
      <4>2. index[binding[w].applied] = w /\ binding[w].present
        BY <2>1, <3>1 DEF MapInv, Entries
      <4>3. CASE w = v
        <5>1. binding[v] = binding'[v] /\ binding'[v].applied # c
          BY <1>3, <1>2, <3>1, <4>3
        <5> QED BY <1>4, <3>1, <4>1, <4>2, <5>1
      <4>4. CASE w # v
        <5>1. old # binding[w].applied
          <6>1. old # None => index[old] = v
            BY <1>2 DEF MapInv, Entries, old
          <6> QED BY <2>1, <3>1, <4>2, <4>4, <6>1
        <5> QED BY <1>4, <3>1, <4>1, <4>2, <5>1
      <4> QED BY <4>3, <4>4
    <3>2. CASE w = v /\ binding'[w] # binding[w]
      BY <1>4, <3>2
    <3> QED BY <1>4, <3>1, <3>2
  <2>2. ASSUME NEW w \in Ids, binding'[w].modelApplied
        PROVE  /\ binding'[w].applied # None /\ binding'[w].model # None
               /\ pool[w] = binding'[w].applied =>
                      clump[pool[w]] = binding'[w].model
    <3>1. binding'[w] = binding[w]
      BY <1>4, <2>2
    <3> QED BY <2>2, <3>1 DEF MapInv, Entries
  <2>3. ASSUME NEW w \in Ids, binding'[w].model # None
        PROVE  binding'[w].present
    BY <1>4, <2>3 DEF MapInv, Entries
  <2> QED BY <1>1, <2>1, <2>2, <2>3 DEF Entries
<1>10. Collisions'
  <2>1. ASSUME NEW d \in Cars, NEW w \in Ids, Collides(d, w)
        PROVE  Collides(d, w)'
    <3>1. w # v
      BY <1>2, <1>3, <2>1 DEF Collides
    <3> QED BY <1>1, <1>4, <2>1, <3>1 DEF Collides
  <2> QED BY <1>1, <1>5, <2>1 DEF MapInv, Collisions
<1>11. Shown'
  <2>1. ASSUME NEW w \in Ids, pool[w] # None, clump[pool[w]] \in Models,
               pool[w] \notin orphaned
        PROVE  binding'[w].modelApplied /\ binding'[w].applied = pool[w]
    <3>1. binding[w].modelApplied /\ binding[w].applied = pool[w]
      BY <2>1 DEF MapInv, Shown
    <3>2. w # v
      BY <1>2, <1>3, <3>1
    <3> QED BY <1>4, <3>1, <3>2
  <2> QED BY <1>1, <2>1 DEF Shown
<1> QED BY <1>6, <1>7, <1>8, <1>9, <1>10, <1>11 DEF MapInv

\* Packets wait, or make an entry without a model.
LEMMA SameMaps ==
  ASSUME MapInv,
         UNCHANGED <<pool, near, previousVehicles, changed, clump, cache, index,
                     fastCol, ready, orphaned>>,
         \A v \in Ids : /\ binding'[v].applied = binding[v].applied
                        /\ binding'[v].model = binding[v].model
                        /\ binding'[v].modelApplied = binding[v].modelApplied
                        /\ binding[v].present => binding'[v].present
  PROVE  MapInv'
<1>1. \A d : (Valid(d)' <=> Valid(d)) /\ (Stale(d)' <=> Stale(d))
  BY DEF Valid, Stale
<1>2. \A c, v : v \in Ids => (Collides(c, v)' <=> Collides(c, v))
  BY DEF Collides
<1>3. Places' /\ Addressed(cache)' /\ Addressed(index)'
  BY <1>1 DEF MapInv, Places, Addressed
<1>4. Entries'
  BY DEF MapInv, Entries
<1>5. Collisions'
  BY <1>1, <1>2 DEF MapInv, Collisions
<1>6. Shown'
  BY DEF MapInv, Shown
<1> QED BY <1>3, <1>4, <1>5, <1>6 DEF MapInv

LEMMA ReceiveMaps ==
  ASSUME MapInv, TypeOK,
         \/ \E v \in Ids, m \in Models : ReceiveBind(v, m)
         \/ \E v \in Ids : ReceiveUnbind(v) \/ ReceiveAttribute(v)
         \/ \E m \in Models : Downloaded(m) \/ PushDestructionCommand(m)
         \/ BeginFrame
  PROVE  MapInv'
<1>1. UNCHANGED <<pool, near, previousVehicles, changed, clump, cache, index,
                  fastCol, ready, orphaned>>
  BY DEF ReceiveBind, ReceiveUnbind, ReceiveAttribute, Downloaded,
         PushDestructionCommand, BeginFrame, gameVars, bindingVars, modelVars, frameVars
<1>2. CASE UNCHANGED binding
  BY <1>1, <1>2, SameMaps
<1>3. ASSUME NEW v \in Ids, ReceiveAttribute(v)
      PROVE  MapInv'
  <2> DEFINE new == [binding[v] EXCEPT !.present = TRUE]
  <2>1. binding[v] \in BindingType /\ binding \in [Ids -> BindingType]
    BY DEF TypeOK
  <2>2. /\ new.applied = binding[v].applied /\ new.model = binding[v].model
        /\ new.modelApplied = binding[v].modelApplied /\ new.present = TRUE
    BY <2>1 DEF BindingType
  <2>3. binding' = [binding EXCEPT ![v] = new]
    BY <1>3 DEF ReceiveAttribute
  <2> HIDE DEF new
  <2>4. \A w \in Ids : binding'[w] = IF w = v THEN new ELSE binding[w]
    BY <2>1, <2>3
  <2> QED BY <1>1, <2>2, <2>4, SameMaps
<1> QED BY <1>2, <1>3 DEF ReceiveBind, ReceiveUnbind, Downloaded,
                         PushDestructionCommand, BeginFrame, bindingVars

\* Clear: the maps are empty, and the vehicles keep what they show.
LEMMA ClearMaps ==
  ASSUME TypeOK, Clear, UNCHANGED <<pool, clump>>
  PROVE  Addressed(index)' /\ Entries' /\ Collisions' /\ Shown'
<1>1. NoBinding.applied = None /\ NoBinding.modelApplied = FALSE /\ NoBinding.model = None
  BY DEF NoBinding
<1>2. /\ \A v \in Ids : binding'[v] = NoBinding
      /\ \A c \in Cars : index'[c] = None /\ fastCol'[c] = None
      /\ orphaned' = orphaned \cup {c \in Cars : clump[c] \in Models}
  BY DEF Clear
<1>3. \A v \in Ids : pool[v] # None => pool[v] \in Cars
  BY DEF TypeOK
<1> QED BY <1>1, <1>2, <1>3 DEF Addressed, Entries, Collisions, Shown

LEMMA ResetMaps ==
  ASSUME TypeOK, MapInv, NEW session \in BOOLEAN, ResetAll(session)
  PROVE  MapInv'
<1>1. /\ Clear
      /\ UNCHANGED <<pool, near, clump, cache, previousVehicles, changed>>
  BY DEF ResetAll, gameVars, frameVars
<1>2. \A d : (Valid(d)' <=> Valid(d)) /\ (Stale(d)' <=> Stale(d))
  BY <1>1 DEF Valid, Stale
<1>3. Places' /\ Addressed(cache)'
  BY <1>1, <1>2 DEF MapInv, Places, Addressed
<1> QED BY <1>1, <1>3, ClearMaps DEF MapInv

-----------------------------------------------------------------------------
(* The frame.                                                               *)

\* A vehicle that shows the model it was bound to before is counted out.
LEMMA BindMaps ==
  ASSUME TypeOK, MapInv, NEW v \in Ids, NEW m \in Models, Bind(v, m),
         UNCHANGED <<pool, near, previousVehicles, changed, cache, ready>>
  PROVE  MapInv'
<1> DEFINE b == binding[v]
           new == IF b.model \in {m, None}
                  THEN [b EXCEPT !.present = TRUE, !.model = m]
                  ELSE Rebound(b, m)
<1>1. b \in BindingType /\ binding \in [Ids -> BindingType] /\ m # None
  BY VisualsAssumption DEF TypeOK
<1>2. /\ new.present = TRUE /\ new.model = m
      /\ b.model \in {m, None} => new.applied = b.applied /\ new.modelApplied = b.modelApplied
      /\ b.model \notin {m, None} => new.applied = None /\ new.modelApplied = FALSE
  BY <1>1 DEF BindingType, Rebound, NoBinding
<1>3. binding' = [binding EXCEPT ![v] = new] /\ UNCHANGED <<index, clump>>
  BY DEF Bind
<1> HIDE DEF new
<1>4. \A w \in Ids : binding'[w] = IF w = v THEN new ELSE binding[w]
  BY <1>1, <1>3
<1>5. /\ \A c \in Cars : fastCol'[c] =
             IF b.model \notin {m, None} /\ c = b.applied THEN None ELSE fastCol[c]
      /\ orphaned' = orphaned \cup
             {c \in Cars : c = pool[v] /\ clump[c] \in Models /\ b.model \notin {m, None}}
  BY DEF Bind, CollisionsAfterBind, Erase, TypeOK
<1> HIDE DEF b
<1>6. \A d : (Valid(d)' <=> Valid(d)) /\ (Stale(d)' <=> Stale(d))
  BY DEF Valid, Stale
<1>7. Places' /\ Addressed(cache)' /\ Addressed(index)'
  BY <1>3, <1>6 DEF MapInv, Places, Addressed
<1>8. Entries'
  <2>1. ASSUME NEW w \in Ids
        PROVE  /\ binding'[w].model # None => binding'[w].present
               /\ binding'[w].applied # None =>
                      binding'[w].present /\ index[binding'[w].applied] = w
               /\ binding'[w].modelApplied =>
                      /\ binding'[w].applied # None /\ binding'[w].model # None
                      /\ pool[w] = binding'[w].applied =>
                             clump[pool[w]] = binding'[w].model
    <3>1. CASE w # v
      BY <1>4, <3>1 DEF MapInv, Entries
    <3>2. CASE w = v /\ b.model \in {m, None}
      BY <1>1, <1>2, <1>4, <3>2 DEF MapInv, Entries, b
    <3>3. CASE w = v /\ b.model \notin {m, None}
      BY <1>2, <1>4, <3>3
    <3> QED BY <3>1, <3>2, <3>3
  <2> QED BY <1>3, <2>1 DEF Entries
<1>9. Collisions'
  <2>1. ASSUME NEW c \in Cars, NEW w \in Ids, Collides(c, w), fastCol'[c] # None
        PROVE  Collides(c, w)'
    <3>1. fastCol'[c] = fastCol[c]
      BY <1>5, <2>1
    <3>2. CASE w # v
      BY <1>3, <1>4, <2>1, <3>1, <3>2 DEF Collides
    <3>3. CASE w = v
      <4>1. b.model # None /\ b.applied = c /\ pool[v] = c
        BY <2>1, <3>1, <3>3 DEF Collides, b
      <4>2. b.model = m
        BY <1>5, <2>1, <4>1
      <4> QED BY <1>2, <1>3, <1>4, <2>1, <3>1, <3>3, <4>1, <4>2 DEF Collides, b
    <3> QED BY <3>2, <3>3
  <2> QED BY <1>5, <1>6, <2>1 DEF MapInv, Collisions
<1>10. Shown'
  <2>1. ASSUME NEW w \in Ids, pool[w] # None, clump[pool[w]] \in Models,
               pool[w] \notin orphaned'
        PROVE  binding'[w].modelApplied /\ binding'[w].applied = pool[w]
    <3>1. binding[w].modelApplied /\ binding[w].applied = pool[w]
      BY <1>5, <2>1 DEF MapInv, Shown
    <3>2. pool[w] \in Cars
      BY <2>1 DEF TypeOK
    <3>3. CASE w = v
      <4>1. b.model \in {m, None}
        BY <1>5, <2>1, <3>2, <3>3
      <4> QED BY <1>2, <1>4, <3>1, <3>3, <4>1 DEF b
    <3> QED BY <1>4, <3>1, <3>3
  <2> QED BY <1>3, <2>1 DEF Shown
<1> QED BY <1>7, <1>8, <1>9, <1>10 DEF MapInv

\* The vehicle gets its own clump back, if it shows the model.
LEMMA UnbindMaps ==
  ASSUME TypeOK, MapInv, NEW v \in Ids, Unbind(v),
         UNCHANGED <<pool, near, previousVehicles, changed, cache, ready>>
  PROVE  MapInv'
<1> DEFINE b == binding[v]
<1>1. NoBinding.applied = None /\ NoBinding.modelApplied = FALSE /\ NoBinding.model = None
  BY DEF NoBinding
<1>2. /\ \A w \in Ids : binding'[w] = IF w = v THEN NoBinding ELSE binding[w]
      /\ \A c \in Cars : /\ index'[c] = IF c = b.applied THEN None ELSE index[c]
                         /\ fastCol'[c] = IF c = b.applied THEN None ELSE fastCol[c]
                         /\ clump'[c] = IF b.modelApplied /\ pool[v] = c /\ c = b.applied
                                        THEN Own ELSE clump[c]
      /\ orphaned' = orphaned
  <2>1. None \notin Cars
    BY VisualsAssumption
  <2> QED BY <2>1 DEF Unbind, Put, Erase, TypeOK
<1> HIDE DEF b
<1>3. \A d : (Valid(d)' <=> Valid(d)) /\ (Stale(d)' <=> Stale(d))
  BY DEF Valid, Stale
<1>4. Places' /\ Addressed(cache)' /\ Addressed(index)'
  BY <1>2, <1>3 DEF MapInv, Places, Addressed
<1>5. \A w \in Ids : /\ binding[w].applied \in Cars \cup {None}
                     /\ pool[w] \in Cars \cup {None}
  BY DEF TypeOK, BindingType
<1>6. \A w \in Ids : w # v /\ pool[w] # None => pool[w] # pool[v]
  BY DEF MapInv, Places
<1>7. Entries'
  <2>1. ASSUME NEW w \in Ids, w # v
        PROVE  /\ binding[w].model # None => binding[w].present
               /\ binding[w].applied # None =>
                      binding[w].present /\ index'[binding[w].applied] = w
               /\ binding[w].modelApplied =>
                      /\ binding[w].applied # None /\ binding[w].model # None
                      /\ pool[w] = binding[w].applied =>
                             clump'[pool[w]] = binding[w].model
    <3>1. ASSUME binding[w].applied # None
          PROVE  binding[w].present /\ index'[binding[w].applied] = w
      <4>1. index[binding[w].applied] = w /\ binding[w].present
        BY <2>1, <3>1 DEF MapInv, Entries
      <4>2. binding[w].applied # b.applied
        <5>1. b.applied # None => index[b.applied] = v
          BY DEF MapInv, Entries, b
        <5> QED BY <2>1, <3>1, <4>1, <5>1
      <4> QED BY <1>2, <1>5, <3>1, <4>1, <4>2
    <3>2. ASSUME binding[w].modelApplied, pool[w] = binding[w].applied
          PROVE  clump'[pool[w]] = binding[w].model
      <4>1. pool[w] # None /\ clump[pool[w]] = binding[w].model
        BY <3>2 DEF MapInv, Entries
      <4> QED BY <1>2, <1>5, <1>6, <2>1, <4>1
    <3> QED BY <3>1, <3>2 DEF MapInv, Entries
  <2> QED BY <1>1, <1>2, <2>1 DEF Entries
<1>8. Collisions'
  <2>1. ASSUME NEW c \in Cars, NEW w \in Ids, Collides(c, w), fastCol'[c] # None
        PROVE  Collides(c, w)'
    <3>1. fastCol'[c] = fastCol[c] /\ c # b.applied
      BY <1>2, <2>1
    <3>2. w # v
      BY <2>1, <3>1 DEF Collides, b
    <3> QED BY <1>2, <2>1, <3>1, <3>2 DEF Collides
  <2> QED BY <1>2, <1>3, <2>1 DEF MapInv, Collisions
<1>9. Shown'
  <2>1. ASSUME NEW w \in Ids, pool[w] # None, clump'[pool[w]] \in Models,
               pool[w] \notin orphaned
        PROVE  binding'[w].modelApplied /\ binding'[w].applied = pool[w]
    <3>1. clump[pool[w]] \in Models /\ pool[w] \in Cars
          /\ ~(b.modelApplied /\ pool[v] = pool[w] /\ pool[w] = b.applied)
      BY <1>2, <1>5, <2>1, VisualsAssumption
    <3>2. binding[w].modelApplied /\ binding[w].applied = pool[w]
      BY <2>1, <3>1 DEF MapInv, Shown
    <3>3. w # v
      BY <3>1, <3>2 DEF b
    <3> QED BY <1>2, <3>2, <3>3
  <2> QED BY <1>2, <2>1 DEF Shown
<1> QED BY <1>4, <1>7, <1>8, <1>9 DEF MapInv

LEMMA TaskMaps ==
  ASSUME TypeOK, MapInv, RunTask
  PROVE  MapInv'
<1> DEFINE task == Head(draining)
<1>1. task \in TaskType
  BY DEF RunTask, TypeOK
<1>2. UNCHANGED <<pool, near, previousVehicles, changed, cache, ready>>
  BY DEF RunTask, gameVars, modelVars
<1>3. CASE task.type = "Bind"
  <2>1. Bind(task.vehicle, task.model)
    BY <1>3 DEF RunTask
  <2>2. task.vehicle \in Ids /\ task.model \in Models
    BY <1>1, <1>3 DEF TaskType
  <2> HIDE DEF task
  <2> QED BY <1>2, <2>1, <2>2, BindMaps
<1>4. CASE task.type # "Bind"
  <2>1. Unbind(task.vehicle)
    BY <1>4 DEF RunTask
  <2>2. task.vehicle \in Ids
    BY <1>1, <1>4 DEF TaskType
  <2> HIDE DEF task
  <2> QED BY <1>2, <2>1, <2>2, UnbindMaps
<1> QED BY <1>3, <1>4

LEMMA FinalizeMaps ==
  ASSUME TypeOK, MapInv, NEW spawned \in BOOLEAN, ClearAndFinalize(spawned)
  PROVE  MapInv'
<1>1. UNCHANGED <<pool, near, clump, cache, previousVehicles, changed>>
  BY DEF ClearAndFinalize, gameVars
<1>2. \A d : (Valid(d)' <=> Valid(d)) /\ (Stale(d)' <=> Stale(d))
  BY <1>1 DEF Valid, Stale
<1>3. Places' /\ Addressed(cache)'
  BY <1>1, <1>2 DEF MapInv, Places, Addressed
<1>4. CASE pendingClearAll
  <2>1. Clear
    BY <1>4 DEF ClearAndFinalize
  <2> QED BY <1>1, <1>3, <2>1, ClearMaps DEF MapInv
<1>5. CASE ~pendingClearAll
  <2>1. UNCHANGED <<binding, index, fastCol, orphaned>> /\ ready \subseteq ready'
    BY <1>5 DEF ClearAndFinalize, bindingVars
  <2>2. \A c, v : Collides(c, v)' <=> Collides(c, v)
    BY <1>1, <2>1 DEF Collides
  <2>3. Collisions'
    BY <1>2, <2>1, <2>2 DEF MapInv, Collisions
  <2> QED BY <1>1, <1>2, <1>3, <2>1, <2>3 DEF MapInv, Addressed, Entries, Shown
<1> QED BY <1>4, <1>5

\* The pool is not changed by a frame: which vehicles wait for their model.
LEMMA ProcessMaps ==
  ASSUME TypeOK, MapInv, Process
  PROVE  MapInv'
<1>1. UNCHANGED <<pool, near, cache, ready, previousVehicles, changed>>
  BY DEF Process, gameVars, modelVars
<1>2. /\ \A v \in Ids : pool[v] \in Cars \cup {None} /\ binding[v] \in BindingType
      /\ None \notin Cars /\ None \notin Models /\ ready \subseteq Models
  BY VisualsAssumption DEF TypeOK
<1>3. \A v \in Ids : pool[v] # None => IdOf(pool[v]) = v
  BY OneId DEF MapInv
<1>4. \A v \in Ids :
          /\ binding'[v].present = binding[v].present
          /\ binding'[v].model = binding[v].model
          /\ binding'[v].applied = IF v \in Lost THEN None
                                   ELSE IF v \in Applied THEN pool[v]
                                   ELSE binding[v].applied
          /\ binding'[v].modelApplied = IF v \in Lost THEN FALSE
                                        ELSE IF v \in Applied THEN TRUE
                                        ELSE binding[v].modelApplied
  <2>1. ASSUME NEW v \in Ids
        PROVE  /\ binding'[v].present = binding[v].present
               /\ binding'[v].model = binding[v].model
               /\ binding'[v].applied = IF v \in Lost THEN None
                                        ELSE IF v \in Applied THEN pool[v]
                                        ELSE binding[v].applied
               /\ binding'[v].modelApplied = IF v \in Lost THEN FALSE
                                             ELSE IF v \in Applied THEN TRUE
                                             ELSE binding[v].modelApplied
    <3>1. binding[v] \in BindingType
      BY <1>2
    <3>2. binding'[v] = IF v \in Lost
                        THEN [binding[v] EXCEPT !.applied = None, !.modelApplied = FALSE]
                        ELSE IF v \in Applied
                        THEN [binding[v] EXCEPT !.applied = pool[v], !.modelApplied = TRUE]
                        ELSE binding[v]
      BY DEF Process
    <3> QED BY <3>1, <3>2 DEF BindingType
  <2> QED BY <2>1
<1>5. /\ \A c \in Cars : ToApply(c) => \E v \in Applied : pool[v] = c /\ IdOf(c) = v
      /\ \A v \in Applied : v \in Ids /\ ToApply(pool[v]) /\ binding[v].model \in ready
                            /\ pool[v] # None /\ v \notin Lost
      /\ \A v \in Lost : v \in Ids /\ pool[v] = None
  BY <1>3 DEF ToApply, Applied, Lost
<1>6. \A c \in Cars :
          /\ clump'[c] = IF ToApply(c) THEN binding[IdOf(c)].model ELSE clump[c]
          /\ index'[c] = IF ToApply(c) THEN IdOf(c)
                         ELSE IF c \in GivenUp THEN None ELSE index[c]
          /\ fastCol'[c] = IF ToApply(c) /\ binding[IdOf(c)].model \in OwnsCollision
                           THEN binding[IdOf(c)].model
                           ELSE IF c \in GivenUp THEN None ELSE fastCol[c]
  BY DEF Process
<1>7. orphaned' = {c \in orphaned : ~ToApply(c)}
  BY DEF Process
<1>8. \A d : (Valid(d)' <=> Valid(d)) /\ (Stale(d)' <=> Stale(d))
  BY <1>1 DEF Valid, Stale
<1>9. Places' /\ Addressed(cache)'
  BY <1>1, <1>8 DEF MapInv, Places, Addressed
<1>10. Addressed(index)'
  BY <1>1, <1>5, <1>6, <1>8 DEF MapInv, Addressed
<1>11. ASSUME NEW v \in Ids, v \notin Applied, pool[v] # None
       PROVE  ~ToApply(pool[v])
  BY <1>3, <1>5, <1>11 DEF ToApply
<1>12. ASSUME NEW v \in Ids, NEW w \in Ids, binding[v].applied = binding[w].applied,
              binding[v].applied # None
       PROVE  v = w
  BY <1>12 DEF MapInv, Entries
<1>13. Entries'
  <2>1. ASSUME NEW v \in Ids, binding'[v].applied # None
        PROVE  binding'[v].present /\ index'[binding'[v].applied] = v
    <3>1. CASE v \in Applied
      <4>1. binding'[v].applied = pool[v] /\ pool[v] \in Cars /\ ToApply(pool[v])
        BY <1>2, <1>4, <1>5, <3>1
      <4>2. binding[v].present
        BY <1>2, <1>5, <3>1 DEF MapInv, Entries
      <4>3. index'[pool[v]] = v
        BY <1>3, <1>5, <1>6, <3>1, <4>1
      <4> QED BY <1>4, <4>1, <4>2, <4>3
    <3>2. CASE v \notin Applied
      <4> DEFINE c == binding[v].applied
      <4>1. binding'[v].applied = c /\ c # None /\ v \notin Lost
        BY <1>4, <2>1, <3>2
      <4>2. c \in Cars /\ index[c] = v /\ binding[v].present
        BY <1>2, <4>1 DEF MapInv, Entries, BindingType
      <4>3. c \notin GivenUp
        BY <1>5, <1>12, <3>2, <4>1 DEF GivenUp
      <4>4. ~ToApply(c)
        <5>1. pool[v] = c \/ Stale(c)
          BY <4>1, <4>2, VisualsAssumption DEF MapInv, Addressed
        <5>2. ToApply(c) => Valid(c)
          BY <1>5, <4>2 DEF Valid
        <5> QED BY <1>11, <3>2, <4>1, <5>1, <5>2 DEF Stale
      <4> QED BY <1>4, <1>6, <4>1, <4>2, <4>3, <4>4
    <3> QED BY <3>1, <3>2
  <2>2. ASSUME NEW v \in Ids, binding'[v].modelApplied
        PROVE  /\ binding'[v].applied # None /\ binding'[v].model # None
               /\ pool[v] = binding'[v].applied =>
                      clump'[pool[v]] = binding'[v].model
    <3>1. CASE v \in Applied
      <4>1. binding'[v].applied = pool[v] /\ pool[v] \in Cars /\ ToApply(pool[v])
            /\ binding[v].model # None /\ pool[v] # None
        BY <1>2, <1>4, <1>5, <3>1
      <4>2. clump'[pool[v]] = binding[v].model
        BY <1>3, <1>6, <4>1
      <4> QED BY <1>4, <4>1, <4>2
    <3>2. CASE v \notin Applied
      <4>1. binding[v].modelApplied /\ v \notin Lost
        BY <1>4, <2>2, <3>2
      <4>2. /\ binding[v].applied # None /\ binding[v].model # None
            /\ pool[v] = binding[v].applied => clump[pool[v]] = binding[v].model
        BY <4>1 DEF MapInv, Entries
      <4>3. pool[v] # None => pool[v] \in Cars /\ ~ToApply(pool[v])
        BY <1>2, <1>11, <3>2
      <4> QED BY <1>4, <1>6, <3>2, <4>1, <4>2, <4>3
    <3> QED BY <3>1, <3>2
  <2>3. \A v \in Ids : binding'[v].model # None => binding'[v].present
    BY <1>4 DEF MapInv, Entries
  <2> QED BY <1>1, <2>1, <2>2, <2>3 DEF Entries
<1>14. Collisions'
  <2>1. ASSUME NEW c \in Cars, fastCol'[c] # None
        PROVE  fastCol'[c] \in ready /\ (Stale(c) \/ \E v \in Ids : Collides(c, v)')
    <3>1. CASE ToApply(c) /\ binding[IdOf(c)].model \in OwnsCollision
      <4>1. PICK v \in Applied : pool[v] = c /\ IdOf(c) = v
        BY <1>5, <3>1
      <4>2. v \in Ids /\ v \notin Lost /\ v \in Applied /\ binding[v].model \in ready
        BY <1>5, <4>1
      <4>3. binding'[v].applied = c /\ binding'[v].model = binding[v].model
        BY <1>4, <4>1, <4>2
      <4>4. fastCol'[c] = binding[v].model /\ clump'[c] = binding[v].model
        BY <1>6, <3>1, <4>1
      <4> QED BY <1>1, <4>1, <4>2, <4>3, <4>4 DEF Collides
    <3>2. CASE ~(ToApply(c) /\ binding[IdOf(c)].model \in OwnsCollision)
      <4>1. c \notin GivenUp /\ fastCol'[c] = fastCol[c]
        BY <1>6, <2>1, <3>2
      <4>2. fastCol[c] \in ready /\ (Stale(c) \/ \E v \in Ids : Collides(c, v))
        BY <2>1, <4>1 DEF MapInv, Collisions
      <4>3. ASSUME NEW v \in Ids, Collides(c, v)
            PROVE  Collides(c, v)'
        <5>1. pool[v] = c /\ binding[v].applied = c /\ v \notin Lost /\ c # None
          BY <1>2, <1>5, <4>3 DEF Collides
        <5>2. binding'[v].applied = c /\ binding'[v].model = binding[v].model
          BY <1>4, <5>1
        <5>3. clump'[c] = fastCol[c]
          BY <1>3, <1>6, <4>3, <5>1 DEF Collides
        <5> QED BY <1>1, <4>1, <4>3, <5>1, <5>2, <5>3 DEF Collides
      <4> QED BY <4>1, <4>2, <4>3
    <3> QED BY <3>1, <3>2
  <2> QED BY <1>1, <1>8, <2>1 DEF Collisions
<1>15. Shown'
  <2>1. ASSUME NEW v \in Ids, pool[v] # None, clump'[pool[v]] \in Models,
               pool[v] \notin orphaned'
        PROVE  binding'[v].modelApplied /\ binding'[v].applied = pool[v]
    <3>1. CASE v \in Applied
      BY <1>4, <1>5, <3>1
    <3>2. CASE v \notin Applied
      <4>1. ~ToApply(pool[v]) /\ pool[v] \in Cars /\ v \notin Lost
        BY <1>2, <1>5, <1>11, <2>1, <3>2
      <4>2. clump[pool[v]] \in Models /\ pool[v] \notin orphaned
        BY <1>6, <1>7, <2>1, <4>1
      <4> QED BY <1>4, <2>1, <3>2, <4>1, <4>2 DEF MapInv, Shown
    <3> QED BY <3>1, <3>2
  <2> QED BY <1>1, <2>1 DEF Shown
<1> QED BY <1>9, <1>10, <1>13, <1>14, <1>15 DEF MapInv

\* The end of a frame forgets what the maps have of the addresses whose
\* vehicles have gone, and destroys no model that a collision is of.
LEMMA EndMaps ==
  ASSUME CountInv, MapInv, NEW spawned \in BOOLEAN, EndFrame(spawned)
  PROVE  MapInv'
<1>1. TypeOK
  BY DEF CountInv
<1>2. /\ UNCHANGED <<pool, near, clump>>
      /\ previousVehicles' = CurrentVehicles /\ changed' = {}
      /\ cache' = [c \in Cars |->
                      IF c \in Departed THEN None
                      ELSE IF c \in Arrived /\ cache[c] = None THEN IdOf(c)
                      ELSE cache[c]]
  BY DEF EndFrame, gameVars
<1>3. \A d : (Valid(d)' <=> Valid(d))
  BY <1>2 DEF Valid
<1>4. CurrentVehicles = near
  BY <1>1 DEF CurrentVehicles, MapInv, Places, TypeOK
<1>5. Places'
  BY <1>2, <1>3, <1>4 DEF MapInv, Places
<1>6. \A d \in Cars : /\ Stale(d) => d \in Departed
                      /\ d \in Arrived => Valid(d)
  BY DEF Stale, Departed, Arrived, CurrentVehicles
<1>7. Addressed(cache)'
  BY <1>1, <1>2, <1>6, ValidHasId DEF MapInv, Addressed
<1>8. CASE pendingClearAll
  <2>1. Clear
    BY <1>8 DEF EndFrame
  <2> QED BY <1>1, <1>2, <1>5, <1>7, <2>1, ClearMaps DEF MapInv
<1>9. CASE ~pendingClearAll
  <2>1. /\ None \notin Cars /\ None \notin Ids /\ Departed \subseteq Cars
        /\ \A v \in Ids : pool[v] \in Cars \cup {None} /\ binding[v] \in BindingType
    BY <1>1, VisualsAssumption DEF Departed, TypeOK
  <2>2. \A v \in Ids :
            IF binding[v].applied \in Departed
            THEN /\ binding'[v].applied = None /\ ~binding'[v].modelApplied
                 /\ binding'[v].present = binding[v].present
                 /\ binding'[v].model = binding[v].model
            ELSE binding'[v] = binding[v]
    <3>1. ASSUME NEW v \in Ids
          PROVE  IF binding[v].applied \in Departed
                 THEN /\ binding'[v].applied = None /\ ~binding'[v].modelApplied
                      /\ binding'[v].present = binding[v].present
                      /\ binding'[v].model = binding[v].model
                 ELSE binding'[v] = binding[v]
      <4>1. binding'[v] = IF /\ binding[v].applied \in Departed
                             /\ index[binding[v].applied] # None
                             /\ index[binding[v].applied] = v
                          THEN [binding[v] EXCEPT !.applied = None, !.modelApplied = FALSE]
                          ELSE binding[v]
        BY <1>9 DEF EndFrame
      <4>2. binding[v].applied \in Departed =>
                index[binding[v].applied] = v /\ v # None
        BY <2>1 DEF MapInv, Entries
      <4>3. binding[v] \in BindingType
        BY <2>1
      <4> QED BY <4>1, <4>2, <4>3 DEF BindingType
    <3> QED BY <3>1
  <2>3. /\ \A c \in Cars : /\ index'[c] = IF c \in Departed THEN None ELSE index[c]
                           /\ fastCol'[c] = IF c \in Departed THEN None ELSE fastCol[c]
        /\ orphaned' = orphaned \cup {c \in Departed : clump[c] \in Models}
    BY <1>1, <1>9 DEF EndFrame, Erase, TypeOK
  <2>4. Addressed(index)'
    BY <1>2, <1>6, <2>3 DEF MapInv, Addressed
  <2>5. Entries'
    <3>1. ASSUME NEW v \in Ids
          PROVE  /\ binding'[v].model # None => binding'[v].present
                 /\ binding'[v].applied # None =>
                        binding'[v].present /\ index'[binding'[v].applied] = v
                 /\ binding'[v].modelApplied =>
                        /\ binding'[v].applied # None /\ binding'[v].model # None
                        /\ pool[v] = binding'[v].applied =>
                               clump[pool[v]] = binding'[v].model
      <4>1. CASE binding[v].applied \in Departed
        BY <2>2, <4>1 DEF MapInv, Entries
      <4>2. CASE binding[v].applied \notin Departed
        <5>1. binding'[v] = binding[v]
          BY <2>2, <4>2
        <5>2. binding[v].applied # None => binding[v].applied \in Cars
          BY <2>1 DEF BindingType
        <5>3. binding[v].applied # None =>
                  index'[binding[v].applied] = index[binding[v].applied]
          BY <2>3, <4>2, <5>2
        <5> QED BY <5>1, <5>3 DEF MapInv, Entries
      <4> QED BY <4>1, <4>2
    <3> QED BY <1>2, <3>1 DEF Entries
  <2>6. Collisions'
    <3>1. ASSUME NEW c \in Cars, fastCol'[c] # None
          PROVE  fastCol'[c] \in ready' /\ \E v \in Ids : Collides(c, v)'
      <4>1. c \notin Departed /\ fastCol'[c] = fastCol[c]
        BY <2>3, <3>1
      <4>2. fastCol[c] \in ready /\ ~Stale(c)
        BY <1>6, <3>1, <4>1 DEF MapInv, Collisions
      <4>3. PICK v \in Ids : Collides(c, v)
        BY <3>1, <4>1, <4>2 DEF MapInv, Collisions
      <4>4. binding'[v] = binding[v]
        BY <2>2, <4>1, <4>3 DEF Collides
      <4>5. Collides(c, v)'
        BY <1>2, <4>1, <4>3, <4>4 DEF Collides
      <4> DEFINE m == fastCol[c]
      <4>6. m \in Models /\ v \in Bound(binding, m)
        BY <1>1, <4>2, <4>3 DEF TypeOK, Collides, Bound
      <4>7. useCount[m] > 0
        <5>1. useCount[m] = Cardinality(Bound(binding, m))
          BY <4>6, CountsDef DEF CountInv, Counts
        <5> QED BY <4>6, <5>1, BoundIsFinite, FS_EmptySet
      <4>8. ready' = ready \ (IF spawned THEN {n \in destructionQueue : ~InUse(n)} ELSE {})
        BY <1>9 DEF EndFrame
      <4>9. m \in ready'
        BY <4>2, <4>7, <4>8 DEF InUse
      <4> QED BY <4>1, <4>5, <4>9
    <3> QED BY <3>1 DEF Collisions
  <2>7. Shown'
    <3>1. ASSUME NEW v \in Ids, pool[v] # None, clump[pool[v]] \in Models,
                 pool[v] \notin orphaned'
          PROVE  binding'[v].modelApplied /\ binding'[v].applied = pool[v]
      <4>1. pool[v] \notin Departed /\ pool[v] \notin orphaned
        BY <2>3, <3>1
      <4>2. binding[v].modelApplied /\ binding[v].applied = pool[v]
        BY <3>1, <4>1 DEF MapInv, Shown
      <4> QED BY <2>2, <4>1, <4>2
    <3> QED BY <1>2, <3>1 DEF Shown
  <2> QED BY <1>5, <1>7, <2>4, <2>5, <2>6, <2>7 DEF MapInv
<1> QED BY <1>8, <1>9

LEMMA MapStep ==
  ASSUME Calm, CountInv, MapInv, [Next]_vars
  PROVE  MapInv'
<1>1. TypeOK
  BY DEF CountInv
<1>2. ASSUME NEW v \in Ids, NEW c \in Cars, CreateVehicle(v, c) PROVE MapInv'
  BY <1>1, <1>2, CreateMaps
<1>3. ASSUME NEW v \in Ids, DeleteVehicle(v) PROVE MapInv'
  BY <1>1, <1>3, DeleteMaps
<1>4. ASSUME NEW c \in Cars, PlayerMoves(c) PROVE MapInv'
  BY <1>1, <1>4, MoveMaps
<1>5. ASSUME NEW c \in Cars, FindByVehicle(c) PROVE MapInv'
  BY <1>1, <1>5, FindMaps
<1>6. ASSUME \/ \E v \in Ids, m \in Models : ReceiveBind(v, m)
             \/ \E v \in Ids : ReceiveUnbind(v) \/ ReceiveAttribute(v)
             \/ \E m \in Models : Downloaded(m) \/ PushDestructionCommand(m)
             \/ BeginFrame
      PROVE  MapInv'
  BY <1>1, <1>6, ReceiveMaps
<1>7. ASSUME NEW session \in BOOLEAN, ResetAll(session) PROVE MapInv'
  BY <1>1, <1>7, ResetMaps
<1>8. ASSUME RunTask PROVE MapInv'
  BY <1>1, <1>8, TaskMaps
<1>9. ASSUME NEW spawned \in BOOLEAN, ClearAndFinalize(spawned) PROVE MapInv'
  BY <1>1, <1>9, FinalizeMaps
<1>10. ASSUME Process PROVE MapInv'
  BY <1>1, <1>10, ProcessMaps
<1>11. ASSUME NEW spawned \in BOOLEAN, EndFrame(spawned) PROVE MapInv'
  BY <1>11, EndMaps
<1>12. ASSUME UNCHANGED vars PROVE MapInv'
  BY <1>12, SameMaps DEF vars, gameVars, bindingVars, modelVars, frameVars
<1> QED BY <1>2, <1>3, <1>4, <1>5, <1>6, <1>7, <1>8, <1>9, <1>10, <1>11, <1>12
        DEF Next, Frame

LEMMA MapInvariance ==
  ASSUME Calm
  PROVE  Spec => [](CountInv /\ MapInv)
<1>1. Init => CountInv /\ MapInv
  BY InitCount, MapInit
<1>2. CountInv /\ MapInv /\ [Next]_vars => (CountInv /\ MapInv)'
  BY CountStep, MapStep
<1> QED BY <1>1, <1>2, PTL DEF Spec

\* The maps that go by addresses of the game's vehicles never lead to another
\* vehicle: FindByVehicle returns the vehicle's own entry or none, and
\* GetCollisionForVehicle the collision of the model it shows, which has not
\* been destroyed.
THEOREM MapsCorrect ==
  ASSUME Calm
  PROVE  Spec => []MapsFit
<1>1. ASSUME CountInv, MapInv, NEW c \in Cars, Valid(c)
      PROVE  /\ Found(c) \in {None, IdOf(c)}
             /\ fastCol[c] # None => fastCol[c] \in ready /\ clump[c] = fastCol[c]
  <2>1. TypeOK /\ Places /\ ~Stale(c) /\ c # None
    BY <1>1, VisualsAssumption DEF CountInv, MapInv, Stale
  <2>2. \A v \in Ids : pool[v] = c => v = IdOf(c)
    BY <2>1, OneId
  <2>3. IndexHit(c) => index[c] = IdOf(c)
    BY <1>1, <2>1, <2>2 DEF IndexHit, MapInv, Addressed, TypeOK
  <2>4. GetVehicleSAMPId(c) = IdOf(c)
    BY <1>1, <2>1, <2>2, KnowsId DEF MapInv
  <2>5. fastCol[c] # None => fastCol[c] \in ready /\ clump[c] = fastCol[c]
    BY <1>1, <2>1 DEF MapInv, Collisions, Collides
  <2> QED BY <2>3, <2>4, <2>5 DEF Found
<1>2. CountInv /\ MapInv => MapsFit
  BY <1>1 DEF MapsFit, FindsOwn, CollisionFits
<1> QED BY <1>2, MapInvariance, PTL

\* Entries and vehicles say the same: one that Process takes for done shows its
\* model, and a vehicle shows a custom model only while it is bound to it,
\* those aside that an entry was taken from (Process, Bind, Unbind).
THEOREM ShownCorrect ==
  ASSUME Calm
  PROVE  Spec => []ShownAsBound
<1>1. MapInv => AppliedIsShown
  BY DEF MapInv, Entries, AppliedIsShown
<1>2. ASSUME CountInv, MapInv, NEW c \in Cars, Valid(c), clump[c] \in Models,
             c \notin orphaned
      PROVE  binding[IdOf(c)].model = clump[c]
  <2>1. IdOf(c) \in Ids /\ pool[IdOf(c)] = c /\ c # None
    BY <1>2, ValidHasId, VisualsAssumption
  <2>2. binding[IdOf(c)].modelApplied /\ binding[IdOf(c)].applied = c
    BY <1>2, <2>1 DEF MapInv, Shown
  <2> QED BY <1>2, <2>1, <2>2 DEF MapInv, Entries
<1>3. CountInv /\ MapInv => ShownAsBound
  BY <1>1, <1>2 DEF ShownAsBound, UnboundShowsOwn
<1> QED BY <1>3, MapInvariance, PTL
=============================================================================
