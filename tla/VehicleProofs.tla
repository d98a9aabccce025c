----------------------------- MODULE VehicleProofs -----------------------------
(***************************************************************************)
(* Proofs about vehicles that are bound to custom models: how one looks on *)
(* a client (VehicleAppearance), and that what the client has of it is     *)
(* what the server's registry says (VehicleAttributes).                    *)
(***************************************************************************)
EXTENDS VehicleAppearance, VehicleAttributes, TLAPS, WellFoundedInduction,
        SequenceTheorems, FiniteSetTheorems

-----------------------------------------------------------------------------
(***************************************************************************)
(* The looks of a vehicle: VehicleAppearance.  What is proved is what the  *)
(* runs check: no vehicle takes the address of one that has gone within    *)
(* the same frame, colours change once between two checks of a vehicle,    *)
(* and a livery may replace another one.                                   *)
(***************************************************************************)
Regular == SameFrame = FALSE /\ Flicker = FALSE /\ Recognised = Found

-----------------------------------------------------------------------------
(* The records that operations work on, and what holds of them.             *)

Maybe(S) == S \cup {None}
Plates == Texts \cup {SanAndreas}
Paints == Colours \cup {None, White, Original, Marker}
Glasses == Tints \cup {NoTint, Original}

BindingType ==
    [bound : BOOLEAN, at : Maybe(Addresses), paint : Paintjobs \cup {-1},
     resolved : Paintjobs \cup {-1, -2, -999}, texture : Maybe(Found),
     tint : Tints \cup {NoTint}, rims : WheelColours \cup {White},
     wheel : Maybe(Wheels), extras : Maybe(Extras), text : Maybe(Texts),
     last : Maybe(Plates), mesh : Maybe(Meshes \cup {Disabled}),
     colour : Maybe(Colours)]
CarType ==
    [at : Maybe(Addresses), colour : Maybe(Colours), wheel : Maybe(Wheels),
     bumper : BOOLEAN]
LookType ==
    [custom : BOOLEAN, texture : Found \cup {Original}, body : Paints,
     panel : Paints, glass : Glasses, pane : Glasses,
     rims : WheelColours \cup {White, Original},
     extras : Maybe(Extras) \cup {Original}, plate : Maybe(Plates),
     mesh : Maybe(Meshes), seen : BOOLEAN]
State == [binding : BindingType, samp : Maybe(Plates), car : CarType, look : LookType]

\* A texture that was looked for is the one of the index it was looked for by.
ResolvedRight(s) ==
    s.binding.resolved >= 0 =>
        s.binding.texture =
            IF s.binding.resolved \in Found THEN s.binding.resolved ELSE None

\* What the invariants say of a vehicle that shows its model, of a record.
Liveried(s) ==
    s.look.texture = IF s.binding.paint \in Found THEN s.binding.paint ELSE Original
Tinted(s) == s.binding.tint # NoTint => s.look.glass = s.binding.tint
Fitted(s) == s.binding.extras # None => s.look.extras = s.binding.extras
Meshed(s) ==
    s.binding.mesh # None =>
        s.look.mesh = IF s.binding.mesh = Disabled THEN None ELSE s.binding.mesh
Painted(s) ==
    s.binding.colour = s.car.colour =>
        /\ s.binding.paint \in Found => s.look.body = White
        /\ s.binding.paint = -1 => s.look.body = s.car.colour
Plated(s) ==
    /\ s.look.plate = s.binding.last /\ s.samp = s.binding.last
    /\ s.binding.text # None => s.look.plate = s.binding.text
Seen(s) == s.car.bumper => s.look.seen
Good(s) ==
    /\ s.look.custom /\ Liveried(s) /\ Tinted(s) /\ Fitted(s) /\ Meshed(s)
    /\ Painted(s) /\ Plated(s) /\ Seen(s)

\* What a packet, a coat or a wheel leaves alone.
SameAsked(s, t) ==
    /\ t.binding.bound = s.binding.bound /\ t.binding.at = s.binding.at
    /\ t.binding.paint = s.binding.paint /\ t.binding.tint = s.binding.tint
    /\ t.binding.rims = s.binding.rims /\ t.binding.wheel = s.binding.wheel
    /\ t.binding.extras = s.binding.extras /\ t.binding.text = s.binding.text
    /\ t.binding.mesh = s.binding.mesh /\ t.binding.colour = s.binding.colour
SamePlate(s, t) ==
    /\ t.binding.last = s.binding.last /\ t.samp = s.samp
    /\ t.look.plate = s.look.plate /\ t.look.mesh = s.look.mesh
    /\ t.look.seen = s.look.seen
SamePaint(s, t) ==
    /\ t.look.texture = s.look.texture /\ t.look.body = s.look.body
    /\ t.binding.resolved = s.binding.resolved /\ t.binding.texture = s.binding.texture
SameCar(s, t) == t.car = s.car
SameRest(s, t) == t.look.custom = s.look.custom /\ t.look.extras = s.look.extras

-----------------------------------------------------------------------------
(* Operations on such a record.                                             *)

LEMMA Colours1 ==
  ASSUME NEW s \in State
  PROVE  LET t == SetEditableMaterials(s) IN
         /\ t \in State
         /\ SameAsked(s, t) /\ SamePlate(s, t) /\ SamePaint(s, t) /\ SameCar(s, t)
         /\ SameRest(s, t) /\ t.look.glass = s.look.glass
BY DEF State, BindingType, CarType, LookType, Paints, Maybe, SetEditableMaterials,
   SameAsked, SamePlate, SamePaint, SameCar, SameRest

\* A record with another clump, and one with another binding.
LEMMA OtherLook ==
  ASSUME NEW s \in State, NEW t, NEW l \in LookType,
         t = [s EXCEPT !.look = l]
  PROVE  /\ t \in State /\ t.look = l
         /\ t.binding = s.binding /\ t.samp = s.samp /\ t.car = s.car
BY DEF State

LEMMA Colours2 ==
  ASSUME NEW s \in State
  PROVE  LET t == ApplyVehicleColors(s) IN
         /\ t \in State
         /\ SameAsked(s, t) /\ SamePlate(s, t) /\ SameCar(s, t)
         /\ SameRest(s, t) /\ t.look.glass = s.look.glass
         /\ t.look.texture = s.look.texture /\ t.look.body = s.car.colour
         /\ t.binding = s.binding
<1> DEFINE t == ApplyVehicleColors(s)
           l == [s.look EXCEPT !.panel = IF @ = Marker THEN s.car.colour ELSE @,
                               !.body = s.car.colour]
<1>1. t = [s EXCEPT !.look = l]
  BY DEF ApplyVehicleColors, State
<1>2. s.look \in LookType /\ s.car.colour \in Paints
  BY DEF State, CarType, Paints, Maybe
<1>3. /\ l \in LookType
      /\ l.custom = s.look.custom /\ l.texture = s.look.texture
      /\ l.body = s.car.colour /\ l.glass = s.look.glass
      /\ l.extras = s.look.extras /\ l.plate = s.look.plate
      /\ l.mesh = s.look.mesh /\ l.seen = s.look.seen
  BY <1>2 DEF LookType
<1> HIDE DEF t, l
<1>4. t \in State /\ t.look = l /\ t.binding = s.binding /\ t.samp = s.samp /\ t.car = s.car
  BY <1>1, <1>3, OtherLook
<1> QED BY <1>3, <1>4 DEF SameAsked, SamePlate, SameCar, SameRest, t

\* A binding that remembers the texture of an index.
Remembers(b, i, x) == [b EXCEPT !.resolved = i, !.texture = x]

LEMMA ResolvedBinding ==
  ASSUME NEW s \in State, NEW i \in Paintjobs \cup {-1}, NEW x \in Maybe(Found)
  PROVE  LET b == Remembers(s.binding, i, x) IN
         /\ b \in BindingType /\ b.resolved = i /\ b.texture = x
         /\ b.bound = s.binding.bound /\ b.at = s.binding.at
         /\ b.paint = s.binding.paint /\ b.tint = s.binding.tint
         /\ b.rims = s.binding.rims /\ b.wheel = s.binding.wheel
         /\ b.extras = s.binding.extras /\ b.text = s.binding.text
         /\ b.mesh = s.binding.mesh /\ b.colour = s.binding.colour
         /\ b.last = s.binding.last
<1> DEFINE b == Remembers(s.binding, i, x)
           c == [s.binding EXCEPT !.resolved = i]
<1>0. b = [c EXCEPT !.texture = x]
  BY DEF Remembers
<1> HIDE DEF b
<1>1. /\ c \in BindingType /\ c.resolved = i
      /\ c.bound = s.binding.bound /\ c.at = s.binding.at
      /\ c.paint = s.binding.paint /\ c.tint = s.binding.tint
      /\ c.rims = s.binding.rims /\ c.wheel = s.binding.wheel
      /\ c.extras = s.binding.extras /\ c.text = s.binding.text
      /\ c.mesh = s.binding.mesh /\ c.colour = s.binding.colour
      /\ c.last = s.binding.last
  BY DEF State, BindingType
<1> HIDE DEF c
<1>2. /\ b \in BindingType /\ b.resolved = c.resolved /\ b.texture = x
      /\ b.bound = c.bound /\ b.at = c.at
      /\ b.paint = c.paint /\ b.tint = c.tint
      /\ b.rims = c.rims /\ b.wheel = c.wheel
      /\ b.extras = c.extras /\ b.text = c.text
      /\ b.mesh = c.mesh /\ b.colour = c.colour
      /\ b.last = c.last
  BY <1>0, <1>1 DEF BindingType
<1> QED BY <1>1, <1>2 DEF b

LEMMA OtherBinding ==
  ASSUME NEW s \in State, NEW t, NEW b \in BindingType,
         t = [s EXCEPT !.binding = b]
  PROVE  /\ t \in State /\ t.binding = b
         /\ t.look = s.look /\ t.samp = s.samp /\ t.car = s.car
BY DEF State

LEMMA OtherCar ==
  ASSUME NEW s \in State, NEW t, NEW c \in CarType,
         t = [s EXCEPT !.car = c]
  PROVE  /\ t \in State /\ t.car = c
         /\ t.binding = s.binding /\ t.samp = s.samp /\ t.look = s.look
BY DEF State

LEMMA Restored ==
  ASSUME NEW s \in State
  PROVE  LET t == RestoreOriginalMaterials(s) IN
         /\ t \in State
         /\ SameAsked(s, t) /\ SamePlate(s, t) /\ SameCar(s, t) /\ SameRest(s, t)
         /\ t.look.glass = s.look.glass /\ t.look.body = s.look.body
         /\ t.look.texture = Original /\ t.binding = s.binding
<1> DEFINE t == RestoreOriginalMaterials(s)
           l == [s.look EXCEPT !.texture = Original]
<1>1. t = [s EXCEPT !.look = l]
  BY DEF RestoreOriginalMaterials, State
<1>2. s.look \in LookType
  BY DEF State
<1>3. /\ l \in LookType
      /\ l.custom = s.look.custom /\ l.texture = Original
      /\ l.body = s.look.body /\ l.glass = s.look.glass
      /\ l.extras = s.look.extras /\ l.plate = s.look.plate
      /\ l.mesh = s.look.mesh /\ l.seen = s.look.seen
  BY <1>2 DEF LookType
<1> HIDE DEF t, l
<1>4. t \in State /\ t.look = l /\ t.binding = s.binding /\ t.samp = s.samp /\ t.car = s.car
  BY <1>1, <1>3, OtherLook
<1> QED BY <1>3, <1>4 DEF SameAsked, SamePlate, SameCar, SameRest, t

LEMMA Replaced ==
  ASSUME Regular, NEW s \in State, NEW texture \in Found
  PROVE  LET t == WithLivery(s, texture) IN
         /\ t \in State
         /\ SameAsked(s, t) /\ SamePlate(s, t) /\ SameCar(s, t) /\ SameRest(s, t)
         /\ t.look.glass = s.look.glass /\ t.look.body = White
         /\ t.look.texture = texture /\ t.binding = s.binding
<1> DEFINE t == WithLivery(s, texture)
           l == [s.look EXCEPT !.texture = texture, !.body = White]
<1>1. s.look \in LookType /\ Replaceable(s.look.texture)
  BY DEF State, LookType, Replaceable, Regular
<1>2. t = [s EXCEPT !.look = l]
  BY <1>1 DEF WithLivery, State
<1>3. /\ l \in LookType
      /\ l.custom = s.look.custom /\ l.texture = texture
      /\ l.body = White /\ l.glass = s.look.glass
      /\ l.extras = s.look.extras /\ l.plate = s.look.plate
      /\ l.mesh = s.look.mesh /\ l.seen = s.look.seen
  BY <1>1 DEF LookType, Paints
<1> HIDE DEF t, l
<1>4. t \in State /\ t.look = l /\ t.binding = s.binding /\ t.samp = s.samp /\ t.car = s.car
  BY <1>2, <1>3, OtherLook
<1> QED BY <1>3, <1>4 DEF SameAsked, SamePlate, SameCar, SameRest, t

\* What a paintjob does to a clump, and to what the binding remembers of it.
LEMMA PaintjobFacts ==
  ASSUME Regular, NEW s \in State, ResolvedRight(s), NEW i \in Paintjobs \cup {-1}
  PROVE  LET t == ApplyPaintjobToVehicle(s, i) IN
         /\ t \in State /\ ResolvedRight(t)
         /\ SameAsked(s, t) /\ SamePlate(s, t) /\ SameCar(s, t) /\ SameRest(s, t)
         /\ t.look.glass = s.look.glass
         /\ t.look.texture = IF i \in Found THEN i ELSE Original
         /\ i \in Found => t.look.body = White
         /\ i = -1 => t.look.body = s.car.colour
<1> DEFINE t == ApplyPaintjobToVehicle(s, i)
<1>1. s.binding \in BindingType
  BY DEF State
<1>2. CASE i < 0
  <2> DEFINE b == Remembers(s.binding, i, None)
             r == [s EXCEPT !.binding.resolved = -1, !.binding.texture = None]
             u == RestoreOriginalMaterials(r)
             v == SetEditableMaterials(u)
             w == ApplyVehicleColors(v)
  <2>1. i = -1 /\ i \notin Found /\ t = w
    BY <1>2, AppearanceAssumption DEF ApplyPaintjobToVehicle, NoPaintjob
  <2>2. r = [s EXCEPT !.binding = b]
    BY <2>1 DEF State, Remembers
  <2>3. /\ b \in BindingType /\ b.resolved = -1
        /\ b.bound = s.binding.bound /\ b.at = s.binding.at
        /\ b.paint = s.binding.paint /\ b.tint = s.binding.tint
        /\ b.rims = s.binding.rims /\ b.wheel = s.binding.wheel
        /\ b.extras = s.binding.extras /\ b.text = s.binding.text
        /\ b.mesh = s.binding.mesh /\ b.colour = s.binding.colour
        /\ b.last = s.binding.last
    <3>1. None \in Maybe(Found)
      BY DEF Maybe
    <3> QED BY <2>1, <3>1, ResolvedBinding
  <2> HIDE DEF b, r, t
  <2>4. r \in State /\ r.binding = b /\ r.look = s.look /\ r.samp = s.samp /\ r.car = s.car
    BY <2>2, <2>3, OtherBinding
  <2>5. /\ u \in State
        /\ SameAsked(r, u) /\ SamePlate(r, u) /\ SameCar(r, u) /\ SameRest(r, u)
        /\ u.look.glass = r.look.glass /\ u.look.texture = Original
        /\ u.binding = b
    BY <2>4, Restored
  <2> HIDE DEF u
  <2>6. /\ v \in State
        /\ SameAsked(u, v) /\ SamePlate(u, v) /\ SameCar(u, v) /\ SameRest(u, v)
        /\ v.look.glass = u.look.glass /\ v.look.texture = Original
        /\ v.binding.resolved = -1
    BY <2>3, <2>5, Colours1 DEF SamePaint
  <2> HIDE DEF v
  <2>7. /\ w \in State
        /\ SameAsked(v, w) /\ SamePlate(v, w) /\ SameCar(v, w) /\ SameRest(v, w)
        /\ w.look.glass = v.look.glass /\ w.look.texture = Original
        /\ w.binding.resolved = -1 /\ w.look.body = v.car.colour
    BY <2>6, Colours2
  <2> HIDE DEF w
  <2>8. SameAsked(s, w) /\ SamePlate(s, w) /\ SameCar(s, w) /\ SameRest(s, w)
        /\ w.look.glass = s.look.glass /\ w.look.body = s.car.colour
    BY <2>3, <2>4, <2>5, <2>6, <2>7 DEF SameAsked, SamePlate, SameCar, SameRest
  <2> QED BY <2>1, <2>7, <2>8 DEF ResolvedRight, t
<1>3. CASE ~(i < 0)
  <2> DEFINE r == Resolved(s, i)
             u == SetEditableMaterials(r)
             v == WithLivery(u, i)
             w == SetEditableMaterials(v)
             o == RestoreOriginalMaterials(r)
  <2>1. i \in Nat /\ i # -1 /\ i \in Paintjobs /\ t = Livery(r)
    BY <1>3, AppearanceAssumption DEF ApplyPaintjobToVehicle
  <2>2. /\ r \in State /\ r.look = s.look /\ r.samp = s.samp /\ r.car = s.car
        /\ SameAsked(s, r) /\ r.binding.last = s.binding.last
        /\ r.binding.resolved = i
        /\ r.binding.texture = IF i \in Found THEN i ELSE None
    <3>1. CASE s.binding.resolved = i
      BY <3>1, <2>1 DEF Resolved, ResolvedRight, SameAsked
    <3>2. CASE s.binding.resolved # i
      <4> DEFINE b == Remembers(s.binding, i, IF i \in Found THEN i ELSE None)
      <4>1. r = [s EXCEPT !.binding = b]
        BY <3>2 DEF Resolved, State, Remembers
      <4>2. /\ b \in BindingType /\ b.resolved = i
            /\ b.texture = IF i \in Found THEN i ELSE None
            /\ b.bound = s.binding.bound /\ b.at = s.binding.at
            /\ b.paint = s.binding.paint /\ b.tint = s.binding.tint
            /\ b.rims = s.binding.rims /\ b.wheel = s.binding.wheel
            /\ b.extras = s.binding.extras /\ b.text = s.binding.text
            /\ b.mesh = s.binding.mesh /\ b.colour = s.binding.colour
            /\ b.last = s.binding.last
        <5> DEFINE x == IF i \in Found THEN i ELSE None
        <5>1. x \in Maybe(Found)
          BY DEF Maybe
        <5>2. b = Remembers(s.binding, i, x)
          OBVIOUS
        <5> HIDE DEF x, b
        <5> QED BY <5>1, <5>2, ResolvedBinding DEF x
      <4> HIDE DEF b, r
      <4> QED BY <4>1, <4>2, OtherBinding DEF SameAsked
    <3> QED BY <3>1, <3>2
  <2> HIDE DEF r, t
  <2>3. ResolvedRight(r) /\ SamePlate(s, r) /\ SameCar(s, r) /\ SameRest(s, r)
    BY <2>2 DEF ResolvedRight, SamePlate, SameCar, SameRest
  <2>4. CASE i \in Found
    <3>1. t = w
      <4>1. r.binding.texture = i /\ i # None
        BY <2>2, <2>4, AppearanceAssumption
      <4> QED BY <4>1, <2>1 DEF Livery
    <3>2. /\ u \in State
          /\ SameAsked(r, u) /\ SamePlate(r, u) /\ SameCar(r, u) /\ SameRest(r, u)
          /\ u.look.glass = r.look.glass /\ SamePaint(r, u)
      BY <2>2, Colours1
    <3> HIDE DEF u
    <3>3. /\ v \in State
          /\ SameAsked(u, v) /\ SamePlate(u, v) /\ SameCar(u, v) /\ SameRest(u, v)
          /\ v.look.glass = u.look.glass /\ v.look.body = White
          /\ v.look.texture = i /\ v.binding = u.binding
      BY <2>4, <3>2, Replaced
    <3> HIDE DEF v
    <3>4. /\ w \in State
          /\ SameAsked(v, w) /\ SamePlate(v, w) /\ SameCar(v, w) /\ SameRest(v, w)
          /\ w.look.glass = v.look.glass /\ SamePaint(v, w)
      BY <3>3, Colours1
    <3> HIDE DEF w
    <3>5. /\ SameAsked(s, w) /\ SamePlate(s, w) /\ SameCar(s, w) /\ SameRest(s, w)
          /\ w.look.glass = s.look.glass /\ w.look.body = White /\ w.look.texture = i
          /\ ResolvedRight(w)
      BY <2>2, <2>3, <3>2, <3>3, <3>4
         DEF SameAsked, SamePlate, SameCar, SameRest, SamePaint, ResolvedRight
    <3> QED BY <2>1, <2>4, <3>1, <3>4, <3>5 DEF t
  <2>5. CASE i \notin Found
    <3>1. t = o
      BY <2>1, <2>2, <2>5 DEF Livery
    <3>2. /\ o \in State
          /\ SameAsked(r, o) /\ SamePlate(r, o) /\ SameCar(r, o) /\ SameRest(r, o)
          /\ o.look.glass = r.look.glass /\ o.look.texture = Original
          /\ o.binding = r.binding
      BY <2>2, Restored
    <3> HIDE DEF o
    <3>3. /\ SameAsked(s, o) /\ SamePlate(s, o) /\ SameCar(s, o) /\ SameRest(s, o)
          /\ o.look.glass = s.look.glass /\ ResolvedRight(o)
      BY <2>2, <2>3, <3>2
         DEF SameAsked, SamePlate, SameCar, SameRest, ResolvedRight
    <3> QED BY <2>1, <2>5, <3>1, <3>2, <3>3 DEF t
  <2> QED BY <2>4, <2>5
<1> QED BY <1>2, <1>3

LEMMA TintFacts ==
  ASSUME NEW s \in State, NEW tint \in Tints \cup {NoTint}
  PROVE  LET t == ApplyWindowTintToVehicle(s, tint) IN
         /\ t \in State /\ t.binding = s.binding /\ t.look.glass = tint
         /\ SameAsked(s, t) /\ SamePlate(s, t) /\ SamePaint(s, t) /\ SameCar(s, t)
         /\ SameRest(s, t)
<1> DEFINE t == ApplyWindowTintToVehicle(s, tint)
           l == [s.look EXCEPT !.glass = tint,
                               !.pane = IF Translucent(@) THEN tint ELSE @]
<1>1. t = [s EXCEPT !.look = l]
  BY DEF ApplyWindowTintToVehicle, State
<1>2. s.look \in LookType
  BY DEF State
<1>3. /\ l \in LookType
      /\ l.custom = s.look.custom /\ l.texture = s.look.texture
      /\ l.body = s.look.body /\ l.glass = tint
      /\ l.extras = s.look.extras /\ l.plate = s.look.plate
      /\ l.mesh = s.look.mesh /\ l.seen = s.look.seen
  BY <1>2 DEF LookType, Glasses
<1> HIDE DEF t, l
<1>4. t \in State /\ t.look = l /\ t.binding = s.binding /\ t.samp = s.samp /\ t.car = s.car
  BY <1>1, <1>3, OtherLook
<1> QED BY <1>3, <1>4 DEF SameAsked, SamePlate, SamePaint, SameCar, SameRest, t

LEMMA RimsFacts ==
  ASSUME NEW s \in State, NEW colour \in WheelColours \cup {White}
  PROVE  LET t == ApplyWheelColorToVehicle(s, colour) IN
         /\ t \in State /\ t.binding = s.binding /\ t.look.glass = s.look.glass
         /\ SameAsked(s, t) /\ SamePlate(s, t) /\ SamePaint(s, t) /\ SameCar(s, t)
         /\ SameRest(s, t)
<1> DEFINE t == ApplyWheelColorToVehicle(s, colour)
           l == [s.look EXCEPT !.rims = colour]
<1>1. t = [s EXCEPT !.look = l]
  BY DEF ApplyWheelColorToVehicle, State
<1>2. s.look \in LookType
  BY DEF State
<1>3. /\ l \in LookType
      /\ l.custom = s.look.custom /\ l.texture = s.look.texture
      /\ l.body = s.look.body /\ l.glass = s.look.glass
      /\ l.extras = s.look.extras /\ l.plate = s.look.plate
      /\ l.mesh = s.look.mesh /\ l.seen = s.look.seen
  BY <1>2 DEF LookType
<1> HIDE DEF t, l
<1>4. t \in State /\ t.look = l /\ t.binding = s.binding /\ t.samp = s.samp /\ t.car = s.car
  BY <1>1, <1>3, OtherLook
<1> QED BY <1>3, <1>4 DEF SameAsked, SamePlate, SamePaint, SameCar, SameRest, t

LEMMA ExtrasFacts ==
  ASSUME NEW s \in State, NEW mask \in Maybe(Extras) \cup {Original}
  PROVE  LET t == ApplyExtrasToClump(s, mask) IN
         /\ t \in State /\ t.binding = s.binding /\ t.look.glass = s.look.glass
         /\ SameAsked(s, t) /\ SamePlate(s, t) /\ SamePaint(s, t) /\ SameCar(s, t)
         /\ t.look.custom = s.look.custom /\ t.look.extras = mask
<1> DEFINE t == ApplyExtrasToClump(s, mask)
           l == [s.look EXCEPT !.extras = mask]
<1>1. t = [s EXCEPT !.look = l]
  BY DEF ApplyExtrasToClump, State
<1>2. s.look \in LookType
  BY DEF State
<1>3. /\ l \in LookType
      /\ l.custom = s.look.custom /\ l.texture = s.look.texture
      /\ l.body = s.look.body /\ l.glass = s.look.glass
      /\ l.extras = mask /\ l.plate = s.look.plate
      /\ l.mesh = s.look.mesh /\ l.seen = s.look.seen
  BY <1>2 DEF LookType
<1> HIDE DEF t, l
<1>4. t \in State /\ t.look = l /\ t.binding = s.binding /\ t.samp = s.samp /\ t.car = s.car
  BY <1>1, <1>3, OtherLook
<1> QED BY <1>3, <1>4 DEF SameAsked, SamePlate, SamePaint, SameCar, t

\* The three coats in turn: none undoes another.
LEMMA CoatedFacts ==
  ASSUME Regular, NEW s \in State, ResolvedRight(s)
  PROVE  LET t == Coated(s) IN
         /\ t \in State /\ ResolvedRight(t)
         /\ SameAsked(s, t) /\ SamePlate(s, t) /\ SameCar(s, t) /\ SameRest(s, t)
         /\ s.look.texture = Original \/ Liveried(s) => Liveried(t)
         /\ Tinted(t)
         /\ t.binding.paint \in Found => t.look.body = White
         /\ t.binding.paint = -1 => t.look.body \in {s.look.body, s.car.colour}
<1> DEFINE u == WithPaintjob(s)
           v == WithTint(u)
           w == WithRims(v)
<1>1. /\ s.binding.paint \in Paintjobs \cup {-1}
      /\ s.binding.paint = -1 \/ s.binding.paint \in Nat
      /\ -1 \notin Found
      /\ s.binding.tint \in Tints \cup {NoTint}
      /\ s.binding.rims \in WheelColours \cup {White}
  <2>1. s.binding \in BindingType
    BY DEF State
  <2>2. s.binding.paint \in Paintjobs \cup {-1}
    BY <2>1 DEF BindingType
  <2>3. s.binding.paint = -1 \/ s.binding.paint \in Nat
    BY <2>2, AppearanceAssumption
  <2>4. -1 \notin Found
    BY AppearanceAssumption
  <2>5. s.binding.tint \in Tints \cup {NoTint} /\ s.binding.rims \in WheelColours \cup {White}
    BY <2>1 DEF BindingType
  <2> QED BY <2>2, <2>3, <2>4, <2>5
<1>2. /\ u \in State /\ ResolvedRight(u)
      /\ SameAsked(s, u) /\ SamePlate(s, u) /\ SameCar(s, u) /\ SameRest(s, u)
      /\ s.look.texture = Original \/ Liveried(s) => Liveried(u)
      /\ s.binding.paint \in Found => u.look.body = White
      /\ s.binding.paint = -1 => u.look.body \in {s.look.body, s.car.colour}
  <2>1. CASE s.binding.paint >= 0
    <3>1. u = ApplyPaintjobToVehicle(s, s.binding.paint) /\ s.binding.paint # -1
      BY <2>1 DEF WithPaintjob
    <3> HIDE DEF u
    <3>2. /\ u \in State /\ ResolvedRight(u)
          /\ SameAsked(s, u) /\ SamePlate(s, u) /\ SameCar(s, u) /\ SameRest(s, u)
          /\ u.look.texture = IF s.binding.paint \in Found THEN s.binding.paint ELSE Original
          /\ s.binding.paint \in Found => u.look.body = White
      BY <1>1, <3>1, PaintjobFacts
    <3>3. u.binding.paint = s.binding.paint
      BY <3>2 DEF SameAsked
    <3> QED BY <3>1, <3>2, <3>3 DEF Liveried
  <2>2. CASE ~(s.binding.paint >= 0)
    <3>1. u = s /\ s.binding.paint = -1
      BY <1>1, <2>2 DEF WithPaintjob
    <3> HIDE DEF u
    <3> QED BY <1>1, <3>1 DEF Liveried, SameAsked, SamePlate, SameCar, SameRest
  <2> QED BY <2>1, <2>2
<1> HIDE DEF u
<1>3. u.binding.tint = s.binding.tint /\ u.binding.rims = s.binding.rims
      /\ u.binding.paint = s.binding.paint
  BY <1>2 DEF SameAsked
<1>4. /\ v \in State /\ v.binding = u.binding /\ Tinted(v)
      /\ SameAsked(u, v) /\ SamePlate(u, v) /\ SamePaint(u, v) /\ SameCar(u, v)
      /\ SameRest(u, v)
  <2>1. CASE u.binding.tint # NoTint
    <3>1. v = ApplyWindowTintToVehicle(u, u.binding.tint)
      BY <2>1 DEF WithTint
    <3> HIDE DEF v
    <3> QED BY <1>1, <1>2, <1>3, <3>1, TintFacts DEF Tinted
  <2>2. CASE u.binding.tint = NoTint
    <3>1. v = u
      BY <2>2 DEF WithTint
    <3> HIDE DEF v
    <3> QED BY <1>2, <2>2, <3>1
            DEF Tinted, SameAsked, SamePlate, SamePaint, SameCar, SameRest
  <2> QED BY <2>1, <2>2
<1> HIDE DEF v
<1>5. /\ w \in State /\ w.binding = v.binding /\ w.look.glass = v.look.glass
      /\ SameAsked(v, w) /\ SamePlate(v, w) /\ SamePaint(v, w) /\ SameCar(v, w)
      /\ SameRest(v, w)
  <2>1. CASE v.binding.rims # White
    <3>1. w = ApplyWheelColorToVehicle(v, v.binding.rims)
      BY <2>1 DEF WithRims
    <3> HIDE DEF w
    <3> QED BY <1>1, <1>3, <1>4, <3>1, RimsFacts
  <2>2. CASE v.binding.rims = White
    <3>1. w = v
      BY <2>2 DEF WithRims
    <3> HIDE DEF w
    <3> QED BY <1>4, <3>1
            DEF SameAsked, SamePlate, SamePaint, SameCar, SameRest
  <2> QED BY <2>1, <2>2
<1> HIDE DEF w
<1>6. Coated(s) = w
  BY DEF Coated, u, v, w
<1>7. ResolvedRight(w) /\ Tinted(w) /\ (Liveried(u) => Liveried(w))
  BY <1>2, <1>4, <1>5 DEF ResolvedRight, Tinted, Liveried, SamePaint
<1>8. /\ SameAsked(s, w) /\ SamePlate(s, w) /\ SameCar(s, w) /\ SameRest(s, w)
      /\ w.look.body = u.look.body /\ w.binding.paint = s.binding.paint
  BY <1>2, <1>4, <1>5 DEF SameAsked, SamePlate, SamePaint, SameCar, SameRest
<1> QED BY <1>2, <1>5, <1>6, <1>7, <1>8

-----------------------------------------------------------------------------
(* Wheels and plates.                                                       *)

\* All but the rims of the clump and the wheel of the car.
SameButWheel(s, t) ==
    /\ t.binding = s.binding /\ t.samp = s.samp
    /\ t.car.at = s.car.at /\ t.car.colour = s.car.colour /\ t.car.bumper = s.car.bumper
    /\ t.look.custom = s.look.custom /\ t.look.texture = s.look.texture
    /\ t.look.body = s.look.body /\ t.look.glass = s.look.glass
    /\ t.look.extras = s.look.extras /\ t.look.plate = s.look.plate
    /\ t.look.mesh = s.look.mesh /\ t.look.seen = s.look.seen

LEMMA UpgradeFacts ==
  ASSUME NEW s \in State, NEW wheel \in Maybe(Wheels)
  PROVE  LET t == AddVehicleUpgrade(s, wheel) IN
         t \in State /\ t.car.wheel = wheel /\ SameButWheel(s, t)
<1> DEFINE t == AddVehicleUpgrade(s, wheel)
           c == [s.car EXCEPT !.wheel = wheel]
           l == [s.look EXCEPT !.rims = Original]
           u == [s EXCEPT !.car = c]
<1>1. t = [u EXCEPT !.look = l]
  BY DEF AddVehicleUpgrade, State
<1>2. s.look \in LookType /\ s.car \in CarType
  BY DEF State
<1>3. /\ l \in LookType
      /\ l.custom = s.look.custom /\ l.texture = s.look.texture
      /\ l.body = s.look.body /\ l.glass = s.look.glass
      /\ l.extras = s.look.extras /\ l.plate = s.look.plate
      /\ l.mesh = s.look.mesh /\ l.seen = s.look.seen
  BY <1>2 DEF LookType
<1>4. /\ c \in CarType /\ c.at = s.car.at /\ c.colour = s.car.colour
      /\ c.bumper = s.car.bumper /\ c.wheel = wheel
  BY <1>2 DEF CarType
<1> HIDE DEF t, l, c
<1>5. u \in State /\ u.car = c /\ u.binding = s.binding /\ u.samp = s.samp
  BY <1>4, OtherCar
<1> HIDE DEF u
<1>6. t \in State /\ t.look = l /\ t.binding = u.binding /\ t.samp = u.samp /\ t.car = u.car
  BY <1>1, <1>3, <1>5, OtherLook
<1> QED BY <1>3, <1>4, <1>5, <1>6 DEF SameButWheel, t

LEMMA WheelFacts ==
  ASSUME NEW s \in State, NEW wheel \in Maybe(Wheels)
  PROVE  LET t == ApplyWheelToVehicle(s, wheel) IN
         t \in State /\ t.car.wheel = wheel /\ SameButWheel(s, t)
<1> DEFINE t == ApplyWheelToVehicle(s, wheel)
           u == AddVehicleUpgrade(s, wheel)
<1>1. u \in State /\ u.car.wheel = wheel /\ SameButWheel(s, u)
  BY UpgradeFacts
<1> HIDE DEF u
<1>2. CASE wheel # None
  <2>1. t = WithRims(u)
    BY <1>2 DEF ApplyWheelToVehicle, u
  <2>2. u.binding.rims \in WheelColours \cup {White}
    BY <1>1 DEF State, BindingType
  <2>3. CASE u.binding.rims # White
    <3>1. t = ApplyWheelColorToVehicle(u, u.binding.rims)
      BY <2>1, <2>3 DEF WithRims
    <3> HIDE DEF t
    <3>2. /\ t \in State /\ t.binding = u.binding /\ t.look.glass = u.look.glass
          /\ SamePlate(u, t) /\ SamePaint(u, t) /\ SameCar(u, t) /\ SameRest(u, t)
      BY <1>1, <2>2, <3>1, RimsFacts
    <3> QED BY <1>1, <3>2
            DEF SameButWheel, SamePlate, SamePaint, SameCar, SameRest, t
  <2>4. CASE u.binding.rims = White
    <3>1. t = u
      BY <2>1, <2>4 DEF WithRims
    <3> HIDE DEF t
    <3> QED BY <1>1, <3>1 DEF t
  <2> QED BY <2>3, <2>4
<1>3. CASE wheel = None /\ s.car.wheel # None
  <2>1. t = u
    BY <1>3 DEF ApplyWheelToVehicle, u
  <2> HIDE DEF t
  <2> QED BY <1>1, <2>1 DEF t
<1>4. CASE wheel = None /\ s.car.wheel = None
  <2>1. t = s
    BY <1>4 DEF ApplyWheelToVehicle
  <2> HIDE DEF t
  <2> QED BY <1>4, <2>1 DEF SameButWheel, t
<1> QED BY <1>2, <1>3, <1>4

\* The wheels the binding or the model asks for.
WheelRight(s) ==
    /\ s.binding.wheel # None => s.car.wheel = s.binding.wheel
    /\ s.binding.wheel = None => ModelWheel = None \/ s.car.wheel # None

LEMMA OwnWheelFacts ==
  ASSUME NEW s \in State
  PROVE  LET t == OwnWheel(s) IN
         /\ t \in State /\ SameButWheel(s, t) /\ WheelRight(t)
         /\ WheelRight(s) => t = s
<1> DEFINE t == OwnWheel(s)
<1>1. s.binding.wheel \in Maybe(Wheels) /\ ModelWheel \in Maybe(Wheels)
  BY AppearanceAssumption DEF State, BindingType, Maybe
<1>2. CASE s.binding.wheel # None /\ s.car.wheel # s.binding.wheel
  <2>1. t = ApplyWheelToVehicle(s, s.binding.wheel)
    BY <1>2 DEF OwnWheel
  <2> HIDE DEF t
  <2>2. t \in State /\ t.car.wheel = s.binding.wheel /\ SameButWheel(s, t)
    BY <1>1, <2>1, WheelFacts
  <2> QED BY <1>2, <2>2 DEF WheelRight, SameButWheel, t
<1>3. CASE s.binding.wheel = None /\ ModelWheel # None /\ s.car.wheel = None
  <2>1. t = ApplyWheelToVehicle(s, ModelWheel)
    BY <1>3 DEF OwnWheel
  <2> HIDE DEF t
  <2>2. t \in State /\ t.car.wheel = ModelWheel /\ SameButWheel(s, t)
    BY <1>1, <2>1, WheelFacts
  <2> QED BY <1>3, <2>2 DEF WheelRight, SameButWheel, t
<1>4. CASE WheelRight(s)
  <2>1. t = s
    BY <1>4 DEF OwnWheel, WheelRight
  <2> HIDE DEF t
  <2> QED BY <1>4, <2>1 DEF SameButWheel, t
<1> QED BY <1>2, <1>3, <1>4 DEF WheelRight

LEMMA ReupgradedFacts ==
  ASSUME NEW s \in State
  PROVE  LET t == Reupgraded(s) IN t \in State /\ SameButWheel(s, t)
<1> DEFINE t == Reupgraded(s)
<1>1. CASE s.car.wheel # None
  <2>1. t = AddVehicleUpgrade(s, s.car.wheel) /\ s.car.wheel \in Maybe(Wheels)
    BY <1>1 DEF Reupgraded, State, CarType
  <2> HIDE DEF t
  <2> QED BY <2>1, UpgradeFacts DEF t
<1>2. CASE s.car.wheel = None
  <2>1. t = s
    BY <1>2 DEF Reupgraded
  <2> HIDE DEF t
  <2> QED BY <2>1 DEF SameButWheel, t
<1> QED BY <1>1, <1>2

\* All but the plate.
SameButPlate(s, t) ==
    /\ SameAsked(s, t) /\ SamePaint(s, t) /\ SameCar(s, t) /\ SameRest(s, t)
    /\ t.look.glass = s.look.glass

LEMMA MeshFacts ==
  ASSUME NEW s \in State, NEW mesh \in Meshes \cup {Disabled}
  PROVE  LET t == CreatePlateQuadAtomic(s, mesh) IN
         /\ t \in State /\ SameButPlate(s, t) /\ t.binding = s.binding
         /\ t.samp = s.samp /\ t.look.plate = s.look.plate
         /\ t.look.mesh = (IF mesh = Disabled THEN None ELSE mesh)
         /\ s.look.seen => t.look.seen
<1> DEFINE t == CreatePlateQuadAtomic(s, mesh)
           l == [s.look EXCEPT !.mesh = IF mesh = Disabled THEN None ELSE mesh,
                               !.seen = IF s.look.mesh = None THEN TRUE ELSE @]
<1>1. t = [s EXCEPT !.look = l]
  BY DEF CreatePlateQuadAtomic, State
<1>2. s.look \in LookType
  BY DEF State
<1>3. /\ l \in LookType
      /\ l.custom = s.look.custom /\ l.texture = s.look.texture
      /\ l.body = s.look.body /\ l.glass = s.look.glass
      /\ l.extras = s.look.extras /\ l.plate = s.look.plate
      /\ l.mesh = (IF mesh = Disabled THEN None ELSE mesh)
      /\ l.seen = (IF s.look.mesh = None THEN TRUE ELSE s.look.seen)
  BY <1>2 DEF LookType, Maybe
<1> HIDE DEF t, l
<1>4. t \in State /\ t.look = l /\ t.binding = s.binding /\ t.samp = s.samp /\ t.car = s.car
  BY <1>1, <1>3, OtherLook
<1> QED BY <1>3, <1>4 DEF SameButPlate, SameAsked, SamePaint, SameCar, SameRest, t

LEMMA VisibilityFacts ==
  ASSUME NEW s \in State
  PROVE  LET t == UpdateVehiclePlateVisibility(s) IN
         /\ t \in State /\ SameButPlate(s, t) /\ t.binding = s.binding
         /\ t.samp = s.samp /\ t.look.plate = s.look.plate
         /\ t.look.mesh = s.look.mesh /\ Seen(t)
<1> DEFINE t == UpdateVehiclePlateVisibility(s)
           l == [s.look EXCEPT !.seen = s.look.mesh = None \/ s.car.bumper]
<1>1. t = [s EXCEPT !.look = l]
  BY DEF UpdateVehiclePlateVisibility, State
<1>2. s.look \in LookType /\ s.car.bumper \in BOOLEAN
  BY DEF State, CarType
<1>3. /\ l \in LookType
      /\ l.custom = s.look.custom /\ l.texture = s.look.texture
      /\ l.body = s.look.body /\ l.glass = s.look.glass
      /\ l.extras = s.look.extras /\ l.plate = s.look.plate
      /\ l.mesh = s.look.mesh /\ (s.car.bumper => l.seen)
  BY <1>2 DEF LookType
<1> HIDE DEF t, l
<1>4. t \in State /\ t.look = l /\ t.binding = s.binding /\ t.samp = s.samp /\ t.car = s.car
  BY <1>1, <1>3, OtherLook
<1> QED BY <1>3, <1>4 DEF SameButPlate, SameAsked, SamePaint, SameCar, SameRest, Seen, t

LEMMA TextFacts ==
  ASSUME NEW s \in State, NEW default \in Maybe(Texts)
  PROVE  /\ EffectiveText(s, default) \in Plates /\ None \notin Plates
         /\ s.binding.text # None => EffectiveText(s, default) = s.binding.text
<1>1. s.binding.text \in Maybe(Texts) /\ s.samp \in Maybe(Plates)
  BY DEF State, BindingType
<1> QED BY <1>1, AppearanceAssumption DEF EffectiveText, Maybe, Plates

\* A text that was put on is chosen again.
LEMMA TextSettles ==
  ASSUME NEW s \in State, NEW t \in State, NEW default \in Maybe(Texts),
         t.binding.text = s.binding.text, t.samp = EffectiveText(s, default)
  PROVE  EffectiveText(t, default) = t.samp
<1>1. s.binding.text \in Maybe(Texts) /\ s.samp \in Maybe(Plates)
  BY DEF State, BindingType
<1> QED BY <1>1, AppearanceAssumption DEF EffectiveText, Maybe, Plates

LEMMA MeshChosen ==
  ASSUME NEW s \in State, NEW default \in Maybe(Meshes \cup {Disabled})
  PROVE  /\ EffectiveMesh(s, default) \in Maybe(Meshes \cup {Disabled})
         /\ s.binding.mesh # None => EffectiveMesh(s, default) = s.binding.mesh
<1>1. s.binding.mesh \in Maybe(Meshes \cup {Disabled})
  BY DEF State, BindingType
<1> QED BY <1>1 DEF EffectiveMesh, Maybe

\* A text that is noted, by the binding and by SA-MP.
Noted(s, text) == UpdateSampVehiclePlateText([s EXCEPT !.binding.last = text], text)

LEMMA NotedFacts ==
  ASSUME NEW s \in State, NEW text \in Plates
  PROVE  LET t == Noted(s, text) IN
         /\ t \in State /\ SameButPlate(s, t) /\ t.look = s.look
         /\ t.binding.last = text
         /\ s.car.at # None => t.samp = text
<1> DEFINE t == Noted(s, text)
           b == [s.binding EXCEPT !.last = text]
           u == [s EXCEPT !.binding = b]
<1>1. s.binding \in BindingType
  BY DEF State
<1>2. /\ b \in BindingType /\ b.resolved = s.binding.resolved
      /\ b.texture = s.binding.texture
      /\ b.bound = s.binding.bound /\ b.at = s.binding.at
      /\ b.paint = s.binding.paint /\ b.tint = s.binding.tint
      /\ b.rims = s.binding.rims /\ b.wheel = s.binding.wheel
      /\ b.extras = s.binding.extras /\ b.text = s.binding.text
      /\ b.mesh = s.binding.mesh /\ b.colour = s.binding.colour
      /\ b.last = text
  BY <1>1 DEF BindingType, Maybe
<1>3. t = [u EXCEPT !.samp = IF u.car.at # None THEN text ELSE u.samp]
  BY DEF Noted, UpdateSampVehiclePlateText, State
<1> HIDE DEF t, b
<1>4. u \in State /\ u.binding = b /\ u.look = s.look /\ u.samp = s.samp /\ u.car = s.car
  BY <1>2, OtherBinding
<1> HIDE DEF u
<1>5. /\ t \in State /\ t.binding = u.binding /\ t.look = u.look /\ t.car = u.car
      /\ t.samp = IF u.car.at # None THEN text ELSE u.samp
  BY <1>3, <1>4 DEF State, Maybe
<1> QED BY <1>2, <1>4, <1>5 DEF SameButPlate, SameAsked, SamePaint, SameCar, SameRest, t

LEMMA ClumpFacts ==
  ASSUME NEW s \in State, NEW text \in Plates, NEW mesh \in Maybe(Meshes \cup {Disabled})
  PROVE  LET t == ApplyPlateToClump(s, text, mesh) IN
         /\ t \in State /\ SameButPlate(s, t) /\ t.binding = s.binding
         /\ t.samp = s.samp /\ t.look.plate = text
         /\ mesh # None => t.look.mesh = (IF mesh = Disabled THEN None ELSE mesh)
<1> DEFINE t == ApplyPlateToClump(s, text, mesh)
           u == IF mesh # None THEN CreatePlateQuadAtomic(s, mesh) ELSE s
           l == [u.look EXCEPT !.plate = text]
<1>1. /\ u \in State /\ SameButPlate(s, u) /\ u.binding = s.binding
      /\ u.samp = s.samp
      /\ mesh # None => u.look.mesh = (IF mesh = Disabled THEN None ELSE mesh)
  <2>1. CASE mesh # None
    <3>1. u = CreatePlateQuadAtomic(s, mesh) /\ mesh \in Meshes \cup {Disabled}
      BY <2>1 DEF Maybe
    <3> HIDE DEF u
    <3> QED BY <3>1, MeshFacts
  <2>2. CASE mesh = None
    BY <2>2 DEF SameButPlate, SameAsked, SamePaint, SameCar, SameRest
  <2> QED BY <2>1, <2>2
<1>2. t = [u EXCEPT !.look = l]
  <2>1. t = [u EXCEPT !.look.plate = text]
    BY DEF ApplyPlateToClump
  <2> HIDE DEF t, u
  <2> QED BY <1>1, <2>1 DEF State
<1> HIDE DEF u
<1>3. u.look \in LookType
  BY <1>1 DEF State
<1>4. /\ l \in LookType
      /\ l.custom = u.look.custom /\ l.texture = u.look.texture
      /\ l.body = u.look.body /\ l.glass = u.look.glass
      /\ l.extras = u.look.extras /\ l.plate = text
      /\ l.mesh = u.look.mesh /\ l.seen = u.look.seen
  BY <1>3 DEF LookType, Maybe
<1> HIDE DEF t, l
<1>5. t \in State /\ t.look = l /\ t.binding = u.binding /\ t.samp = u.samp /\ t.car = u.car
  BY <1>1, <1>2, <1>4, OtherLook
<1> QED BY <1>1, <1>4, <1>5 DEF SameButPlate, SameAsked, SamePaint, SameCar, SameRest, t

\* A plate put on a vehicle in the world: the binding, SA-MP and the clump
\* agree, the mesh is the binding's and seen.
LEMMA PlateFacts ==
  ASSUME NEW s \in State, NEW text \in Maybe(Plates), NEW default \in Maybe(Texts),
         NEW mesh \in Maybe(Meshes \cup {Disabled}), s.car.at # None
  PROVE  LET t == ApplyPlateToVehicle(s, text, default, mesh) IN
         /\ t \in State /\ SameButPlate(s, t) /\ Meshed(t) /\ Seen(t)
         /\ t.binding.last \in Plates
         /\ t.look.plate = t.binding.last /\ t.samp = t.binding.last
         /\ t.binding.last = IF text # None THEN text ELSE EffectiveText(s, default)
<1> DEFINE t == ApplyPlateToVehicle(s, text, default, mesh)
           final == IF text # None THEN text ELSE EffectiveText(s, default)
           front == EffectiveMesh(s, mesh)
           n == Noted(s, final)
           c == ApplyPlateToClump(n, final, front)
<1>1. t = UpdateVehiclePlateVisibility(c)
  BY DEF ApplyPlateToVehicle, Noted
<1>2. final \in Plates
  BY TextFacts DEF Maybe
<1>3. front \in Maybe(Meshes \cup {Disabled}) /\ (s.binding.mesh # None => front = s.binding.mesh)
  BY MeshChosen
<1> HIDE DEF t, final, front, n, c
<1>4. /\ n \in State /\ SameButPlate(s, n) /\ n.look = s.look
      /\ n.binding.last = final /\ n.samp = final
  BY <1>2, NotedFacts DEF n
<1>5. /\ c \in State /\ SameButPlate(n, c) /\ c.binding = n.binding
      /\ c.samp = n.samp /\ c.look.plate = final
      /\ front # None => c.look.mesh = (IF front = Disabled THEN None ELSE front)
  BY <1>2, <1>3, <1>4, ClumpFacts DEF c
<1>6. /\ t \in State /\ SameButPlate(c, t) /\ t.binding = c.binding
      /\ t.samp = c.samp /\ t.look.plate = c.look.plate
      /\ t.look.mesh = c.look.mesh /\ Seen(t)
  BY <1>1, <1>5, VisibilityFacts
<1>7. SameButPlate(s, t)
  BY <1>4, <1>5, <1>6 DEF SameButPlate, SameAsked, SamePaint, SameCar, SameRest
<1>8. Meshed(t)
  BY <1>3, <1>5, <1>6, <1>7 DEF Meshed, SameButPlate, SameAsked
<1> QED BY <1>2, <1>4, <1>5, <1>6, <1>7, <1>8 DEF t, final

LEMMA SameText ==
  ASSUME NEW s, NEW t, NEW default, t.binding.text = s.binding.text, t.samp = s.samp
  PROVE  EffectiveText(t, default) = EffectiveText(s, default)
BY DEF EffectiveText

-----------------------------------------------------------------------------
(* A repair, a vehicle that streams in, a check.                            *)

ModelTypes ==
    modelText \in Maybe(Texts) /\ modelMesh \in Maybe(Meshes \cup {Disabled})

LEMMA WheelKeepsGood ==
  ASSUME NEW s, NEW t, SameButWheel(s, t)
  PROVE  /\ Good(s) => Good(t)
         /\ ResolvedRight(s) => ResolvedRight(t)
         /\ SameAsked(s, t)
BY DEF SameButWheel, Good, Liveried, Tinted, Fitted, Meshed, Painted, Plated, Seen,
   ResolvedRight, SameAsked

\* The colours of the vehicle, then the coats.
Repainted(s) == Coated(ApplyVehicleColors(SetEditableMaterials(s)))

LEMMA RepaintedFacts ==
  ASSUME Regular, NEW s \in State, ResolvedRight(s)
  PROVE  LET t == Repainted(s) IN
         /\ t \in State /\ ResolvedRight(t)
         /\ SameAsked(s, t) /\ SamePlate(s, t) /\ SameCar(s, t) /\ SameRest(s, t)
         /\ s.look.texture = Original \/ Liveried(s) => Liveried(t)
         /\ Tinted(t) /\ Painted(t)
<1> DEFINE u == SetEditableMaterials(s)
           v == ApplyVehicleColors(u)
           t == Coated(v)
<1>1. /\ u \in State
      /\ SameAsked(s, u) /\ SamePlate(s, u) /\ SamePaint(s, u) /\ SameCar(s, u)
      /\ SameRest(s, u)
  BY Colours1
<1> HIDE DEF u
<1>2. /\ v \in State
      /\ SameAsked(u, v) /\ SamePlate(u, v) /\ SameCar(u, v) /\ SameRest(u, v)
      /\ v.look.texture = u.look.texture /\ v.look.body = u.car.colour
      /\ v.binding = u.binding
  BY <1>1, Colours2
<1> HIDE DEF v
<1>3. /\ ResolvedRight(v)
      /\ s.look.texture = Original \/ Liveried(s) => v.look.texture = Original \/ Liveried(v)
      /\ v.look.body = v.car.colour
  BY <1>1, <1>2 DEF ResolvedRight, Liveried, SamePaint, SameAsked, SameCar
<1>4. /\ t \in State /\ ResolvedRight(t)
      /\ SameAsked(v, t) /\ SamePlate(v, t) /\ SameCar(v, t) /\ SameRest(v, t)
      /\ v.look.texture = Original \/ Liveried(v) => Liveried(t)
      /\ Tinted(t)
      /\ t.binding.paint \in Found => t.look.body = White
      /\ t.binding.paint = -1 => t.look.body \in {v.look.body, v.car.colour}
  BY <1>2, <1>3, CoatedFacts
<1>5. Repainted(s) = t
  BY DEF Repainted, u, v
<1> HIDE DEF t
<1>6. SameAsked(s, t) /\ SamePlate(s, t) /\ SameCar(s, t) /\ SameRest(s, t)
  BY <1>1, <1>2, <1>4 DEF SameAsked, SamePlate, SameCar, SameRest
<1>7. Painted(t)
  BY <1>3, <1>4 DEF Painted, SameCar
<1> QED BY <1>3, <1>4, <1>5, <1>6, <1>7

LEMMA WithExtrasFacts ==
  ASSUME NEW s \in State
  PROVE  LET t == WithExtras(s) IN
         /\ t \in State /\ t.binding = s.binding /\ t.look.glass = s.look.glass
         /\ SameAsked(s, t) /\ SamePlate(s, t) /\ SamePaint(s, t) /\ SameCar(s, t)
         /\ t.look.custom = s.look.custom /\ Fitted(t)
<1> DEFINE t == WithExtras(s)
<1>1. CASE s.binding.extras # None
  <2>1. t = ApplyExtrasToClump(s, s.binding.extras)
    BY <1>1 DEF WithExtras
  <2>2. s.binding.extras \in Maybe(Extras) \cup {Original}
    BY DEF State, BindingType
  <2> HIDE DEF t
  <2> QED BY <2>1, <2>2, ExtrasFacts DEF Fitted, t
<1>2. CASE s.binding.extras = None
  <2>1. t = s
    BY <1>2 DEF WithExtras
  <2> HIDE DEF t
  <2> QED BY <1>2, <2>1
          DEF Fitted, SameAsked, SamePlate, SamePaint, SameCar, t
<1> QED BY <1>1, <1>2

LEMMA RedressedFacts ==
  ASSUME Regular, ModelTypes, NEW s \in State, ResolvedRight(s), s.car.at # None
  PROVE  LET t == Redressed(s) IN
         /\ t \in State /\ ResolvedRight(t) /\ SameAsked(s, t) /\ SameCar(s, t)
         /\ s.look.custom /\ Liveried(s) /\ Meshed(s) /\ Plated(s) => Good(t)
<1> DEFINE t == Redressed(s)
           e == WithExtras(s)
           c == Repainted(e)
           text == IF s.binding.text # None THEN s.binding.text ELSE s.binding.last
           p == IF text # None THEN ApplyPlateToVehicle(c, text, modelText, modelMesh) ELSE c
<1>1. t = UpdateVehiclePlateVisibility(p)
  BY DEF Redressed, Repainted
<1>2. /\ text \in Maybe(Plates)
      /\ s.binding.text # None => text = s.binding.text /\ text # None
      /\ text = None => s.binding.text = None
  BY DEF State, BindingType, Maybe, Plates
<1>3. /\ e \in State /\ e.binding = s.binding
      /\ SameAsked(s, e) /\ SamePlate(s, e) /\ SamePaint(s, e) /\ SameCar(s, e)
      /\ e.look.custom = s.look.custom /\ Fitted(e)
  BY WithExtrasFacts
<1> HIDE DEF t, e, text
<1>4. ResolvedRight(e) /\ (Liveried(s) => Liveried(e))
  BY <1>3 DEF ResolvedRight, Liveried, SamePaint
<1>5. /\ c \in State /\ ResolvedRight(c)
      /\ SameAsked(e, c) /\ SamePlate(e, c) /\ SameCar(e, c) /\ SameRest(e, c)
      /\ Liveried(e) => Liveried(c)
      /\ Tinted(c) /\ Painted(c)
  BY <1>3, <1>4, RepaintedFacts
<1> HIDE DEF c
<1>6. c.car.at # None
  BY <1>3, <1>5 DEF SameCar
<1>7. /\ p \in State /\ SameButPlate(c, p)
      /\ Meshed(s) => Meshed(p)
      /\ Plated(s) => Plated(p)
  <2>1. CASE text # None
    <3>1. p = ApplyPlateToVehicle(c, text, modelText, modelMesh)
      BY <2>1
    <3> HIDE DEF p
    <3>2. /\ p \in State /\ SameButPlate(c, p) /\ Meshed(p)
          /\ p.look.plate = p.binding.last /\ p.samp = p.binding.last
          /\ p.binding.last = text
      BY <1>2, <1>5, <1>6, <2>1, <3>1, PlateFacts DEF ModelTypes
    <3>3. p.binding.text = s.binding.text
      BY <1>3, <1>5, <3>2 DEF SameButPlate, SameAsked
    <3> QED BY <1>2, <3>2, <3>3 DEF Plated
  <2>2. CASE text = None
    <3>1. p = c
      BY <2>2
    <3> HIDE DEF p
    <3>2. SameAsked(s, c) /\ SamePlate(s, c)
      BY <1>3, <1>5 DEF SameAsked, SamePlate
    <3>3. (Meshed(s) => Meshed(c)) /\ (Plated(s) => Plated(c))
      BY <3>2 DEF Meshed, Plated, SameAsked, SamePlate
    <3> QED BY <1>5, <3>1, <3>3
            DEF SameButPlate, SameAsked, SamePaint, SameCar, SameRest
  <2> QED BY <2>1, <2>2
<1> HIDE DEF p
<1>8. /\ t \in State /\ SameButPlate(p, t) /\ t.binding = p.binding
      /\ t.samp = p.samp /\ t.look.plate = p.look.plate
      /\ t.look.mesh = p.look.mesh /\ Seen(t)
  BY <1>1, <1>7, VisibilityFacts
<1>9. /\ SameAsked(s, t) /\ SameCar(s, t)
      /\ t.look.custom = s.look.custom /\ ResolvedRight(t)
      /\ Liveried(s) => Liveried(t)
      /\ Tinted(t) /\ Painted(t) /\ Fitted(t)
  BY <1>3, <1>4, <1>5, <1>7, <1>8
     DEF SameButPlate, SameAsked, SameCar, SameRest, SamePaint,
         Liveried, Tinted, Painted, Fitted, ResolvedRight
<1>10. (Meshed(s) => Meshed(t)) /\ (Plated(s) => Plated(t))
  BY <1>7, <1>8 DEF Meshed, Plated, SameButPlate
<1> QED BY <1>8, <1>9, <1>10 DEF Good, t

\* What a check compares.
Settled(s) ==
    /\ s.car.colour = s.binding.colour
    /\ EffectiveText(s, modelText) = s.binding.last
    /\ WheelRight(s)

LEMMA CloneType == Clone(TRUE) \in LookType /\ Clone(FALSE) \in LookType
BY DEF Clone, LookType, Paints, Glasses, Maybe

LEMMA RenewedFacts ==
  ASSUME NEW s \in State, ResolvedRight(s)
  PROVE  LET t == Renewed(s) IN
         /\ t \in State /\ ResolvedRight(t) /\ SameAsked(s, t)
         /\ t.samp = s.samp /\ t.car.at = s.car.at /\ t.car.colour = s.car.colour
         /\ t.look.custom /\ t.look.texture = Original
<1> DEFINE i == IF s.binding.at # None THEN -999 ELSE s.binding.resolved
           b == [s.binding EXCEPT !.resolved = i]
           c == [s.car EXCEPT !.bumper = TRUE]
           l == Clone(TRUE)
           u == [s EXCEPT !.look = l]
           v == [u EXCEPT !.car = c]
           w == [v EXCEPT !.binding = b]
           t == SetEditableMaterials(w)
<1>1. s.binding \in BindingType /\ s.car \in CarType
  BY DEF State
<1>2. i \in Paintjobs \cup {-1, -2, -999} /\ (i >= 0 => i = s.binding.resolved)
  <2>1. s.binding.resolved \in Paintjobs \cup {-1, -2, -999}
    BY <1>1 DEF BindingType
  <2> QED BY <2>1
<1>3. Renewed(s) = t
  <2>1. w = [s EXCEPT !.look = l, !.car.bumper = TRUE,
                      !.binding.resolved = IF s.binding.at # None THEN -999 ELSE @]
    BY DEF State
  <2> QED BY <2>1 DEF Renewed
<1> HIDE DEF i
<1>4. /\ b \in BindingType /\ b.resolved = i
      /\ b.texture = s.binding.texture
      /\ b.bound = s.binding.bound /\ b.at = s.binding.at
      /\ b.paint = s.binding.paint /\ b.tint = s.binding.tint
      /\ b.rims = s.binding.rims /\ b.wheel = s.binding.wheel
      /\ b.extras = s.binding.extras /\ b.text = s.binding.text
      /\ b.mesh = s.binding.mesh /\ b.colour = s.binding.colour
  BY <1>1, <1>2 DEF BindingType
<1>5. c \in CarType /\ c.at = s.car.at /\ c.colour = s.car.colour
  BY <1>1 DEF CarType
<1>6. l \in LookType /\ l.custom /\ l.texture = Original
  BY CloneType DEF Clone
<1> HIDE DEF b, c, l
<1>7. u \in State /\ u.look = l /\ u.binding = s.binding /\ u.samp = s.samp /\ u.car = s.car
  BY <1>6, OtherLook
<1> HIDE DEF u
<1>8. v \in State /\ v.car = c /\ v.binding = u.binding /\ v.samp = u.samp /\ v.look = u.look
  BY <1>5, <1>7, OtherCar
<1> HIDE DEF v
<1>9. w \in State /\ w.binding = b /\ w.look = v.look /\ w.samp = v.samp /\ w.car = v.car
  BY <1>4, <1>8, OtherBinding
<1> HIDE DEF w
<1>10. /\ t \in State
       /\ SameAsked(w, t) /\ SamePlate(w, t) /\ SamePaint(w, t) /\ SameCar(w, t)
       /\ SameRest(w, t)
  BY <1>9, Colours1
<1> HIDE DEF t
<1>11. ResolvedRight(t)
  BY <1>2, <1>4, <1>9, <1>10 DEF ResolvedRight, SamePaint
<1>12. SameAsked(s, t)
  BY <1>4, <1>9, <1>10 DEF SameAsked
<1> QED BY <1>3, <1>5, <1>6, <1>7, <1>8, <1>9, <1>10, <1>11, <1>12
        DEF SamePlate, SamePaint, SameCar, SameRest

\* A binding that is applied to a vehicle.
AppliedTo(b, at, colour) == [b EXCEPT !.at = at, !.colour = colour]

LEMMA EntryAt ==
  ASSUME NEW x \in BindingType, NEW at \in Maybe(Addresses)
  PROVE  LET b == [x EXCEPT !.at = at] IN
         /\ b \in BindingType /\ b.at = at
         /\ b.resolved = x.resolved /\ b.texture = x.texture
         /\ b.mesh = x.mesh /\ b.bound = x.bound
BY DEF BindingType

LEMMA AppliedBinding ==
  ASSUME NEW x \in BindingType, NEW at \in Maybe(Addresses), NEW colour \in Maybe(Colours)
  PROVE  LET b == AppliedTo(x, at, colour) IN
         /\ b \in BindingType /\ b.at = at /\ b.colour = colour
         /\ b.resolved = x.resolved /\ b.texture = x.texture
         /\ b.bound = x.bound /\ b.paint = x.paint
         /\ b.tint = x.tint /\ b.rims = x.rims
         /\ b.wheel = x.wheel /\ b.extras = x.extras
         /\ b.text = x.text /\ b.mesh = x.mesh
         /\ b.last = x.last
<1> DEFINE y == [x EXCEPT !.at = at]
           z == [y EXCEPT !.colour = colour]
<1>1. /\ y \in BindingType /\ y.at = at
      /\ y.resolved = x.resolved /\ y.texture = x.texture
      /\ y.bound = x.bound /\ y.paint = x.paint
      /\ y.tint = x.tint /\ y.rims = x.rims
      /\ y.wheel = x.wheel /\ y.extras = x.extras
      /\ y.text = x.text /\ y.mesh = x.mesh
      /\ y.last = x.last
  BY DEF BindingType
<1>2. AppliedTo(x, at, colour) = z
  BY DEF AppliedTo
<1> HIDE DEF y
<1>3. /\ z \in BindingType /\ z.at = y.at /\ z.colour = colour
      /\ z.resolved = y.resolved /\ z.texture = y.texture
      /\ z.bound = y.bound /\ z.paint = y.paint
      /\ z.tint = y.tint /\ z.rims = y.rims
      /\ z.wheel = y.wheel /\ z.extras = y.extras
      /\ z.text = y.text /\ z.mesh = y.mesh
      /\ z.last = y.last
  BY <1>1 DEF BindingType
<1> HIDE DEF z
<1> QED BY <1>1, <1>2, <1>3

LEMMA RenewalFacts ==
  ASSUME Regular, ModelTypes, Now \in State, ResolvedRight(Now), There
  PROVE  /\ Renewal \in State /\ ResolvedRight(Renewal) /\ Good(Renewal)
         /\ Settled(Renewal)
         /\ Renewal.binding.bound = binding.bound /\ Renewal.binding.mesh = binding.mesh
         /\ Renewal.binding.at = car.at /\ Renewal.car.at = car.at
<1> DEFINE r == Renewed(Now)
           text == EffectiveText(r, modelText)
           n == Noted(r, text)
           front == EffectiveMesh(r, modelMesh)
           p == ApplyPlateToClump(n, text, front)
           e == WithExtras(p)
           g == Reupgraded(e)
           w == OwnWheel(g)
           b == AppliedTo(w.binding, car.at, car.colour)
           m == [w EXCEPT !.binding = b]
           v == ApplyVehicleColors(m)
           c == Coated(v)
           t == UpdateVehiclePlateVisibility(c)
<1>1. Now.car = car /\ Now.binding = binding /\ Now.samp = samp /\ Now.look = look
  BY DEF Now
<1>2. /\ r \in State /\ ResolvedRight(r) /\ SameAsked(Now, r)
      /\ r.samp = samp /\ r.car.at = car.at /\ r.car.colour = car.colour
      /\ r.look.custom /\ r.look.texture = Original
  BY <1>1, RenewedFacts
<1>3. text \in Plates /\ (r.binding.text # None => text = r.binding.text)
  BY <1>2, TextFacts DEF ModelTypes
<1>4. Renewal = t
  <2>1. WithPlate(r) = p
    BY DEF WithPlate, Noted
  <2>2. m = [w EXCEPT !.binding.at = car.at, !.binding.colour = car.colour]
    <3>1. w \in State
      <4> HIDE DEF r, text, front
      <4>1. n \in State
        BY <1>2, <1>3, NotedFacts
      <4>2. front \in Maybe(Meshes \cup {Disabled})
        BY <1>2, MeshChosen DEF ModelTypes, front
      <4> HIDE DEF n
      <4>3. p \in State
        BY <1>3, <4>1, <4>2, ClumpFacts
      <4> HIDE DEF p
      <4>4. e \in State
        BY <4>3, WithExtrasFacts
      <4> HIDE DEF e
      <4>5. g \in State
        BY <4>4, ReupgradedFacts
      <4> HIDE DEF g
      <4> QED BY <4>5, OwnWheelFacts
    <3> HIDE DEF w
    <3> QED BY <3>1 DEF State, AppliedTo
  <2>3. Renewal = UpdateVehiclePlateVisibility(Coated(ApplyVehicleColors(
            [w EXCEPT !.binding.at = car.at, !.binding.colour = car.colour])))
    <3> HIDE DEF r, n, text, front
    <3>1. WithPlate(Renewed(Now)) = p
      BY <2>1 DEF r
    <3> HIDE DEF p
    <3> QED BY <3>1 DEF Renewal
  <2> HIDE DEF m
  <2> QED BY <2>2, <2>3
<1> HIDE DEF r, text
<1>5. /\ n \in State /\ SameButPlate(r, n) /\ n.look = r.look
      /\ n.binding.last = text /\ n.samp = text
  <2>1. r.car.at # None
    BY <1>2 DEF There
  <2> QED BY <1>2, <1>3, <2>1, NotedFacts
<1> HIDE DEF n
<1>6. /\ front \in Maybe(Meshes \cup {Disabled})
      /\ n.binding.mesh # None => front = n.binding.mesh
  BY <1>2, <1>5, MeshChosen DEF ModelTypes, SameButPlate, SameAsked
<1> HIDE DEF front
<1>7. /\ p \in State /\ SameButPlate(n, p) /\ p.binding = n.binding
      /\ p.samp = n.samp /\ p.look.plate = text
      /\ front # None => p.look.mesh = (IF front = Disabled THEN None ELSE front)
  BY <1>3, <1>5, <1>6, ClumpFacts
<1> HIDE DEF p
<1>8. /\ e \in State /\ e.binding = p.binding
      /\ SameAsked(p, e) /\ SamePlate(p, e) /\ SamePaint(p, e) /\ SameCar(p, e)
      /\ e.look.custom = p.look.custom /\ Fitted(e)
  BY <1>7, WithExtrasFacts
<1> HIDE DEF e
<1>9. g \in State /\ SameButWheel(e, g)
  BY <1>8, ReupgradedFacts
<1> HIDE DEF g
<1>10. w \in State /\ SameButWheel(g, w) /\ WheelRight(w)
  BY <1>9, OwnWheelFacts
<1> HIDE DEF w
\* The vehicle so far.
<1>11. /\ SameAsked(Now, w) /\ ResolvedRight(w)
       /\ w.look.custom /\ w.look.texture = Original /\ Fitted(w)
       /\ w.car.at = car.at /\ w.car.colour = car.colour
       /\ w.look.plate = text /\ w.samp = text /\ w.binding.last = text
       /\ Meshed(w) /\ w.binding.text = r.binding.text
  <2>1. SameAsked(Now, p)
    BY <1>2, <1>5, <1>7 DEF SameAsked, SameButPlate
  <2>2. SameAsked(Now, w)
    BY <2>1, <1>8, <1>9, <1>10 DEF SameAsked, SameButWheel
  <2>3. ResolvedRight(p) /\ p.look.custom /\ p.look.texture = Original /\ SameCar(r, p)
        /\ p.samp = text /\ p.binding.last = text
    BY <1>2, <1>5, <1>7 DEF SameButPlate, SamePaint, SameRest, SameCar, ResolvedRight
  <2>4. Meshed(p)
    BY <1>5, <1>6, <1>7 DEF Meshed
  <2>5. /\ ResolvedRight(e) /\ e.look.custom /\ e.look.texture = Original
        /\ e.samp = text /\ e.binding.last = text /\ e.look.plate = text
        /\ e.car = r.car /\ Meshed(e)
    BY <1>7, <1>8, <2>3, <2>4
       DEF SameAsked, SamePaint, SamePlate, SameCar, ResolvedRight, Meshed
  <2>6. w.binding.text = r.binding.text
    BY <1>2, <2>2 DEF SameAsked
  <2> QED BY <1>2, <1>8, <1>9, <1>10, <2>2, <2>5, <2>6
          DEF SameButWheel, ResolvedRight, Meshed, Fitted
<1>12. /\ b \in BindingType /\ b.at = car.at /\ b.colour = car.colour
       /\ b.resolved = w.binding.resolved /\ b.texture = w.binding.texture
       /\ b.bound = w.binding.bound /\ b.paint = w.binding.paint
       /\ b.tint = w.binding.tint /\ b.rims = w.binding.rims
       /\ b.wheel = w.binding.wheel /\ b.extras = w.binding.extras
       /\ b.text = w.binding.text /\ b.mesh = w.binding.mesh
       /\ b.last = w.binding.last
  <2>1. w.binding \in BindingType
    BY <1>10 DEF State
  <2>2. car.at \in Maybe(Addresses) /\ car.colour \in Maybe(Colours)
    BY <1>1 DEF State, CarType
  <2> QED BY <2>1, <2>2, AppliedBinding
<1> HIDE DEF b
<1>13. m \in State /\ m.binding = b /\ m.look = w.look /\ m.samp = w.samp /\ m.car = w.car
  BY <1>10, <1>12, OtherBinding
<1> HIDE DEF m
<1>14. /\ v \in State
       /\ SameAsked(m, v) /\ SamePlate(m, v) /\ SameCar(m, v) /\ SameRest(m, v)
       /\ v.look.texture = m.look.texture /\ v.look.body = m.car.colour
       /\ v.binding = m.binding
  BY <1>13, Colours2
<1> HIDE DEF v
<1>15. ResolvedRight(v) /\ v.look.texture = Original
  BY <1>11, <1>12, <1>13, <1>14 DEF ResolvedRight
<1>16. /\ c \in State /\ ResolvedRight(c)
       /\ SameAsked(v, c) /\ SamePlate(v, c) /\ SameCar(v, c) /\ SameRest(v, c)
       /\ Liveried(c) /\ Tinted(c)
       /\ c.binding.paint \in Found => c.look.body = White
       /\ c.binding.paint = -1 => c.look.body \in {v.look.body, v.car.colour}
  BY <1>14, <1>15, CoatedFacts
<1> HIDE DEF c
<1>17. /\ t \in State /\ SameButPlate(c, t) /\ t.binding = c.binding
       /\ t.samp = c.samp /\ t.look.plate = c.look.plate
       /\ t.look.mesh = c.look.mesh /\ Seen(t)
  BY <1>16, VisibilityFacts
<1> HIDE DEF t
<1>18. /\ t.binding.at = car.at /\ t.binding.colour = car.colour
       /\ t.binding.bound = w.binding.bound
       /\ t.binding.wheel = w.binding.wheel /\ t.binding.extras = w.binding.extras
       /\ t.binding.text = w.binding.text /\ t.binding.mesh = w.binding.mesh
       /\ t.binding.last = text /\ t.samp = text /\ t.look.plate = text
       /\ t.look.mesh = w.look.mesh /\ t.look.custom /\ t.look.extras = w.look.extras
       /\ t.car = w.car
  BY <1>11, <1>12, <1>13, <1>14, <1>16, <1>17
     DEF SameAsked, SamePlate, SameCar, SameRest, SameButPlate
<1>19. Liveried(t) /\ Tinted(t) /\ Painted(t) /\ ResolvedRight(t)
  BY <1>13, <1>14, <1>16, <1>17
     DEF Liveried, Tinted, Painted, ResolvedRight, SameButPlate, SamePaint, SameCar
<1>20. Fitted(t) /\ Meshed(t) /\ Plated(t)
  BY <1>3, <1>11, <1>18 DEF Fitted, Meshed, Plated
<1>21. Settled(t)
  <2>1. EffectiveText(t, modelText) = t.samp
    <3>1. t.binding.text = r.binding.text /\ t.samp = EffectiveText(r, modelText)
      BY <1>11, <1>18 DEF text
    <3> QED BY <1>2, <1>17, <3>1, TextSettles DEF ModelTypes
  <2>2. WheelRight(t)
    BY <1>10, <1>18 DEF WheelRight
  <2> QED BY <1>11, <1>18, <2>1, <2>2 DEF Settled
<1>22. /\ t.binding.bound = binding.bound /\ t.binding.mesh = binding.mesh
       /\ t.car.at = car.at
  BY <1>1, <1>11, <1>18 DEF SameAsked
<1> QED BY <1>4, <1>17, <1>18, <1>19, <1>20, <1>21, <1>22 DEF Good

\* A plate that is put on leaves the rest in order.
Coats(s) ==
    ResolvedRight(s) /\ s.look.custom /\ Liveried(s) /\ Tinted(s) /\ Fitted(s) /\ Painted(s)

LEMMA PlatedFacts ==
  ASSUME NEW s \in State, NEW text \in Maybe(Plates), NEW default \in Maybe(Texts),
         NEW mesh \in Maybe(Meshes \cup {Disabled}), s.car.at # None, Coats(s),
         s.binding.text # None => text \in {None, s.binding.text}
  PROVE  LET t == ApplyPlateToVehicle(s, text, default, mesh) IN
         /\ t \in State /\ SameButPlate(s, t) /\ ResolvedRight(t) /\ Good(t)
         /\ t.samp = t.binding.last
         /\ t.binding.last = IF text # None THEN text ELSE EffectiveText(s, default)
<1> DEFINE t == ApplyPlateToVehicle(s, text, default, mesh)
<1>2. /\ t \in State /\ SameButPlate(s, t) /\ Meshed(t) /\ Seen(t)
      /\ t.look.plate = t.binding.last /\ t.samp = t.binding.last
      /\ t.binding.last = IF text # None THEN text ELSE EffectiveText(s, default)
  BY PlateFacts
<1> HIDE DEF t
<1>3. ResolvedRight(t) /\ Liveried(t) /\ Tinted(t) /\ Fitted(t) /\ Painted(t) /\ t.look.custom
  BY <1>2 DEF SameButPlate, SameAsked, SamePaint, SameCar, SameRest, ResolvedRight, Coats,
              Liveried, Tinted, Fitted, Painted
<1>4. Plated(t)
  <2>1. s.binding.text # None => t.binding.last = s.binding.text
    BY <1>2, TextFacts
  <2> QED BY <1>2, <2>1 DEF Plated, SameButPlate, SameAsked
<1> QED BY <1>2, <1>3, <1>4 DEF Good, t

LEMMA ReplatedFacts ==
  ASSUME ModelTypes, NEW s \in State, NEW text \in Plates, s.car.at # None,
         ResolvedRight(s), Good(s), s.binding.text # None => text = s.binding.text
  PROVE  LET t == ApplyPlateToVehicle(s, text, modelText, modelMesh) IN
         /\ t \in State /\ SameButPlate(s, t) /\ ResolvedRight(t) /\ Good(t)
         /\ t.binding.last = text /\ t.samp = text
<1>1. text # None /\ text \in Maybe(Plates)
  BY TextFacts DEF Maybe, ModelTypes
<1>2. Coats(s)
  BY DEF Good, Coats
<1>3. modelText \in Maybe(Texts) /\ modelMesh \in Maybe(Meshes \cup {Disabled})
  BY DEF ModelTypes
<1>4. s.binding.text # None => text \in {None, s.binding.text}
  OBVIOUS
<1> DEFINE t == ApplyPlateToVehicle(s, text, modelText, modelMesh)
<1>5. /\ t \in State /\ SameButPlate(s, t) /\ ResolvedRight(t) /\ Good(t)
      /\ t.samp = t.binding.last
      /\ t.binding.last = IF text # None THEN text ELSE EffectiveText(s, modelText)
  BY <1>1, <1>2, <1>3, <1>4, PlatedFacts
<1> HIDE DEF t
<1> QED BY <1>1, <1>5 DEF t

LEMMA RecolouredFacts ==
  ASSUME Regular, ModelTypes, NEW s \in State, ResolvedRight(s), Good(s), s.car.at # None
  PROVE  LET t == Recoloured(s) IN
         /\ t \in State /\ ResolvedRight(t) /\ Good(t) /\ SameCar(s, t)
         /\ t.binding.colour = s.car.colour
         /\ t.binding.bound = s.binding.bound /\ t.binding.at = s.binding.at
         /\ t.binding.mesh = s.binding.mesh
<1> DEFINE t == Recoloured(s)
           b == [s.binding EXCEPT !.colour = s.car.colour]
           n == [s EXCEPT !.binding = b]
           c == Repainted(n)
<1>1. s.binding \in BindingType /\ s.car.colour \in Maybe(Colours)
  BY DEF State, CarType
<1>2. /\ b \in BindingType /\ b.colour = s.car.colour
      /\ b.resolved = s.binding.resolved /\ b.texture = s.binding.texture
      /\ b.bound = s.binding.bound /\ b.at = s.binding.at
      /\ b.paint = s.binding.paint /\ b.tint = s.binding.tint
      /\ b.rims = s.binding.rims /\ b.wheel = s.binding.wheel
      /\ b.extras = s.binding.extras /\ b.text = s.binding.text
      /\ b.mesh = s.binding.mesh /\ b.last = s.binding.last
  BY <1>1 DEF BindingType
<1>3. t = IF s.binding.last # None
          THEN ApplyPlateToVehicle(c, s.binding.last, modelText, modelMesh) ELSE c
  <2>1. n = [s EXCEPT !.binding.colour = s.car.colour]
    BY DEF State
  <2> HIDE DEF n
  <2> QED BY <2>1 DEF Recoloured, Repainted
<1> HIDE DEF t, b
<1>4. n \in State /\ n.binding = b /\ n.look = s.look /\ n.samp = s.samp /\ n.car = s.car
  BY <1>2, OtherBinding
<1> HIDE DEF n
<1>5. ResolvedRight(n) /\ Liveried(n)
  BY <1>2, <1>4 DEF ResolvedRight, Liveried, Good
<1>6. /\ c \in State /\ ResolvedRight(c)
      /\ SameAsked(n, c) /\ SamePlate(n, c) /\ SameCar(n, c) /\ SameRest(n, c)
      /\ Liveried(c) /\ Tinted(c) /\ Painted(c)
  BY <1>4, <1>5, RepaintedFacts
<1> HIDE DEF c
<1>7. /\ c.look.custom /\ Fitted(c) /\ Meshed(c) /\ Plated(c) /\ Seen(c)
      /\ c.car = s.car /\ c.binding.text = s.binding.text /\ c.binding.last = s.binding.last
      /\ c.binding.colour = s.car.colour /\ c.binding.bound = s.binding.bound
      /\ c.binding.at = s.binding.at /\ c.binding.mesh = s.binding.mesh
  BY <1>2, <1>4, <1>6
     DEF Good, Fitted, Meshed, Plated, Seen, SameAsked, SamePlate, SameCar, SameRest
<1>8. Good(c)
  BY <1>6, <1>7 DEF Good
<1>9. CASE s.binding.last # None
  <2>1. t = ApplyPlateToVehicle(c, s.binding.last, modelText, modelMesh)
    BY <1>3, <1>9
  <2>2. /\ s.binding.last \in Plates
        /\ c.binding.text # None => s.binding.last = c.binding.text
    BY <1>1, <1>7, <1>9 DEF BindingType, Maybe, Plated
  <2>3. /\ t \in State /\ SameButPlate(c, t) /\ ResolvedRight(t) /\ Good(t)
    BY <1>6, <1>7, <1>8, <2>1, <2>2, ReplatedFacts
  <2> QED BY <1>7, <2>3 DEF SameButPlate, SameAsked, SameCar, t
<1>10. CASE s.binding.last = None
  <2>1. t = c
    BY <1>3, <1>10
  <2> QED BY <1>6, <1>7, <1>8, <2>1 DEF SameCar, t
<1> QED BY <1>9, <1>10

LEMMA CheckedFacts ==
  ASSUME Regular, ModelTypes, NEW s \in State, ResolvedRight(s), Good(s), s.car.at # None
  PROVE  LET t == Checked(s) IN
         /\ t \in State /\ ResolvedRight(t) /\ Good(t) /\ Settled(t)
         /\ t.binding.bound = s.binding.bound /\ t.binding.at = s.binding.at
         /\ t.binding.mesh = s.binding.mesh /\ t.car.at = s.car.at
<1> DEFINE t == Checked(s)
           c == IF s.car.colour # s.binding.colour THEN Recoloured(s) ELSE s
           text == EffectiveText(c, modelText)
           p == IF text # c.binding.last
                THEN ApplyPlateToVehicle(c, text, modelText, modelMesh) ELSE c
           v == UpdateVehiclePlateVisibility(p)
<1>1. t = OwnWheel(v)
  BY DEF Checked
<1> HIDE DEF t
<1>2. /\ c \in State /\ ResolvedRight(c) /\ Good(c) /\ c.car = s.car
      /\ c.binding.colour = c.car.colour
      /\ c.binding.bound = s.binding.bound /\ c.binding.at = s.binding.at
      /\ c.binding.mesh = s.binding.mesh
  <2>1. CASE s.car.colour # s.binding.colour
    <3>1. c = Recoloured(s)
      BY <2>1
    <3> HIDE DEF c
    <3> QED BY <3>1, RecolouredFacts DEF SameCar
  <2>2. CASE s.car.colour = s.binding.colour
    BY <2>2
  <2> QED BY <2>1, <2>2
<1> HIDE DEF c
<1>3. text \in Plates /\ (c.binding.text # None => text = c.binding.text)
  BY <1>2, TextFacts DEF ModelTypes
<1>4. /\ p \in State /\ SameButPlate(c, p) /\ ResolvedRight(p) /\ Good(p)
      /\ EffectiveText(p, modelText) = p.binding.last
  <2>1. CASE text # c.binding.last
    <3>1. p = ApplyPlateToVehicle(c, text, modelText, modelMesh)
      BY <2>1
    <3> HIDE DEF p, text
    <3>2. /\ p \in State /\ SameButPlate(c, p) /\ ResolvedRight(p) /\ Good(p)
          /\ p.binding.last = text /\ p.samp = text
      BY <1>2, <1>3, <3>1, ReplatedFacts
    <3>3. p.binding.text = c.binding.text
      BY <3>2 DEF SameButPlate, SameAsked
    <3>4. EffectiveText(p, modelText) = p.samp
      BY <1>2, <3>2, <3>3, TextSettles DEF ModelTypes, text
    <3> QED BY <3>2, <3>4
  <2>2. CASE text = c.binding.last
    <3>1. p = c
      BY <2>2
    <3> HIDE DEF p
    <3> QED BY <1>2, <2>2, <3>1
            DEF SameButPlate, SameAsked, SamePaint, SameCar, SameRest
  <2> QED BY <2>1, <2>2
<1> HIDE DEF p
<1>5. /\ v \in State /\ SameButPlate(p, v) /\ v.binding = p.binding
      /\ v.samp = p.samp /\ v.look.plate = p.look.plate
      /\ v.look.mesh = p.look.mesh /\ Seen(v)
  BY <1>4, VisibilityFacts
<1> HIDE DEF v
<1>6. ResolvedRight(v) /\ Good(v)
  BY <1>4, <1>5 DEF ResolvedRight, Good, Liveried, Tinted, Fitted, Meshed, Painted, Plated,
                    SameButPlate, SameAsked, SamePaint, SameCar, SameRest
<1>7. t \in State /\ SameButWheel(v, t) /\ WheelRight(t)
  BY <1>1, <1>5, OwnWheelFacts
<1>8. ResolvedRight(t) /\ Good(t)
  BY <1>6, <1>7, WheelKeepsGood
<1>9. t.binding = p.binding /\ t.samp = p.samp
  BY <1>5, <1>7 DEF SameButWheel
<1>10. EffectiveText(t, modelText) = t.binding.last
  BY <1>4, <1>9, SameText
<1>11. /\ t.car.at = s.car.at /\ t.car.colour = s.car.colour /\ t.binding.colour = s.car.colour
       /\ t.binding.bound = s.binding.bound /\ t.binding.at = s.binding.at
       /\ t.binding.mesh = s.binding.mesh
  BY <1>2, <1>4, <1>5, <1>7, <1>9 DEF SameButWheel, SameButPlate, SameAsked, SameCar
<1> QED BY <1>7, <1>8, <1>10, <1>11 DEF Settled, t

-----------------------------------------------------------------------------
(* The invariant.                                                           *)

\* Beside what is to be shown: an entry without a model is applied to no
\* vehicle, a model's mesh has become that of its bindings, and a vehicle
\* that shows its model has everything in order.
Waits == tasks \in Seq(Addresses \X Maybe(Wheels))
Entry ==
    /\ ~binding.bound => binding.at = None
    /\ binding.bound => binding.mesh # None \/ modelMesh \in {None, Disabled}
LookInv ==
    /\ Now \in State /\ ModelTypes /\ Waits
    /\ ResolvedRight(Now) /\ Entry
    /\ Applied => Good(Now)

LEMMA NowFields ==
  /\ Now.binding = binding /\ Now.samp = samp /\ Now.car = car /\ Now.look = look
BY DEF Now

LEMMA BecomeNow ==
  ASSUME NEW s \in State, Become(s)
  PROVE  Now' = s
BY DEF Become, Now, State

\* What the operations keep of an entry and of its vehicle.
Stays(s, t) ==
    /\ t.binding.bound = s.binding.bound /\ t.binding.at = s.binding.at
    /\ t.car.at = s.car.at
Keeps(s, t) ==
    Stays(s, t) /\ (t.binding.mesh = s.binding.mesh \/ t.binding.mesh # None)

\* A step that binds and unbinds nothing.
LEMMA ChangedInv ==
  ASSUME NEW t \in State, Become(t), ModelTypes', Entry', Waits',
         ResolvedRight(t), Stays(Now, t), Applied => Good(t)
  PROVE  LookInv'
<1>1. Now' = t
  BY BecomeNow
<1>2. binding' = t.binding /\ car' = t.car
  BY DEF Become
<1>3. Now' \in State
  BY <1>1
<1>4. ResolvedRight(Now)'
  BY <1>1 DEF ResolvedRight
<1>5. Applied' => Applied
  BY <1>2, NowFields DEF Applied, Stays
<1>6. Applied' => Good(Now)'
  BY <1>1, <1>5 DEF Good, Liveried, Tinted, Fitted, Meshed, Painted, Plated, Seen
<1> QED BY <1>3, <1>4, <1>6 DEF LookInv

\* A step that changes the four records only.
LEMMA KeptInv ==
  ASSUME LookInv, NEW t \in State, Become(t), UNCHANGEDModel, Waits',
         ResolvedRight(t), Keeps(Now, t), Applied => Good(t)
  PROVE  LookInv'
<1>1. ModelTypes'
  BY DEF LookInv, ModelTypes, UNCHANGEDModel
<1>2. binding' = t.binding
  BY DEF Become
<1>3. Entry'
  BY <1>2, NowFields DEF LookInv, Entry, Keeps, Stays, UNCHANGEDModel
<1> QED BY <1>1, <1>3, ChangedInv DEF Keeps

-----------------------------------------------------------------------------
(* The packets.                                                             *)

LEMMA SetVehicleWindowTintInv ==
  ASSUME Regular, LookInv, NEW tint \in Tints \cup {NoTint}, SetVehicleWindowTint(tint)
  PROVE  LookInv'
<1> DEFINE b == [binding EXCEPT !.tint = tint]
           n == [Now EXCEPT !.binding = b]
           a == ApplyWindowTintToVehicle(n, tint)
           t == IF Applied THEN a ELSE n
<1>1. binding \in BindingType /\ Now \in State /\ ModelTypes
  BY NowFields DEF LookInv, State
<1>2. /\ b \in BindingType /\ b.tint = tint
      /\ b.bound = binding.bound /\ b.at = binding.at
      /\ b.paint = binding.paint /\ b.resolved = binding.resolved
      /\ b.texture = binding.texture /\ b.rims = binding.rims
      /\ b.wheel = binding.wheel /\ b.extras = binding.extras
      /\ b.text = binding.text /\ b.last = binding.last
      /\ b.mesh = binding.mesh /\ b.colour = binding.colour
  BY <1>1 DEF BindingType, Maybe
<1>3. Become(t) /\ UNCHANGEDModel /\ UNCHANGED tasks
  <2>1. n = [Now EXCEPT !.binding.tint = tint]
    BY <1>1, NowFields DEF State
  <2> HIDE DEF n
  <2> QED BY <2>1 DEF SetVehicleWindowTint
<1> HIDE DEF b, t
<1>4. /\ n \in State /\ n.binding = b /\ n.look = look /\ n.samp = samp /\ n.car = car
  BY <1>1, <1>2, NowFields, OtherBinding
<1> HIDE DEF n
<1>5. ResolvedRight(n) /\ Keeps(Now, n)
  BY <1>2, <1>4, NowFields DEF LookInv, ResolvedRight, Keeps, Stays
<1>6. t \in State /\ ResolvedRight(t) /\ Keeps(Now, t) /\ (Applied => Good(t))
  <2>1. CASE Applied
    <3>1. t = a
      BY <2>1 DEF t
    <3>2. /\ a \in State /\ a.binding = b /\ a.look.glass = tint
          /\ SamePlate(n, a) /\ SamePaint(n, a) /\ SameCar(n, a)
          /\ SameRest(n, a)
      BY <1>4, TintFacts
    <3> HIDE DEF a
    <3>3. ResolvedRight(a) /\ Keeps(Now, a)
      BY <1>4, <1>5, <3>2 DEF ResolvedRight, Keeps, Stays, SameCar
    <3>4. Good(Now)
      BY <2>1 DEF LookInv
    <3>5. Good(a)
      BY <1>2, <1>4, <3>2, <3>4, NowFields
         DEF Good, Liveried, Tinted, Fitted, Meshed, Painted, Plated, Seen,
             SamePlate, SamePaint, SameCar, SameRest
    <3> QED BY <3>1, <3>2, <3>3, <3>5
  <2>2. CASE ~Applied
    BY <1>4, <1>5, <2>2 DEF t
  <2> QED BY <2>1, <2>2
<1> QED BY <1>1, <1>3, <1>6, KeptInv DEF LookInv, Waits

LEMMA SetVehicleWheelColorInv ==
  ASSUME Regular, LookInv, NEW colour \in WheelColours \cup {White}, SetVehicleWheelColor(colour)
  PROVE  LookInv'
<1> DEFINE b == [binding EXCEPT !.rims = colour]
           n == [Now EXCEPT !.binding = b]
           a == ApplyWheelColorToVehicle(n, colour)
           t == IF Applied THEN a ELSE n
<1>1. binding \in BindingType /\ Now \in State /\ ModelTypes
  BY NowFields DEF LookInv, State
<1>2. /\ b \in BindingType /\ b.rims = colour
      /\ b.bound = binding.bound /\ b.at = binding.at
      /\ b.paint = binding.paint /\ b.resolved = binding.resolved
      /\ b.texture = binding.texture /\ b.tint = binding.tint
      /\ b.wheel = binding.wheel /\ b.extras = binding.extras
      /\ b.text = binding.text /\ b.last = binding.last
      /\ b.mesh = binding.mesh /\ b.colour = binding.colour
  BY <1>1 DEF BindingType, Maybe
<1>3. Become(t) /\ UNCHANGEDModel /\ UNCHANGED tasks
  <2>1. n = [Now EXCEPT !.binding.rims = colour]
    BY <1>1, NowFields DEF State
  <2> HIDE DEF n
  <2> QED BY <2>1 DEF SetVehicleWheelColor
<1> HIDE DEF b, t
<1>4. /\ n \in State /\ n.binding = b /\ n.look = look /\ n.samp = samp /\ n.car = car
  BY <1>1, <1>2, NowFields, OtherBinding
<1> HIDE DEF n
<1>5. ResolvedRight(n) /\ Keeps(Now, n)
  BY <1>2, <1>4, NowFields DEF LookInv, ResolvedRight, Keeps, Stays
<1>6. t \in State /\ ResolvedRight(t) /\ Keeps(Now, t) /\ (Applied => Good(t))
  <2>1. CASE Applied
    <3>1. t = a
      BY <2>1 DEF t
    <3>2. /\ a \in State /\ a.binding = b /\ a.look.glass = n.look.glass
          /\ SamePlate(n, a) /\ SamePaint(n, a) /\ SameCar(n, a)
          /\ SameRest(n, a)
      BY <1>4, RimsFacts
    <3> HIDE DEF a
    <3>3. ResolvedRight(a) /\ Keeps(Now, a)
      BY <1>4, <1>5, <3>2 DEF ResolvedRight, Keeps, Stays, SameCar
    <3>4. Good(Now)
      BY <2>1 DEF LookInv
    <3>5. Good(a)
      BY <1>2, <1>4, <3>2, <3>4, NowFields
         DEF Good, Liveried, Tinted, Fitted, Meshed, Painted, Plated, Seen,
             SamePlate, SamePaint, SameCar, SameRest
    <3> QED BY <3>1, <3>2, <3>3, <3>5
  <2>2. CASE ~Applied
    BY <1>4, <1>5, <2>2 DEF t
  <2> QED BY <2>1, <2>2
<1> QED BY <1>1, <1>3, <1>6, KeptInv DEF LookInv, Waits

LEMMA SetVehicleExtrasInv ==
  ASSUME Regular, LookInv, NEW mask \in Extras, SetVehicleExtras(mask)
  PROVE  LookInv'
<1> DEFINE b == [binding EXCEPT !.extras = mask]
           n == [Now EXCEPT !.binding = b]
           a == ApplyExtrasToClump(n, mask)
           t == IF Applied THEN a ELSE n
<1>1. binding \in BindingType /\ Now \in State /\ ModelTypes
  BY NowFields DEF LookInv, State
<1>2. /\ b \in BindingType /\ b.extras = mask
      /\ b.bound = binding.bound /\ b.at = binding.at
      /\ b.paint = binding.paint /\ b.resolved = binding.resolved
      /\ b.texture = binding.texture /\ b.tint = binding.tint
      /\ b.rims = binding.rims /\ b.wheel = binding.wheel
      /\ b.text = binding.text /\ b.last = binding.last
      /\ b.mesh = binding.mesh /\ b.colour = binding.colour
  BY <1>1 DEF BindingType, Maybe
<1>3. Become(t) /\ UNCHANGEDModel /\ UNCHANGED tasks
  <2>1. n = [Now EXCEPT !.binding.extras = mask]
    BY <1>1, NowFields DEF State
  <2> HIDE DEF n
  <2> QED BY <2>1 DEF SetVehicleExtras
<1> HIDE DEF b, t
<1>4. /\ n \in State /\ n.binding = b /\ n.look = look /\ n.samp = samp /\ n.car = car
  BY <1>1, <1>2, NowFields, OtherBinding
<1> HIDE DEF n
<1>5. ResolvedRight(n) /\ Keeps(Now, n)
  BY <1>2, <1>4, NowFields DEF LookInv, ResolvedRight, Keeps, Stays
<1>6. t \in State /\ ResolvedRight(t) /\ Keeps(Now, t) /\ (Applied => Good(t))
  <2>1. CASE Applied
    <3>1. t = a
      BY <2>1 DEF t
    <3>2. /\ a \in State /\ a.binding = b /\ a.look.glass = n.look.glass
          /\ SamePlate(n, a) /\ SamePaint(n, a) /\ SameCar(n, a)
          /\ a.look.custom = n.look.custom /\ a.look.extras = mask
      <4>1. mask \in Maybe(Extras) \cup {Original}
        BY DEF Maybe
      <4> QED BY <1>4, <4>1, ExtrasFacts
    <3> HIDE DEF a
    <3>3. ResolvedRight(a) /\ Keeps(Now, a)
      BY <1>4, <1>5, <3>2 DEF ResolvedRight, Keeps, Stays, SameCar
    <3>4. Good(Now)
      BY <2>1 DEF LookInv
    <3>5. Good(a)
      BY <1>2, <1>4, <3>2, <3>4, NowFields
         DEF Good, Liveried, Tinted, Fitted, Meshed, Painted, Plated, Seen,
             SamePlate, SamePaint, SameCar, SameRest
    <3> QED BY <3>1, <3>2, <3>3, <3>5
  <2>2. CASE ~Applied
    BY <1>4, <1>5, <2>2 DEF t
  <2> QED BY <2>1, <2>2
<1> QED BY <1>1, <1>3, <1>6, KeptInv DEF LookInv, Waits

\* The wheel waits for the main thread.
LEMMA SetVehicleWheelInv ==
  ASSUME Regular, LookInv, NEW wheel \in Wheels \cup {None}, SetVehicleWheel(wheel)
  PROVE  LookInv'
<1> DEFINE b == [binding EXCEPT !.wheel = wheel]
           n == [Now EXCEPT !.binding = b]
<1>1. binding \in BindingType /\ car \in CarType /\ Now \in State
  BY NowFields DEF LookInv, State
<1>2. /\ b \in BindingType /\ b.wheel = wheel
      /\ b.bound = binding.bound /\ b.at = binding.at
      /\ b.paint = binding.paint /\ b.resolved = binding.resolved
      /\ b.texture = binding.texture /\ b.tint = binding.tint
      /\ b.rims = binding.rims /\ b.extras = binding.extras
      /\ b.text = binding.text /\ b.last = binding.last
      /\ b.mesh = binding.mesh /\ b.colour = binding.colour
  BY <1>1 DEF BindingType, Maybe
<1>3. Become(n) /\ UNCHANGEDModel
  <2>1. n.binding = b /\ n.samp = samp /\ n.car = car /\ n.look = look
    BY <1>1, NowFields DEF State
  <2> QED BY <2>1 DEF SetVehicleWheel, Become
<1>4. Waits'
  <2>1. Applied => <<car.at, wheel>> \in Addresses \X Maybe(Wheels)
    BY <1>1 DEF Applied, CarType, Maybe
  <2>2. tasks \in Seq(Addresses \X Maybe(Wheels))
    BY DEF LookInv, Waits
  <2> QED BY <2>1, <2>2 DEF SetVehicleWheel, Waits
<1> HIDE DEF b
<1>5. /\ n \in State /\ n.binding = b /\ n.look = look /\ n.samp = samp /\ n.car = car
  BY <1>1, <1>2, NowFields, OtherBinding
<1> HIDE DEF n
<1>6. ResolvedRight(n) /\ Keeps(Now, n) /\ (Applied => Good(n))
  BY <1>2, <1>5, NowFields
     DEF LookInv, ResolvedRight, Keeps, Stays, Good, Liveried, Tinted, Fitted, Meshed, Painted,
         Plated, Seen
<1> QED BY <1>3, <1>4, <1>5, <1>6, KeptInv

LEMMA SetVehiclePlateTextInv ==
  ASSUME Regular, LookInv, NEW text \in Texts \cup {None}, SetVehiclePlateText(text)
  PROVE  LookInv'
<1> DEFINE b == [binding EXCEPT !.text = text]
           n == [Now EXCEPT !.binding = b]
           a == ApplyPlateToVehicle(n, text, modelText, modelMesh)
           t == IF Applied THEN a ELSE n
<1>1. binding \in BindingType /\ Now \in State /\ ModelTypes
  BY NowFields DEF LookInv, State
<1>2. /\ b \in BindingType /\ b.text = text
      /\ b.bound = binding.bound /\ b.at = binding.at
      /\ b.paint = binding.paint /\ b.resolved = binding.resolved
      /\ b.texture = binding.texture /\ b.tint = binding.tint
      /\ b.rims = binding.rims /\ b.wheel = binding.wheel
      /\ b.extras = binding.extras /\ b.last = binding.last
      /\ b.mesh = binding.mesh /\ b.colour = binding.colour
  BY <1>1 DEF BindingType, Maybe
<1>3. Become(t) /\ UNCHANGEDModel /\ UNCHANGED tasks
  <2>1. n = [Now EXCEPT !.binding.text = text]
    BY <1>1, NowFields DEF State
  <2> HIDE DEF n
  <2> QED BY <2>1 DEF SetVehiclePlateText
<1> HIDE DEF b, t
<1>4. /\ n \in State /\ n.binding = b /\ n.look = look /\ n.samp = samp /\ n.car = car
  BY <1>1, <1>2, NowFields, OtherBinding
<1> HIDE DEF n
<1>5. ResolvedRight(n) /\ Keeps(Now, n)
  BY <1>2, <1>4, NowFields DEF LookInv, ResolvedRight, Keeps, Stays
<1>6. t \in State /\ ResolvedRight(t) /\ Keeps(Now, t) /\ (Applied => Good(t))
  <2>1. CASE Applied
    <3>1. t = a
      BY <2>1 DEF t
    <3>2. Good(Now) /\ n.car.at # None
      BY <1>4, <2>1 DEF LookInv, Applied
    <3>3. Coats(n)
      BY <1>2, <1>4, <1>5, <3>2, NowFields
         DEF Good, Coats, Liveried, Tinted, Fitted, Painted
    <3>4. text \in Maybe(Plates) /\ (n.binding.text # None => text \in {None, n.binding.text})
      BY <1>2, <1>4 DEF Maybe, Plates
    <3>5. a \in State /\ SameButPlate(n, a) /\ ResolvedRight(a) /\ Good(a)
      BY <1>1, <1>4, <3>2, <3>3, <3>4, PlatedFacts DEF ModelTypes
    <3> HIDE DEF a
    <3>6. Keeps(Now, a)
      BY <1>5, <3>5 DEF Keeps, Stays, SameButPlate, SameAsked, SameCar
    <3> QED BY <3>1, <3>5, <3>6
  <2>2. CASE ~Applied
    BY <1>4, <1>5, <2>2 DEF t
  <2> QED BY <2>1, <2>2
<1> QED BY <1>1, <1>3, <1>6, KeptInv DEF LookInv, Waits

LEMMA SetVehiclePaintjobInv ==
  ASSUME Regular, LookInv, NEW index \in Paintjobs \cup {-1}, SetVehiclePaintjob(index)
  PROVE  LookInv'
<1> DEFINE p == [binding EXCEPT !.paint = index]
           q == [p EXCEPT !.resolved = -2]
           b == [q EXCEPT !.texture = None]
           n == [Now EXCEPT !.binding = b]
           a == ApplyPaintjobToVehicle(n, index)
           t == IF Applied THEN a ELSE n
<1>1. binding \in BindingType /\ Now \in State
  BY NowFields DEF LookInv, State
<1>2. /\ b \in BindingType /\ b.paint = index /\ b.resolved = -2
      /\ b.bound = binding.bound /\ b.at = binding.at
      /\ b.tint = binding.tint /\ b.rims = binding.rims
      /\ b.wheel = binding.wheel /\ b.extras = binding.extras
      /\ b.text = binding.text /\ b.last = binding.last
      /\ b.mesh = binding.mesh /\ b.colour = binding.colour
  <2>1. /\ p \in BindingType /\ p.paint = index
        /\ p.bound = binding.bound /\ p.at = binding.at
        /\ p.resolved = binding.resolved /\ p.texture = binding.texture
        /\ p.tint = binding.tint /\ p.rims = binding.rims
        /\ p.wheel = binding.wheel /\ p.extras = binding.extras
        /\ p.text = binding.text /\ p.last = binding.last
        /\ p.mesh = binding.mesh /\ p.colour = binding.colour
    BY <1>1 DEF BindingType
  <2> HIDE DEF p
  <2>2. /\ q \in BindingType /\ q.resolved = -2
        /\ q.bound = p.bound /\ q.at = p.at
        /\ q.paint = p.paint /\ q.texture = p.texture
        /\ q.tint = p.tint /\ q.rims = p.rims
        /\ q.wheel = p.wheel /\ q.extras = p.extras
        /\ q.text = p.text /\ q.last = p.last
        /\ q.mesh = p.mesh /\ q.colour = p.colour
    BY <2>1 DEF BindingType
  <2> HIDE DEF q
  <2>3. /\ b \in BindingType
        /\ b.bound = q.bound /\ b.at = q.at
        /\ b.paint = q.paint /\ b.resolved = q.resolved
        /\ b.tint = q.tint /\ b.rims = q.rims
        /\ b.wheel = q.wheel /\ b.extras = q.extras
        /\ b.text = q.text /\ b.last = q.last
        /\ b.mesh = q.mesh /\ b.colour = q.colour
    BY <2>2 DEF BindingType, Maybe
  <2> HIDE DEF b
  <2> QED BY <2>1, <2>2, <2>3
<1>3. Become(t) /\ UNCHANGEDModel /\ UNCHANGED tasks
  <2>1. n = [Now EXCEPT !.binding.paint = index, !.binding.resolved = -2,
                        !.binding.texture = None]
    BY <1>1, NowFields DEF State
  <2> HIDE DEF n
  <2> QED BY <2>1 DEF SetVehiclePaintjob
<1> HIDE DEF b, t
<1>4. /\ n \in State /\ n.binding = b /\ n.look = look /\ n.samp = samp /\ n.car = car
  BY <1>1, <1>2, NowFields, OtherBinding
<1> HIDE DEF n
<1>5. ResolvedRight(n) /\ Keeps(Now, n)
  BY <1>2, <1>4, NowFields DEF ResolvedRight, Keeps, Stays
<1>6. t \in State /\ ResolvedRight(t) /\ Keeps(Now, t) /\ (Applied => Good(t))
  <2>1. CASE Applied
    <3>1. t = a
      BY <2>1 DEF t
    <3>2. /\ a \in State /\ ResolvedRight(a)
          /\ SameAsked(n, a) /\ SamePlate(n, a) /\ SameCar(n, a) /\ SameRest(n, a)
          /\ a.look.glass = n.look.glass
          /\ a.look.texture = IF index \in Found THEN index ELSE Original
          /\ index \in Found => a.look.body = White
          /\ index = -1 => a.look.body = n.car.colour
      BY <1>4, <1>5, PaintjobFacts
    <3> HIDE DEF a
    <3>3. Keeps(Now, a)
      BY <1>5, <3>2 DEF Keeps, Stays, SameAsked, SameCar
    <3>4. Good(Now)
      BY <2>1 DEF LookInv
    <3>5. Liveried(a) /\ Painted(a)
      BY <1>2, <1>4, <3>2 DEF Liveried, Painted, SameAsked, SameCar
    <3>6. /\ a.look.custom /\ Tinted(a) /\ Fitted(a) /\ Meshed(a) /\ Plated(a) /\ Seen(a)
      BY <1>2, <1>4, <3>2, <3>4, NowFields
         DEF Good, Tinted, Fitted, Meshed, Plated, Seen,
             SameAsked, SamePlate, SameCar, SameRest
    <3> QED BY <3>1, <3>2, <3>3, <3>5, <3>6 DEF Good
  <2>2. CASE ~Applied
    BY <1>4, <1>5, <2>2 DEF t
  <2> QED BY <2>1, <2>2
<1> QED BY <1>3, <1>6, KeptInv DEF LookInv, Waits, SetVehiclePaintjob

LEMMA SetVehiclePlateMeshInv ==
  ASSUME Regular, LookInv, NEW mesh \in Meshes \cup {Disabled}, SetVehiclePlateMesh(mesh)
  PROVE  LookInv'
<1> DEFINE b == [binding EXCEPT !.mesh = mesh]
           n == [Now EXCEPT !.binding = b]
           a == CreatePlateQuadAtomic(n, mesh)
           t == IF Applied THEN a ELSE n
<1>1. binding \in BindingType /\ Now \in State /\ ModelTypes
  BY NowFields DEF LookInv, State
<1>2. /\ b \in BindingType /\ b.mesh = mesh
      /\ b.bound = binding.bound /\ b.at = binding.at
      /\ b.paint = binding.paint /\ b.resolved = binding.resolved
      /\ b.texture = binding.texture /\ b.tint = binding.tint
      /\ b.rims = binding.rims /\ b.wheel = binding.wheel
      /\ b.extras = binding.extras /\ b.text = binding.text
      /\ b.last = binding.last /\ b.colour = binding.colour
  BY <1>1 DEF BindingType, Maybe
<1>3. Become(t) /\ UNCHANGEDModel /\ UNCHANGED tasks
  <2>1. n = [Now EXCEPT !.binding.mesh = mesh]
    BY <1>1, NowFields DEF State
  <2> HIDE DEF n
  <2> QED BY <2>1 DEF SetVehiclePlateMesh
<1> HIDE DEF b, t
<1>4. /\ n \in State /\ n.binding = b /\ n.look = look /\ n.samp = samp /\ n.car = car
  BY <1>1, <1>2, NowFields, OtherBinding
<1> HIDE DEF n
<1>5. ResolvedRight(n) /\ Keeps(Now, n) /\ mesh # None
  <2>1. mesh # None
    BY AppearanceAssumption
  <2> QED BY <1>2, <1>4, <2>1, NowFields DEF LookInv, ResolvedRight, Keeps, Stays
<1>6. t \in State /\ ResolvedRight(t) /\ Keeps(Now, t) /\ (Applied => Good(t))
  <2>1. CASE Applied
    <3>1. t = a
      BY <2>1 DEF t
    <3>2. /\ a \in State /\ SameButPlate(n, a) /\ a.binding = n.binding
          /\ a.samp = n.samp /\ a.look.plate = n.look.plate
          /\ a.look.mesh = (IF mesh = Disabled THEN None ELSE mesh)
          /\ n.look.seen => a.look.seen
      BY <1>4, MeshFacts
    <3> HIDE DEF a
    <3>3. ResolvedRight(a) /\ Keeps(Now, a)
      BY <1>4, <1>5, <3>2 DEF ResolvedRight, Keeps, Stays, SameButPlate, SameCar
    <3>4. Good(Now)
      BY <2>1 DEF LookInv
    <3>5. Good(a)
      BY <1>2, <1>4, <3>2, <3>4, NowFields
         DEF Good, Liveried, Tinted, Fitted, Meshed, Painted, Plated, Seen,
             SameButPlate, SamePaint, SameCar, SameRest
    <3> QED BY <3>1, <3>2, <3>3, <3>5
  <2>2. CASE ~Applied
    BY <1>4, <1>5, <2>2 DEF t
  <2> QED BY <2>1, <2>2
<1> QED BY <1>1, <1>3, <1>6, KeptInv DEF LookInv, Waits

LEMMA SetModelDefaultPlateTextInv ==
  ASSUME Regular, LookInv, NEW text \in Texts, SetModelDefaultPlateText(text)
  PROVE  LookInv'
<1> DEFINE n == Noted(Now, text)
           a == ApplyPlateToVehicle(n, text, text, modelMesh)
           t == IF ~binding.bound \/ binding.text # None THEN Now
                ELSE IF Applied THEN a ELSE n
<1>1. Now \in State /\ ModelTypes /\ text \in Plates /\ text \in Maybe(Texts)
      /\ text \in Maybe(Plates)
  BY DEF LookInv, Plates, Maybe
<1>2. /\ Become(t) /\ modelText' = text /\ UNCHANGED <<modelMesh, tasks>>
  BY DEF SetModelDefaultPlateText, Noted
<1>3. ModelTypes' /\ Waits'
  BY <1>1, <1>2 DEF ModelTypes, Waits, LookInv
<1> HIDE DEF t
<1>4. /\ n \in State /\ SameButPlate(Now, n) /\ n.look = look
      /\ n.binding.last = text
  BY <1>1, NotedFacts, NowFields
<1> HIDE DEF n
<1>5. ResolvedRight(n) /\ Keeps(Now, n)
  BY <1>4 DEF LookInv, ResolvedRight, Keeps, Stays, SameButPlate, SameAsked, SamePaint, SameCar
<1>6. t \in State /\ ResolvedRight(t) /\ Keeps(Now, t) /\ (Applied => Good(t))
  <2>1. CASE ~binding.bound \/ binding.text # None
    BY <1>1, <2>1 DEF t, LookInv, Keeps, Stays
  <2>2. CASE binding.bound /\ binding.text = None /\ Applied
    <3>1. t = a
      BY <2>2 DEF t
    <3>2. Good(Now) /\ n.car.at # None /\ n.binding.text = None
      BY <1>4, <2>2, NowFields DEF LookInv, Applied, SameButPlate, SameCar, SameAsked
    <3>3. Coats(n)
      BY <1>4, <1>5, <3>2
         DEF Good, Coats, Liveried, Tinted, Fitted, Painted,
             SameButPlate, SameAsked, SamePaint, SameCar, SameRest
    <3>4. modelMesh \in Maybe(Meshes \cup {Disabled})
      BY <1>1 DEF ModelTypes
    <3>5. a \in State /\ SameButPlate(n, a) /\ ResolvedRight(a) /\ Good(a)
      BY <1>1, <1>4, <3>2, <3>3, <3>4, PlatedFacts
    <3> HIDE DEF a
    <3>6. Keeps(Now, a)
      BY <1>5, <3>5 DEF Keeps, Stays, SameButPlate, SameAsked, SameCar
    <3> QED BY <3>1, <3>5, <3>6
  <2>3. CASE binding.bound /\ binding.text = None /\ ~Applied
    BY <1>4, <1>5, <2>3 DEF t
  <2> QED BY <2>1, <2>2, <2>3
<1>7. Entry'
  <2>1. binding' = t.binding
    BY <1>2 DEF Become
  <2> QED BY <1>2, <1>6, <2>1, NowFields DEF LookInv, Entry, Keeps, Stays
<1> QED BY <1>2, <1>3, <1>6, <1>7, ChangedInv DEF Keeps

\* A model's mesh becomes that of its bindings.
LEMMA MergedFacts ==
  ASSUME NEW x \in BindingType, NEW mesh \in Maybe(Meshes \cup {Disabled})
  PROVE  LET b == Merged(x, mesh) IN
         /\ b \in BindingType
         /\ b.mesh = (IF x.mesh = None /\ mesh # Disabled THEN mesh ELSE x.mesh)
         /\ b.bound = x.bound /\ b.at = x.at
         /\ b.paint = x.paint /\ b.resolved = x.resolved
         /\ b.texture = x.texture /\ b.tint = x.tint
         /\ b.rims = x.rims /\ b.wheel = x.wheel
         /\ b.extras = x.extras /\ b.text = x.text
         /\ b.last = x.last /\ b.colour = x.colour
BY DEF BindingType, Merged

LEMMA SetModelPlateConfigInv ==
  ASSUME Regular, LookInv, NEW mesh \in Meshes \cup {Disabled}, SetModelPlateConfig(mesh)
  PROVE  LookInv'
<1> DEFINE b == Merged(binding, mesh)
           n == [Now EXCEPT !.binding = b]
           a == ApplyPlateToVehicle(n, binding.text, modelText, mesh)
           t == IF ~binding.bound THEN Now ELSE IF Applied THEN a ELSE n
<1>1. Now \in State /\ binding \in BindingType /\ ModelTypes
      /\ mesh \in Maybe(Meshes \cup {Disabled}) /\ mesh # None
  BY NowFields, AppearanceAssumption DEF LookInv, State, Maybe
<1>2. /\ Become(t) /\ modelMesh' = mesh /\ UNCHANGED <<modelText, tasks>>
  <2>1. n = [Now EXCEPT !.binding = Merged(@, mesh)]
    BY NowFields, <1>1 DEF State
  <2> HIDE DEF n
  <2> QED BY <2>1 DEF SetModelPlateConfig
<1>3. ModelTypes' /\ Waits'
  BY <1>1, <1>2 DEF ModelTypes, Waits, LookInv
<1> HIDE DEF t
<1>4. /\ b \in BindingType
      /\ b.mesh = (IF binding.mesh = None /\ mesh # Disabled THEN mesh ELSE binding.mesh)
      /\ b.bound = binding.bound /\ b.at = binding.at
      /\ b.paint = binding.paint /\ b.resolved = binding.resolved
      /\ b.texture = binding.texture /\ b.tint = binding.tint
      /\ b.rims = binding.rims /\ b.wheel = binding.wheel
      /\ b.extras = binding.extras /\ b.text = binding.text
      /\ b.last = binding.last /\ b.colour = binding.colour
  BY <1>1, MergedFacts
<1> HIDE DEF b
<1>5. /\ n \in State /\ n.binding = b /\ n.look = look /\ n.samp = samp /\ n.car = car
  BY <1>1, <1>4, NowFields, OtherBinding
<1> HIDE DEF n
<1>6. /\ ResolvedRight(n) /\ Stays(Now, n)
      /\ n.binding.mesh # None \/ mesh = Disabled
  BY <1>1, <1>4, <1>5, NowFields DEF LookInv, ResolvedRight, Stays
<1>7. /\ t \in State /\ ResolvedRight(t) /\ Stays(Now, t) /\ (Applied => Good(t))
      /\ binding.bound => t.binding.mesh # None \/ mesh = Disabled
  <2>1. CASE ~binding.bound
    BY <1>1, <2>1 DEF t, LookInv, Stays
  <2>2. CASE binding.bound /\ Applied
    <3>1. t = a
      BY <2>2 DEF t
    <3>2. Good(Now) /\ n.car.at # None
      BY <1>5, <2>2 DEF LookInv, Applied
    <3>3. Coats(n)
      BY <1>4, <1>5, <1>6, <3>2, NowFields
         DEF Good, Coats, Liveried, Tinted, Fitted, Painted
    <3>4. /\ modelText \in Maybe(Texts) /\ binding.text \in Maybe(Plates)
          /\ n.binding.text # None => binding.text \in {None, n.binding.text}
      BY <1>1, <1>4, <1>5 DEF ModelTypes, BindingType, Maybe, Plates
    <3>5. a \in State /\ SameButPlate(n, a) /\ ResolvedRight(a) /\ Good(a)
      BY <1>1, <1>5, <3>2, <3>3, <3>4, PlatedFacts
    <3> HIDE DEF a
    <3>6. Stays(Now, a) /\ a.binding.mesh = n.binding.mesh
      BY <1>6, <3>5 DEF Stays, SameButPlate, SameAsked, SameCar
    <3> QED BY <1>6, <3>1, <3>5, <3>6
  <2>3. CASE binding.bound /\ ~Applied
    BY <1>5, <1>6, <2>3 DEF t
  <2> QED BY <2>1, <2>2, <2>3
<1>8. Entry'
  <2>1. binding' = t.binding
    BY <1>2 DEF Become
  <2> QED BY <1>2, <1>7, <2>1, NowFields DEF LookInv, Entry, Stays
<1> QED BY <1>2, <1>3, <1>7, <1>8, ChangedInv

LEMMA BoundBinding ==
  ASSUME NEW y \in BindingType, NEW v \in BOOLEAN, NEW x, x = [y EXCEPT !.bound = v]
  PROVE  /\ x \in BindingType /\ x.bound = v
         /\ x.at = y.at /\ x.paint = y.paint
         /\ x.resolved = y.resolved /\ x.texture = y.texture
         /\ x.tint = y.tint /\ x.rims = y.rims
         /\ x.wheel = y.wheel /\ x.extras = y.extras
         /\ x.text = y.text /\ x.last = y.last
         /\ x.mesh = y.mesh /\ x.colour = y.colour
<1>1. x = [bound |-> v, at |-> y.at, paint |-> y.paint, resolved |-> y.resolved, texture |-> y.texture, tint |-> y.tint,
           rims |-> y.rims, wheel |-> y.wheel, extras |-> y.extras, text |-> y.text, last |-> y.last, mesh |-> y.mesh, colour |-> y.colour]
  BY DEF BindingType
<1>2. x \in BindingType
  BY <1>1 DEF BindingType
<1> QED BY <1>1, <1>2

LEMMA BindInv ==
  ASSUME Regular, LookInv, Bind
  PROVE  LookInv'
<1> DEFINE b == Merged([binding EXCEPT !.bound = TRUE], modelMesh)
           x == [binding EXCEPT !.bound = TRUE]
           t == [Now EXCEPT !.binding = b]
<1>1. Now \in State /\ binding \in BindingType
      /\ modelMesh \in Maybe(Meshes \cup {Disabled})
  BY NowFields DEF LookInv, State, ModelTypes
<1>2. /\ x \in BindingType /\ x.bound = TRUE
      /\ x.at = binding.at /\ x.paint = binding.paint
      /\ x.resolved = binding.resolved /\ x.texture = binding.texture
      /\ x.tint = binding.tint /\ x.rims = binding.rims
      /\ x.wheel = binding.wheel /\ x.extras = binding.extras
      /\ x.text = binding.text /\ x.last = binding.last
      /\ x.mesh = binding.mesh /\ x.colour = binding.colour
  BY <1>1, BoundBinding
<1> HIDE DEF x
<1>3. /\ b \in BindingType /\ b.bound = TRUE
      /\ b.mesh = (IF x.mesh = None /\ modelMesh # Disabled THEN modelMesh ELSE x.mesh)
      /\ b.at = x.at /\ b.paint = x.paint
      /\ b.resolved = x.resolved /\ b.texture = x.texture
      /\ b.tint = x.tint /\ b.rims = x.rims
      /\ b.wheel = x.wheel /\ b.extras = x.extras
      /\ b.text = x.text /\ b.last = x.last
      /\ b.colour = x.colour
  BY <1>1, <1>2, MergedFacts DEF x
<1>4. binding' = b /\ UNCHANGEDModel /\ UNCHANGED <<samp, car, look, tasks>>
  BY DEF Bind
<1> HIDE DEF b
<1>5. /\ t \in State /\ t.binding = b /\ t.look = look /\ t.samp = samp /\ t.car = car
  BY <1>1, <1>3, NowFields, OtherBinding
<1> HIDE DEF t
<1>6. Now' = t
  <2>1. Become(t)
    BY <1>4, <1>5 DEF Become
  <2> QED BY <1>5, <2>1, BecomeNow
<1>7. ModelTypes' /\ Waits' /\ ResolvedRight(Now)'
  BY <1>2, <1>3, <1>4, <1>5, <1>6, NowFields
     DEF LookInv, ModelTypes, Waits, ResolvedRight, UNCHANGEDModel
<1>8. Entry'
  BY <1>3, <1>4 DEF Entry, UNCHANGEDModel
<1>9. Applied' => Good(Now)'
  <2>1. Applied' => Applied /\ Good(Now)
    BY <1>2, <1>3, <1>4 DEF Applied, LookInv
  <2>2. Applied => binding.mesh # None \/ b.mesh = None
    BY <1>2, <1>3 DEF Applied, LookInv, Entry
  <2> QED BY <1>2, <1>3, <1>5, <1>6, <2>1, <2>2, NowFields
          DEF Good, Liveried, Tinted, Fitted, Meshed, Painted, Plated, Seen
<1> QED BY <1>5, <1>6, <1>7, <1>8, <1>9 DEF LookInv

\* The vehicle gets a clump of its own model; the entry is applied to none.
LEMMA UnbindInv ==
  ASSUME Regular, LookInv, Unbind
  PROVE  LookInv'
<1> DEFINE l == [Clone(FALSE) EXCEPT
                    !.panel = car.colour,
                    !.plate = IF binding.text # None THEN binding.text ELSE samp]
<1>1. /\ binding \in BindingType /\ car \in CarType /\ look \in LookType
      /\ samp \in Maybe(Plates)
  BY NowFields DEF LookInv, State
<1>2. l \in LookType
  <2> DEFINE c == Clone(FALSE)
             y == [c EXCEPT !.panel = car.colour]
             text == IF binding.text # None THEN binding.text ELSE samp
  <2>1. car.colour \in Paints /\ text \in Maybe(Plates)
    BY <1>1 DEF CarType, BindingType, Paints, Maybe, Plates
  <2>2. l = [y EXCEPT !.plate = text]
    OBVIOUS
  <2>3. c \in LookType
    BY CloneType
  <2> HIDE DEF c, l, text
  <2>4. y \in LookType
    BY <2>1, <2>3 DEF LookType
  <2> HIDE DEF y
  <2> QED BY <2>1, <2>2, <2>4 DEF LookType
<1>3. NoBinding \in BindingType /\ NoBinding.bound = FALSE /\ NoBinding.at = None
      /\ NoBinding.resolved = -2
  BY DEF NoBinding, BindingType, Maybe
<1>4. car' \in CarType
  BY <1>1 DEF Unbind, CarType
<1>5. look' \in LookType
  BY <1>1, <1>2 DEF Unbind
<1>6. Now' \in State
  BY <1>1, <1>3, <1>4, <1>5 DEF Now, State, Unbind
<1>7. ModelTypes' /\ Waits'
  BY DEF LookInv, ModelTypes, Waits, Unbind, UNCHANGEDModel
<1>8. ~Applied' /\ Entry'
  BY <1>3 DEF Applied, Entry, Unbind
<1>9. ResolvedRight(Now)'
  BY <1>3 DEF Now, ResolvedRight, Unbind
<1> QED BY <1>6, <1>7, <1>8, <1>9 DEF LookInv

-----------------------------------------------------------------------------
(* The game and SA-MP, the tasks and the frames.                            *)

\* A vehicle streams in or out, and is no entry's vehicle.
LEMMA StrangerInv ==
  ASSUME LookInv, UNCHANGEDModel, UNCHANGED <<binding, tasks>>, NEW c \in CarType,
         NEW text \in Maybe(Plates), car' = c, samp' = text, look' = Clone(FALSE),
         c.at = None \/ c.at # binding.at
  PROVE  LookInv'
<1>1. Now' \in State
  BY CloneType, NowFields DEF LookInv, State, Now
<1>2. ModelTypes' /\ Waits' /\ Entry' /\ ResolvedRight(Now)'
  BY DEF LookInv, ModelTypes, Waits, Entry, ResolvedRight, Now, UNCHANGEDModel
<1>3. ~Applied'
  BY DEF Applied
<1> QED BY <1>1, <1>2, <1>3 DEF LookInv

LEMMA AppearInv ==
  ASSUME Regular, LookInv, NEW a \in Addresses, NEW c \in Colours,
         NEW w \in Wheels \cup {None}, NEW t \in Texts \cup {SanAndreas, None},
         Appear(a, c, w, t)
  PROVE  LookInv'
<1> DEFINE v == [at |-> a, colour |-> c, wheel |-> w, bumper |-> TRUE]
<1>1. v \in CarType /\ v.at = a
  BY DEF CarType, Maybe
<1>2. t \in Maybe(Plates)
  BY DEF Maybe, Plates
<1>3. a # binding.at
  BY DEF Appear, Regular
<1>4. /\ UNCHANGEDModel /\ UNCHANGED <<binding, tasks>>
      /\ car' = v /\ samp' = t /\ look' = Clone(FALSE)
  BY DEF Appear
<1> HIDE DEF v
<1> QED BY <1>1, <1>2, <1>3, <1>4, StrangerInv

LEMMA DisappearInv ==
  ASSUME LookInv, Disappear
  PROVE  LookInv'
<1>1. NoCar \in CarType /\ NoCar.at = None /\ None \in Maybe(Plates)
  BY DEF NoCar, CarType, Maybe
<1>2. /\ UNCHANGEDModel /\ UNCHANGED <<binding, tasks>>
      /\ car' = NoCar /\ samp' = None /\ look' = Clone(FALSE)
  BY DEF Disappear
<1> QED BY <1>1, <1>2, StrangerInv

\* The colours of a vehicle that was looked at change: a check is due.
LEMMA RecolourInv ==
  ASSUME Regular, LookInv, NEW colour \in Colours, Recolour(colour)
  PROVE  LookInv'
<1> DEFINE c == [car EXCEPT !.colour = colour]
           t == [Now EXCEPT !.car = c]
<1>1. Now \in State /\ car \in CarType
  BY NowFields DEF LookInv, State
<1>2. c \in CarType /\ c.at = car.at /\ c.colour = colour /\ c.bumper = car.bumper
  BY <1>1 DEF CarType, Maybe
<1>3. car' = c /\ UNCHANGEDModel /\ UNCHANGED <<binding, samp, look, tasks>>
  BY DEF Recolour
<1>4. Applied => binding.colour # colour
  BY DEF Recolour, Regular
<1> HIDE DEF c
<1>5. /\ t \in State /\ t.car = c /\ t.binding = binding /\ t.samp = samp /\ t.look = look
  BY <1>1, <1>2, NowFields, OtherCar
<1> HIDE DEF t
<1>6. Become(t) /\ Waits' /\ ResolvedRight(t) /\ Keeps(Now, t)
  BY <1>2, <1>3, <1>5, NowFields
     DEF Become, Waits, LookInv, ResolvedRight, Keeps, Stays
<1>7. Applied => Good(t)
  <2>1. Applied => Good(Now)
    BY DEF LookInv
  <2> QED BY <1>2, <1>4, <1>5, <2>1, NowFields
          DEF Good, Liveried, Tinted, Fitted, Meshed, Painted, Plated, Seen
<1> QED BY <1>3, <1>5, <1>6, <1>7, KeptInv

\* Wheels are none of what is to be in order.
LEMMA WheelsInv ==
  ASSUME LookInv, NEW t \in State, SameButWheel(Now, t), Become(t), UNCHANGEDModel, Waits'
  PROVE  LookInv'
<1>1. ResolvedRight(t) /\ SameAsked(Now, t) /\ (Applied => Good(t))
  BY WheelKeepsGood DEF LookInv
<1>2. Keeps(Now, t)
  BY <1>1 DEF Keeps, Stays, SameAsked, SameButWheel
<1> QED BY <1>1, <1>2, KeptInv

LEMMA TuneInv ==
  ASSUME LookInv, NEW wheel \in Wheels, Tune(wheel)
  PROVE  LookInv'
<1> DEFINE t == AddVehicleUpgrade(Now, wheel)
<1>1. Now \in State /\ wheel \in Maybe(Wheels)
  BY DEF LookInv, Maybe
<1>2. t \in State /\ SameButWheel(Now, t)
  BY <1>1, UpgradeFacts
<1>3. Become(t) /\ UNCHANGEDModel /\ Waits'
  BY DEF Tune, LookInv, Waits
<1> HIDE DEF t
<1> QED BY <1>2, <1>3, WheelsInv

LEMMA RunTaskInv ==
  ASSUME LookInv, RunTask
  PROVE  LookInv'
<1> DEFINE wheel == Head(tasks)[2]
           a == ApplyWheelToVehicle(Now, wheel)
           t == IF There /\ Head(tasks)[1] = car.at THEN a ELSE Now
<1>1. Now \in State
  BY DEF LookInv
<1>2. wheel \in Maybe(Wheels) /\ Waits'
  <2>1. tasks \in Seq(Addresses \X Maybe(Wheels)) /\ tasks # <<>>
    BY DEF LookInv, Waits, RunTask
  <2>2. Head(tasks) \in Addresses \X Maybe(Wheels) /\ Tail(tasks) \in Seq(Addresses \X Maybe(Wheels))
    BY <2>1
  <2> QED BY <2>2 DEF RunTask, Waits
<1>3. Become(t) /\ UNCHANGEDModel
  BY DEF RunTask
<1> HIDE DEF wheel
<1>4. a \in State /\ SameButWheel(Now, a)
  BY <1>1, <1>2, WheelFacts
<1> HIDE DEF a
<1>5. t \in State /\ SameButWheel(Now, t)
  BY <1>1, <1>4 DEF SameButWheel
<1> HIDE DEF t
<1> QED BY <1>2, <1>3, <1>5, WheelsInv

\* A bumper that falls off takes its plate along.
LEMMA DamageInv ==
  ASSUME LookInv, Damage
  PROVE  LookInv'
<1> DEFINE c == [car EXCEPT !.bumper = FALSE]
           t == [Now EXCEPT !.car = c]
<1>1. Now \in State /\ car \in CarType
  BY NowFields DEF LookInv, State
<1>2. c \in CarType /\ c.at = car.at /\ c.colour = car.colour /\ ~c.bumper
  BY <1>1 DEF CarType
<1>3. car' = c /\ UNCHANGEDModel /\ UNCHANGED <<binding, samp, look, tasks>>
  BY DEF Damage
<1> HIDE DEF c
<1>4. /\ t \in State /\ t.car = c /\ t.binding = binding /\ t.samp = samp /\ t.look = look
  BY <1>1, <1>2, NowFields, OtherCar
<1> HIDE DEF t
<1>5. Become(t) /\ Waits' /\ ResolvedRight(t) /\ Keeps(Now, t)
  BY <1>2, <1>3, <1>4, NowFields
     DEF Become, Waits, LookInv, ResolvedRight, Keeps, Stays
<1>6. Applied => Good(t)
  <2>1. Applied => Good(Now)
    BY DEF LookInv
  <2> QED BY <1>2, <1>4, <2>1, NowFields
          DEF Good, Liveried, Tinted, Fitted, Meshed, Painted, Plated, Seen
<1> QED BY <1>3, <1>4, <1>5, <1>6, KeptInv

LEMMA UndamagedFacts ==
  ASSUME NEW s \in State
  PROVE  LET t == Undamaged(s) IN
         /\ t \in State /\ t.binding = s.binding /\ t.samp = s.samp
         /\ t.car.at = s.car.at /\ t.car.colour = s.car.colour
         /\ t.look.custom = s.look.custom /\ t.look.texture = s.look.texture
         /\ t.look.plate = s.look.plate /\ t.look.mesh = s.look.mesh
<1> DEFINE t == Undamaged(s)
           c == [s.car EXCEPT !.bumper = TRUE]
           l == [s.look EXCEPT !.extras = Original]
           u == [s EXCEPT !.car = c]
<1>1. t = [u EXCEPT !.look = l]
  BY DEF Undamaged, State
<1>2. s.look \in LookType /\ s.car \in CarType
  BY DEF State
<1>3. /\ l \in LookType
      /\ l.custom = s.look.custom /\ l.texture = s.look.texture
      /\ l.plate = s.look.plate /\ l.mesh = s.look.mesh
  BY <1>2 DEF LookType
<1>4. c \in CarType /\ c.at = s.car.at /\ c.colour = s.car.colour
  BY <1>2 DEF CarType
<1> HIDE DEF t, l, c
<1>5. u \in State /\ u.car = c /\ u.binding = s.binding /\ u.samp = s.samp
  BY <1>4, OtherCar
<1> HIDE DEF u
<1>6. t \in State /\ t.look = l /\ t.binding = u.binding /\ t.samp = u.samp /\ t.car = u.car
  BY <1>1, <1>3, <1>5, OtherLook
<1> QED BY <1>3, <1>4, <1>5, <1>6 DEF t

\* A repair puts on again what it has taken off.
LEMMA OnVehicleFixedInv ==
  ASSUME Regular, LookInv, OnVehicleFixed
  PROVE  LookInv'
<1>1. Now \in State /\ car \in CarType /\ ModelTypes /\ ResolvedRight(Now) /\ There
  BY NowFields DEF LookInv, State, OnVehicleFixed
<1>2. UNCHANGEDModel /\ Waits'
  BY DEF OnVehicleFixed, LookInv, Waits
<1>3. CASE binding.at # None
  <2> DEFINE u == Undamaged(Now)
             r == Redressed(u)
             t == Reupgraded(r)
  <2>1. Become(t)
    BY <1>3 DEF OnVehicleFixed
  <2>2. /\ u \in State /\ u.binding = binding /\ u.samp = samp
        /\ u.car.at = car.at
        /\ u.look.custom = look.custom /\ u.look.texture = look.texture
        /\ u.look.plate = look.plate /\ u.look.mesh = look.mesh
    BY <1>1, NowFields, UndamagedFacts
  <2> HIDE DEF u
  <2>3. u.car.at # None /\ ResolvedRight(u)
    BY <1>1, <2>2, NowFields DEF There, ResolvedRight
  <2>4. /\ r \in State /\ ResolvedRight(r) /\ SameAsked(u, r) /\ SameCar(u, r)
        /\ u.look.custom /\ Liveried(u) /\ Meshed(u) /\ Plated(u) => Good(r)
    BY <1>1, <2>2, <2>3, RedressedFacts
  <2> HIDE DEF r
  <2>5. t \in State /\ SameButWheel(r, t)
    BY <2>4, ReupgradedFacts
  <2> HIDE DEF t
  <2>6. ResolvedRight(t) /\ (Good(r) => Good(t)) /\ SameAsked(r, t)
    BY <2>4, <2>5, WheelKeepsGood
  <2>7. Keeps(Now, t)
    BY <2>2, <2>4, <2>5, <2>6, NowFields
       DEF Keeps, Stays, SameAsked, SameCar, SameButWheel
  <2>8. Applied => Good(t)
    <3>1. Applied => Good(Now)
      BY DEF LookInv
    <3>2. Applied => u.look.custom /\ Liveried(u) /\ Meshed(u) /\ Plated(u)
      BY <2>2, <3>1, NowFields DEF Good, Liveried, Meshed, Plated
    <3> QED BY <2>4, <2>6, <3>2
  <2> QED BY <1>2, <2>1, <2>5, <2>6, <2>7, <2>8, KeptInv
<1>4. CASE binding.at = None
  <2> DEFINE c == [car EXCEPT !.bumper = TRUE]
             t == [Now EXCEPT !.car = c]
  <2>1. c \in CarType /\ c.at = car.at
    BY <1>1 DEF CarType
  <2>2. Become(t)
    <3>1. t = [Now EXCEPT !.car.bumper = TRUE]
      BY <1>1, NowFields DEF State
    <3> HIDE DEF t
    <3> QED BY <1>4, <3>1 DEF OnVehicleFixed
  <2> HIDE DEF c
  <2>3. /\ t \in State /\ t.car = c /\ t.binding = binding /\ t.samp = samp /\ t.look = look
    BY <1>1, <2>1, NowFields, OtherCar
  <2> HIDE DEF t
  <2>4. ResolvedRight(t) /\ Keeps(Now, t) /\ ~Applied
    BY <1>1, <1>4, <2>1, <2>3, NowFields DEF ResolvedRight, Keeps, Stays, Applied
  <2> QED BY <1>2, <2>2, <2>3, <2>4, KeptInv
<1> QED BY <1>3, <1>4

\* A frame's look at a vehicle: what becomes of the vehicle.
LEMMA ProcessFacts ==
  ASSUME Regular, LookInv, NEW due \in BOOLEAN, Process(due)
  PROVE  LookInv' /\ (due /\ Applied' => Settled(Now)')
<1>1. Now \in State /\ ModelTypes /\ ResolvedRight(Now) /\ Entry /\ binding.bound
      /\ binding \in BindingType
  BY NowFields DEF LookInv, State, Process
<1>2. UNCHANGEDModel /\ Waits' /\ ModelTypes'
  BY DEF Process, LookInv, Waits, ModelTypes, UNCHANGEDModel
<1>3. CASE ~There
  <2> DEFINE b == [binding EXCEPT !.at = None]
             t == [Now EXCEPT !.binding = b]
  <2>1. /\ b \in BindingType /\ b.at = None /\ b.resolved = binding.resolved
        /\ b.texture = binding.texture /\ b.mesh = binding.mesh /\ b.bound = binding.bound
    BY <1>1, EntryAt DEF Maybe
  <2>2. Become(t)
    <3>1. t = [Now EXCEPT !.binding.at = None]
      BY <1>1, NowFields DEF State
    <3> HIDE DEF t
    <3> QED BY <1>3, <3>1 DEF Process, Lost
  <2> HIDE DEF b
  <2>3. /\ t \in State /\ t.binding = b /\ t.look = look /\ t.samp = samp /\ t.car = car
    BY <1>1, <2>1, NowFields, OtherBinding
  <2> HIDE DEF t
  <2>4. Now' = t /\ binding' = b
    BY <2>2, <2>3, BecomeNow DEF Become
  <2>5. ~Applied' /\ Entry' /\ ResolvedRight(Now)'
    BY <1>1, <1>2, <2>1, <2>3, <2>4, NowFields
       DEF Applied, Entry, ResolvedRight, UNCHANGEDModel
  <2> QED BY <1>2, <2>3, <2>4, <2>5 DEF LookInv
<1>4. CASE There /\ ~Applied
  <2>1. Become(Renewal)
    BY <1>4 DEF Process
  <2>2. /\ Renewal \in State /\ ResolvedRight(Renewal) /\ Good(Renewal)
        /\ Settled(Renewal)
        /\ Renewal.binding.bound = binding.bound /\ Renewal.binding.mesh = binding.mesh
    BY <1>1, <1>4, RenewalFacts
  <2> DEFINE t == Renewal
  <2> HIDE DEF t
  <2>3. /\ t \in State /\ ResolvedRight(t) /\ Good(t) /\ Settled(t)
        /\ t.binding.bound = binding.bound /\ t.binding.mesh = binding.mesh /\ Become(t)
    BY <2>1, <2>2 DEF t
  <2>4. Now' = t /\ binding' = t.binding
    BY <2>3, BecomeNow DEF Become
  <2>5. Entry' /\ ResolvedRight(Now)'
    BY <1>1, <1>2, <2>3, <2>4 DEF Entry, ResolvedRight, UNCHANGEDModel
  <2>6. Good(Now)'
    BY <2>3, <2>4 DEF Good, Liveried, Tinted, Fitted, Meshed, Painted, Plated, Seen
  <2>7. Settled(Now)'
    BY <1>2, <2>3, <2>4 DEF Settled, EffectiveText, WheelRight, UNCHANGEDModel
  <2> QED BY <1>2, <2>3, <2>4, <2>5, <2>6, <2>7 DEF LookInv
<1>5. CASE Applied
  <2>1. There /\ Good(Now) /\ Now.car.at # None
    BY <1>5, NowFields DEF Applied, There, LookInv
  <2>2. CASE due
    <3> DEFINE t == Checked(Now)
    <3>1. Become(t)
      BY <1>5, <2>1, <2>2 DEF Process
    <3>2. /\ t \in State /\ ResolvedRight(t) /\ Good(t) /\ Settled(t)
          /\ t.binding.bound = binding.bound /\ t.binding.at = binding.at
          /\ t.binding.mesh = binding.mesh /\ t.car.at = car.at
      BY <1>1, <2>1, NowFields, CheckedFacts
    <3> HIDE DEF t
    <3>3. Keeps(Now, t)
      BY <3>2, NowFields DEF Keeps, Stays
    <3>4. LookInv'
      BY <1>2, <3>1, <3>2, <3>3, KeptInv
    <3>5. Now' = t
      BY <3>1, <3>2, BecomeNow
    <3>6. Settled(Now)'
      BY <1>2, <3>2, <3>5 DEF Settled, EffectiveText, WheelRight, UNCHANGEDModel
    <3> QED BY <3>4, <3>6
  <2>3. CASE ~due
    <3>1. Become(Now)
      BY <1>5, <2>1, <2>3 DEF Process
    <3>2. Keeps(Now, Now)
      BY DEF Keeps, Stays
    <3> QED BY <1>1, <1>2, <2>1, <2>3, <3>1, <3>2, KeptInv
  <2> QED BY <2>2, <2>3
<1> QED BY <1>3, <1>4, <1>5

-----------------------------------------------------------------------------
(* The theorems.                                                            *)

LEMMA LookInit == Init => LookInv
<1> SUFFICES ASSUME Init PROVE LookInv
  OBVIOUS
<1>1. NoBinding \in BindingType /\ NoBinding.bound = FALSE /\ NoBinding.at = None
      /\ NoBinding.resolved = -2
  BY DEF NoBinding, BindingType, Maybe
<1>2. NoCar \in CarType
  BY DEF NoCar, CarType, Maybe
<1>3. Now \in State
  BY <1>1, <1>2, CloneType DEF Now, State, Init, Maybe
<1>4. ModelTypes /\ Waits /\ Entry /\ ResolvedRight(Now) /\ ~Applied
  BY <1>1 DEF Init, ModelTypes, Maybe, Waits, Entry, ResolvedRight, Now, Applied
<1> QED BY <1>3, <1>4 DEF LookInv

LEMMA LookStep ==
  ASSUME Regular, LookInv, [Next]_vars
  PROVE  LookInv'
<1>1. CASE Setting
  BY <1>1, SetVehiclePaintjobInv, SetVehicleWindowTintInv, SetVehicleWheelColorInv,
     SetVehicleExtrasInv, SetVehicleWheelInv, SetVehiclePlateTextInv,
     SetVehiclePlateMeshInv, SetModelDefaultPlateTextInv, SetModelPlateConfigInv
     DEF Setting
<1>2. CASE Bind \/ Unbind
  BY <1>2, BindInv, UnbindInv
<1>3. CASE Game
  BY <1>3, AppearInv, DisappearInv, RecolourInv, TuneInv, DamageInv, OnVehicleFixedInv
     DEF Game
<1>4. CASE RunTask
  BY <1>4, RunTaskInv
<1>5. CASE \E due \in BOOLEAN : Process(due)
  BY <1>5, ProcessFacts
<1>6. CASE UNCHANGED vars
  BY <1>6 DEF vars, LookInv, ModelTypes, Waits, Entry, ResolvedRight, Now, Applied,
     Good, Liveried, Tinted, Fitted, Meshed, Painted, Plated, Seen
<1> QED BY <1>1, <1>2, <1>3, <1>4, <1>5, <1>6 DEF Next

LEMMA LookInvariance ==
  ASSUME Regular
  PROVE  Spec => []LookInv
<1>1. LookInv /\ [Next]_vars => LookInv'
  BY LookStep
<1> QED BY LookInit, <1>1, PTL DEF Spec

\* The two counters: wheels that wait are no more than the bound, nor are
\* the packets that count.
Counted == Len(tasks) <= MaxTasks /\ settings \in 0 .. MaxSettings

LEMMA CountedStep ==
  ASSUME Waits, Counted, [Next]_vars
  PROVE  Counted'
<1>1. MaxTasks \in Nat /\ MaxSettings \in Nat /\ settings \in 0 .. MaxSettings
  BY AppearanceAssumption DEF Counted
<1>2. settings' \in 0 .. MaxSettings
  BY <1>1 DEF Next, vars
<1>3. Len(tasks') <= MaxTasks
  <2>1. CASE UNCHANGED tasks
    BY <2>1 DEF Counted
  <2>2. CASE RunTask
    <3>1. tasks \in Seq(Addresses \X Maybe(Wheels)) /\ tasks # <<>> /\ tasks' = Tail(tasks)
      BY <2>2 DEF RunTask, Waits
    <3>2. Len(tasks') = Len(tasks) - 1 /\ Len(tasks) \in Nat
      BY <3>1
    <3> QED BY <1>1, <3>2 DEF Counted
  <2>3. ASSUME NEW w \in Wheels \cup {None}, SetVehicleWheel(w)
        PROVE  Len(tasks') <= MaxTasks
    <3>1. tasks \in Seq(Addresses \X Maybe(Wheels)) /\ Len(tasks) < MaxTasks
      BY <2>3 DEF SetVehicleWheel, Waits
    <3>2. Len(Append(tasks, <<car.at, w>>)) = Len(tasks) + 1 /\ Len(tasks) \in Nat
      BY <3>1
    <3> QED BY <1>1, <2>3, <3>1, <3>2 DEF SetVehicleWheel
  <2> QED BY <2>1, <2>2, <2>3
          DEF Next, vars, Setting, Game, Bind, Unbind, SetVehiclePaintjob,
              SetVehicleWindowTint, SetVehicleWheelColor, SetVehicleExtras,
              SetVehiclePlateText, SetVehiclePlateMesh, SetModelDefaultPlateText,
              SetModelPlateConfig, Appear, Disappear, Recolour, Tune, Damage,
              OnVehicleFixed, Process
<1> QED BY <1>2, <1>3 DEF Counted

\* Every part of the state has its type, and an entry without a model is
\* applied to no vehicle.
THEOREM TypeCorrect ==
  ASSUME Regular
  PROVE  Spec => []TypeOK
<1>1. Init => Counted
  BY AppearanceAssumption DEF Init, Counted
<1>2. LookInv /\ Counted /\ [Next]_vars => Counted'
  BY CountedStep DEF LookInv
<1>3. LookInv /\ Counted => TypeOK
  BY NowFields
     DEF LookInv, Counted, TypeOK, State, BindingType, CarType, LookType, ModelTypes,
         Waits, Entry, Maybe, Plates
<1> QED BY <1>1, <1>2, <1>3, LookInvariance, PTL DEF Spec

\* A vehicle that shows its model wears what its binding asks for in its
\* colours, whatever packets, repairs, streaming and coats come in between
\* (ApplyPaintjobToVehicle, ApplyVehicleColors, OnVehicleFixed, Process).
THEOREM DressedAlways ==
  ASSUME Regular
  PROVE  Spec => []DressedAndPainted
<1>1. LookInv => DressedAndPainted
  BY NowFields DEF LookInv, DressedAndPainted, Dressed, BodyColour, Good, Liveried, Tinted,
     Fitted, Meshed, Painted
<1> QED BY <1>1, LookInvariance, PTL

\* The plate, the binding and SA-MP agree on the text, the script's wins, and
\* a plate is not hidden while its bumper is there (ApplyPlateToVehicle,
\* SetModelDefaultPlateText, UpdateVehiclePlateVisibility).
THEOREM PlateAlways ==
  ASSUME Regular
  PROVE  Spec => []PlateInOrder
<1>1. LookInv => PlateInOrder
  BY NowFields DEF LookInv, PlateInOrder, PlateAgrees, PlateSeen, Good, Plated, Seen
<1> QED BY <1>1, LookInvariance, PTL

\* What a frame's look puts on, the next one finds as it should be (the
\* comparisons of Process with lastColour, lastPlateText and the wheels).
THEOREM LookedAtOnce ==
  ASSUME Regular
  PROVE  Spec => CheckSettles
<1>1. LookInv /\ [Next]_vars =>
          [Process(TRUE) /\ Applied' =>
               (/\ car.colour = binding.colour
                /\ EffectiveText(Now, modelText) = binding.last
                /\ OwnWheel(Now) = Now)']_vars
  <2> SUFFICES ASSUME LookInv, Process(TRUE), Applied'
               PROVE  (/\ car.colour = binding.colour
                       /\ EffectiveText(Now, modelText) = binding.last
                       /\ OwnWheel(Now) = Now)'
    OBVIOUS
  <2>1. LookInv' /\ Settled(Now)'
    BY ProcessFacts
  <2>2. Now'.car = car' /\ Now'.binding = binding'
    BY DEF Now
  <2>3. OwnWheel(Now)' = Now'
    <3>1. Now' \in State /\ WheelRight(Now')
      BY <2>1 DEF LookInv, Settled, WheelRight
    <3>2. OwnWheel(Now') = Now'
      BY <3>1, OwnWheelFacts
    <3> QED BY <3>2
  <2> QED BY <2>1, <2>2, <2>3 DEF Settled
<1> QED BY <1>1, LookInvariance, PTL DEF CheckSettles, Spec

-----------------------------------------------------------------------------
(***************************************************************************)
(* What a client is going to be told of one vehicle.  w is the sequence of *)
(* tasks and packets it has still to carry out, e the vehicle's entry,     *)
(* m, at and ow the vehicle's model, attributes and open.mp's values.      *)
(***************************************************************************)
Offered == Values \cup {Neutral}
Changes == UNION {[D -> Offered] : D \in SUBSET Attrs}
Tasks   == [type : {"Bind"}, vehicle : Vehicles, model : Models]
           \cup [type : {"Unbind"}, vehicle : Vehicles]
Packets == Tasks \cup [type : {"Set"}, vehicle : Vehicles, attrs : Changes]
                 \cup [type : {"Remap"}, vehicle : Vehicles, value : Values]
Entries == [model : Models \cup {Unset},
            attr : [Attrs -> Offered \cup {Unset}], present : BOOLEAN]

\* An entry that is not there holds nothing, and none holds a neutral value of
\* what it takes for none.
EntryOK(e) == /\ e \in Entries
              /\ ~e.present => e = NoEntry
              /\ \A a \in Clearable : e.attr[a] # Neutral

Binds(p, v)   == p.type = "Bind" /\ p.vehicle = v
Unbinds(p, v) == p.type = "Unbind" /\ p.vehicle = v
Dresses(p, v) == p.type = "Set" /\ p.vehicle = v
Remaps(p, v)  == p.type = "Remap" /\ p.vehicle = v
Touches(p, v) == p.type # "Remap" /\ p.vehicle = v

\* Packet p says something of attribute a, and what the entry then has.
Concerns(p, v, a) == \/ Dresses(p, v) /\ a \in DOMAIN p.attrs
                     \/ Remaps(p, v) /\ a = "paintjob"
Brought(p, a) == Kept(a, IF p.type = "Set" THEN p.attrs[a] ELSE p.value)

\* Effective, Synced, Told and Agreed of a vehicle there is.
EffectiveOf(m, at, ow, a) ==
    IF at[a] # Unset THEN at[a] ELSE
    CASE a = "paintjob" -> ow[a]
      [] a = "wheel"    -> OrElse(ow[a], ModelDefault[m][a])
      [] a \in OffsetParts \cup {"stance"} -> ModelDefault[m][a]
      [] OTHER          -> Unset
InSync(m, at, ow, a) ==
    /\ EffectiveOf(m, at, ow, a) # Unset
    /\ ~(a = "paintjob" /\ EffectiveOf(m, at, ow, a) = Neutral)
ToldOf(at, ow, a) == IF a = "paintjob" THEN OrElse(at[a], ow[a]) ELSE at[a]
Allowed(m, at, ow, a) ==
    IF ToldOf(at, ow, a) # Unset
    THEN {Kept(a, ToldOf(at, ow, a))}
         \cup (IF a = "plateTexture" /\ ToldOf(at, ow, a) = Neutral
               THEN {ModelDefault[m][a]} ELSE {})
         \cup (IF a = "paintjob" THEN {ow[a]} ELSE {})
         \cup (IF a = "paintjob" /\ at[a] = Neutral /\ ow[a] # Unset
               THEN Values ELSE {})
         \cup (IF \/ a \in ModelAudio
                  \/ a = "paintjob" /\ at[a] = Unset
               THEN {Unset} ELSE {})
    ELSE {Unset, ModelDefault[m][a]}
         \cup (IF a = "wheel" THEN Values ELSE {})

\* Packet i meets an entry that is there, as far as one can tell.
Felt(v, w, e, i) ==
    \/ w[i].type = "Set"
    \/ e.present /\ \A j \in 1..(i - 1) : ~Unbinds(w[j], v)
    \/ \E j \in 1..(i - 1) : /\ Binds(w[j], v) \/ Dresses(w[j], v)
                             /\ \A l \in j..(i - 1) : ~Unbinds(w[l], v)
\* It is the last word on a.
Final(v, w, a, i) ==
    \A j \in (i + 1)..Len(w) : ~Concerns(w[j], v, a) /\ ~Unbinds(w[j], v)

\* The Binds that no Unbind follows are to the vehicle's model, and an Unbind
\* is followed by one.
RightBinds(v, w, m) ==
    /\ \A i \in 1..Len(w) : Binds(w[i], v) =>
          w[i].model = m \/ \E j \in (i + 1)..Len(w) : Unbinds(w[j], v)
    /\ \A i \in 1..Len(w) : Unbinds(w[i], v) =>
          \E j \in (i + 1)..Len(w) : Binds(w[j], v)
\* The entry has the model, if no task is left.
RightModel(v, w, e, m) ==
    (\A i \in 1..Len(w) : ~Binds(w[i], v) /\ ~Unbinds(w[i], v)) => e.model = m
\* While an Unbind is under way, scripts have not set anything.
Undressed(v, w, at) ==
    (\E i \in 1..Len(w) : Unbinds(w[i], v)) =>
        \A a \in Attrs \ ModelAudio : at[a] = Unset
\* The last word on a is in S; the entry's value is, if nothing is said of a.
LastWord(v, w, e, a, S) ==
    \A i \in 1..Len(w) :
       Concerns(w[i], v, a) /\ Final(v, w, a, i) /\ Felt(v, w, e, i)
          => Brought(w[i], a) \in S
Worn(v, w, e, a, S) ==
    (\A i \in 1..Len(w) : /\ ~Unbinds(w[i], v)
                          /\ Concerns(w[i], v, a) => ~Felt(v, w, e, i))
       => e.attr[a] \in S
\* An entry with a paintjob of the registry's is there, or will be when the
\* game's paintjob comes.
PaintCovered(v, w, e) ==
    \/ e.present
    \/ \E j \in 1..Len(w) : /\ Dresses(w[j], v)
                            /\ \A i \in 1..Len(w) :
                                  Remaps(w[i], v) /\ Final(v, w, "paintjob", i) => j < i

\* su: the vehicle is in sight, its whole state has been sent.  Else what the
\* next full state will say is left out.
AttrFine(v, w, e, m, at, ow, a) ==
    /\ LastWord(v, w, e, a, Allowed(m, at, ow, a))
    /\ Worn(v, w, e, a, Allowed(m, at, ow, a))
Fine(v, w, e, m, at, ow, su) ==
    /\ RightBinds(v, w, m)
    /\ su => RightModel(v, w, e, m)
    /\ Undressed(v, w, at)
    /\ \A a \in Attrs : su \/ ~InSync(m, at, ow, a) =>
                           AttrFine(v, w, e, m, at, ow, a)
    /\ su /\ at["paintjob"] \notin {Unset, Neutral} => PaintCovered(v, w, e)
\* Of a vehicle that is bound to nothing, nothing will be left.
Gone(v, w, e) ==
    \/ e = NoEntry /\ \A i \in 1..Len(w) : ~Touches(w[i], v)
    \/ \E i \in 1..Len(w) : /\ Unbinds(w[i], v)
                            /\ \A j \in (i + 1)..Len(w) : ~Touches(w[j], v)
\* A player that is not authorized is told of the game's paintjobs only.
Fresh(w, e) == e = NoEntry /\ \A i \in 1..Len(w) : w[i].type = "Remap"

\* x is w with s after it.
Extends(x, w, s) ==
    /\ Len(w) \in Nat /\ Len(s) \in Nat /\ Len(x) = Len(w) + Len(s)
    /\ \A i \in 1..Len(w) : x[i] = w[i]
    /\ \A i \in 1..Len(s) : x[Len(w) + i] = s[i]

-----------------------------------------------------------------------------
(* Packets that are sent. *)

\* Places of the longer sequence: of the first part, or behind it.
LEMMA ExtendsPlaces ==
  ASSUME NEW x, NEW w, NEW s, Extends(x, w, s)
  PROVE  /\ Len(w) \in Nat /\ Len(x) \in Nat /\ Len(w) <= Len(x)
         /\ \A i \in 1..Len(x) :
               \/ i \in 1..Len(w) /\ x[i] = w[i]
               \/ \E k \in 1..Len(s) : i = Len(w) + k /\ x[i] = s[k]
<1>1. /\ Len(w) \in Nat /\ Len(s) \in Nat /\ Len(x) = Len(w) + Len(s)
      /\ \A i \in 1..Len(w) : x[i] = w[i]
      /\ \A i \in 1..Len(s) : x[Len(w) + i] = s[i]
  BY DEF Extends
<1>2. ASSUME NEW i \in 1..Len(x), i \notin 1..Len(w)
      PROVE  \E k \in 1..Len(s) : i = Len(w) + k /\ x[i] = s[k]
  <2>1. i - Len(w) \in 1..Len(s) /\ i = Len(w) + (i - Len(w))
    BY <1>1, <1>2
  <2> QED BY <1>1, <2>1
<1> QED BY <1>1, <1>2

\* What is said of other vehicles.
LEMMA FeltBefore ==
  ASSUME NEW x, NEW w, NEW s, Extends(x, w, s), NEW v, NEW e, NEW i \in 1..Len(w)
  PROVE  Felt(v, x, e, i) <=> Felt(v, w, e, i)
<1>1. Len(w) \in Nat /\ \A j \in 1..Len(w) : x[j] = w[j]
  BY DEF Extends
<1>2. \A j \in 1..(i - 1) : j \in 1..Len(w) /\ j..(i - 1) \subseteq 1..Len(w)
  BY <1>1
<1>3. x[i] = w[i] BY <1>1
<1>4. \A j \in 1..(i - 1) : x[j] = w[j] BY <1>1, <1>2
<1>5. \A j \in 1..(i - 1) :
         (\A l \in j..(i - 1) : ~Unbinds(x[l], v))
            <=> (\A l \in j..(i - 1) : ~Unbinds(w[l], v))
  BY <1>1, <1>2
<1> QED BY <1>3, <1>4, <1>5 DEF Felt

\* It changes nothing for this one.
LEMMA OthersFine ==
  ASSUME NEW v, NEW w, NEW s, NEW x, Extends(x, w, s),
         \A k \in 1..Len(s) : s[k].vehicle # v,
         NEW e, NEW m, NEW at, NEW ow, NEW su, Fine(v, w, e, m, at, ow, su)
  PROVE  Fine(v, x, e, m, at, ow, su)
<1>1. /\ Len(w) \in Nat /\ Len(x) \in Nat /\ Len(w) <= Len(x)
      /\ \A i \in 1..Len(w) : x[i] = w[i]
  BY ExtendsPlaces DEF Extends
<1>2. ASSUME NEW i \in 1..Len(x), x[i].vehicle = v
      PROVE  i \in 1..Len(w) /\ x[i] = w[i]
  BY <1>2, ExtendsPlaces
<1>3. \A i \in 1..Len(x) :
         /\ Binds(x[i], v) \/ Unbinds(x[i], v) \/ Dresses(x[i], v) \/ Remaps(x[i], v)
               => i \in 1..Len(w)
         /\ \A a : Concerns(x[i], v, a) => i \in 1..Len(w)
  BY <1>2 DEF Binds, Unbinds, Dresses, Remaps, Concerns
<1>4. \A i \in 1..Len(w) :
         /\ i \in 1..Len(x) /\ (i + 1)..Len(w) \subseteq (i + 1)..Len(x)
         /\ (i + 1)..Len(w) \subseteq 1..Len(w)
         /\ \A j \in (i + 1)..Len(x) : j \in 1..Len(x)
         /\ \A j \in (i + 1)..Len(x) : j \in 1..Len(w) => j \in (i + 1)..Len(w)
  BY <1>1
<1>5. RightBinds(v, x, m)
  <2>1. RightBinds(v, w, m) BY DEF Fine
  <2> QED BY <1>1, <1>3, <1>4, <2>1 DEF RightBinds
<1>6. su => RightModel(v, x, e, m)
  <2>1. su => RightModel(v, w, e, m) BY DEF Fine
  <2> QED BY <1>1, <1>4, <2>1 DEF RightModel
<1>7. Undressed(v, x, at)
  <2>1. Undressed(v, w, at) BY DEF Fine
  <2> QED BY <1>1, <1>3, <2>1 DEF Undressed
<1>8. ASSUME NEW a, NEW i \in 1..Len(x), Concerns(x[i], v, a), Final(v, x, a, i)
      PROVE  i \in 1..Len(w) /\ x[i] = w[i] /\ Concerns(w[i], v, a) /\ Final(v, w, a, i)
  <2>1. i \in 1..Len(w) /\ x[i] = w[i] BY <1>1, <1>3, <1>8
  <2> QED BY <1>1, <1>4, <1>8, <2>1 DEF Final
<1>9. ASSUME NEW a \in Attrs, NEW S, LastWord(v, w, e, a, S)
      PROVE  LastWord(v, x, e, a, S)
  <2> SUFFICES ASSUME NEW i \in 1..Len(x), Concerns(x[i], v, a), Final(v, x, a, i),
                      Felt(v, x, e, i)
               PROVE  Brought(x[i], a) \in S
    BY DEF LastWord
  <2>1. i \in 1..Len(w) /\ x[i] = w[i] /\ Concerns(w[i], v, a) /\ Final(v, w, a, i)
    BY <1>8
  <2>2. Felt(v, w, e, i) BY <2>1, FeltBefore
  <2> QED BY <1>9, <2>1, <2>2 DEF LastWord
<1>10. ASSUME NEW a \in Attrs, NEW S, Worn(v, w, e, a, S)
       PROVE  Worn(v, x, e, a, S)
  <2> SUFFICES ASSUME \A i \in 1..Len(x) : /\ ~Unbinds(x[i], v)
                                           /\ Concerns(x[i], v, a) => ~Felt(v, x, e, i)
               PROVE  e.attr[a] \in S
    BY DEF Worn
  <2>1. ASSUME NEW i \in 1..Len(w)
        PROVE  ~Unbinds(w[i], v) /\ (Concerns(w[i], v, a) => ~Felt(v, w, e, i))
    BY <1>1, <1>4, FeltBefore
  <2> QED BY <1>10, <2>1 DEF Worn
<1>11. su /\ at["paintjob"] \notin {Unset, Neutral} => PaintCovered(v, x, e)
  <2> SUFFICES ASSUME PaintCovered(v, w, e), ~e.present PROVE PaintCovered(v, x, e)
    BY DEF Fine, PaintCovered
  <2>1. PICK j \in 1..Len(w) :
           /\ Dresses(w[j], v)
           /\ \A i \in 1..Len(w) : Remaps(w[i], v) /\ Final(v, w, "paintjob", i) => j < i
    BY DEF PaintCovered
  <2>2. ASSUME NEW i \in 1..Len(x), Remaps(x[i], v), Final(v, x, "paintjob", i)
        PROVE  j < i
    <3>1. Concerns(x[i], v, "paintjob") BY <2>2 DEF Concerns
    <3>2. i \in 1..Len(w) /\ x[i] = w[i] /\ Final(v, w, "paintjob", i)
      BY <1>8, <2>2, <3>1
    <3> QED BY <2>1, <2>2, <3>2
  <2>3. j \in 1..Len(x) /\ Dresses(x[j], v) BY <1>1, <2>1
  <2> QED BY <2>2, <2>3 DEF PaintCovered
<1> QED
  <2>1. \A a \in Attrs : su \/ ~InSync(m, at, ow, a) => AttrFine(v, x, e, m, at, ow, a)
    <3>1. \A a \in Attrs : su \/ ~InSync(m, at, ow, a) => AttrFine(v, w, e, m, at, ow, a)
      BY DEF Fine
    <3> QED BY <3>1, <1>9, <1>10 DEF AttrFine
  <2> QED BY <1>5, <1>6, <1>7, <1>11, <2>1 DEF Fine

\* The same of a vehicle that is bound to nothing.
LEMMA OthersGone ==
  ASSUME NEW v, NEW w, NEW s, NEW x, Extends(x, w, s),
         \A k \in 1..Len(s) : ~Touches(s[k], v), NEW e, Gone(v, w, e)
  PROVE  Gone(v, x, e)
<1>1. /\ Len(w) \in Nat /\ Len(x) \in Nat /\ Len(w) <= Len(x)
      /\ \A i \in 1..Len(w) : x[i] = w[i]
  BY ExtendsPlaces DEF Extends
<1>2. \A i \in 1..Len(x) : Touches(x[i], v) => i \in 1..Len(w)
  BY ExtendsPlaces
<1>3. CASE e = NoEntry /\ \A i \in 1..Len(w) : ~Touches(w[i], v)
  BY <1>1, <1>2, <1>3 DEF Gone
<1>4. CASE \E i \in 1..Len(w) : /\ Unbinds(w[i], v)
                                /\ \A j \in (i + 1)..Len(w) : ~Touches(w[j], v)
  <2>1. PICK i \in 1..Len(w) : /\ Unbinds(w[i], v)
                               /\ \A j \in (i + 1)..Len(w) : ~Touches(w[j], v)
    BY <1>4
  <2>2. ASSUME NEW j \in (i + 1)..Len(x) PROVE ~Touches(x[j], v)
    <3>1. j \in 1..Len(x) BY <1>1
    <3>2. CASE j \in 1..Len(w) BY <1>1, <2>1, <3>2
    <3>3. CASE j \notin 1..Len(w) BY <1>2, <3>1, <3>3
    <3> QED BY <3>2, <3>3
  <2>3. i \in 1..Len(x) /\ Unbinds(x[i], v) BY <1>1, <2>1
  <2> QED BY <2>2, <2>3 DEF Gone
<1> QED BY <1>3, <1>4 DEF Gone

\* A player that is not authorized is told of more of the game's paintjobs.
LEMMA OthersFresh ==
  ASSUME NEW w, NEW s, NEW x, Extends(x, w, s),
         \A k \in 1..Len(s) : s[k].type = "Remap", NEW e, Fresh(w, e)
  PROVE  Fresh(x, e)
<1>1. e = NoEntry /\ \A i \in 1..Len(w) : w[i].type = "Remap" BY DEF Fresh
<1>2. ASSUME NEW i \in 1..Len(x) PROVE x[i].type = "Remap"
  <2>1. \/ i \in 1..Len(w) /\ x[i] = w[i]
        \/ \E k \in 1..Len(s) : i = Len(w) + k /\ x[i] = s[k]
    BY ExtendsPlaces
  <2>2. CASE i \in 1..Len(w) /\ x[i] = w[i]
    <3>1. w[i].type = "Remap" BY <1>1, <2>2
    <3> QED BY <2>2, <3>1
  <2>3. CASE \E k \in 1..Len(s) : i = Len(w) + k /\ x[i] = s[k]
    <3>1. PICK k \in 1..Len(s) : x[i] = s[k] BY <2>3
    <3>2. s[k].type = "Remap" OBVIOUS
    <3> QED BY <3>1, <3>2
  <2> QED BY <2>1, <2>2, <2>3
<1> QED BY <1>1, <1>2 DEF Fresh

\* Behind an Unbind that is sent last, nothing is left.
LEMMA UnboundGone ==
  ASSUME NEW v, NEW w, NEW s, NEW x, Extends(x, w, s), Len(s) = 1,
         Unbinds(s[1], v), NEW e
  PROVE  Gone(v, x, e)
<1>1. Len(x) \in Nat /\ Len(x) \in 1..Len(x) /\ x[Len(x)] = s[1]
  BY DEF Extends
<1>2. \A j \in (Len(x) + 1)..Len(x) : FALSE BY <1>1
<1> QED BY <1>1, <1>2 DEF Gone

\* What is allowed of an attribute.
LEMMA UnsetAllowed ==
  ASSUME AttributesAssumption, NEW m \in Models, NEW at, NEW ow, NEW a \in Attrs
  PROVE  /\ ~InSync(m, at, ow, a) => Unset \in Allowed(m, at, ow, a)
         /\ a \notin ModelAudio /\ at[a] = Unset => Unset \in Allowed(m, at, ow, a)
         /\ a \in ModelAudio => Unset \in Allowed(m, at, ow, a)
         /\ a = "paintjob" /\ at[a] \in {Unset, Neutral}
               => Unset \in Allowed(m, at, ow, a)
<1>1. at[a] = Unset => Unset \in Allowed(m, at, ow, a)
  BY DEF Allowed, ToldOf, ModelAudio, OrElse
<1>2. a = "paintjob" /\ at[a] = Neutral => Unset \in Allowed(m, at, ow, a)
  BY DEF Allowed, ToldOf, OrElse, Kept, Clearable
<1>3. a \in ModelAudio => Unset \in Allowed(m, at, ow, a)
  BY DEF Allowed
<1>4. ~InSync(m, at, ow, a) => at[a] = Unset \/ (a = "paintjob" /\ at[a] = Neutral)
  BY DEF InSync, EffectiveOf
<1> QED BY <1>1, <1>2, <1>3, <1>4

\* A model's value may fill in for none.
LEMMA FilledAllowed ==
  ASSUME NEW m, NEW at, NEW ow, NEW a \in FromModel,
         Unset \in Allowed(m, at, ow, a), Neutral # Unset
  PROVE  ModelDefault[m][a] \in Allowed(m, at, ow, a)
<1>1. a # "paintjob" /\ a \notin ModelAudio /\ a # "wheel"
  BY DEF FromModel, ModelAudio, OffsetParts
<1>2. a \in Clearable => a = "plateTexture"
  BY DEF FromModel, Clearable, OffsetParts
<1>3. ToldOf(at, ow, a) = at[a] BY <1>1 DEF ToldOf
<1>4. CASE at[a] = Unset BY <1>1, <1>3, <1>4 DEF Allowed
<1>5. CASE at[a] # Unset
  <2>1. Allowed(m, at, ow, a) =
           {Kept(a, at[a])} \cup (IF a = "plateTexture" /\ at[a] = Neutral
                                  THEN {ModelDefault[m][a]} ELSE {})
    BY <1>1, <1>3, <1>5 DEF Allowed
  <2>2. ~(a = "plateTexture" /\ at[a] = Neutral) => Kept(a, at[a]) = Unset
    BY <2>1
  <2>3. a = "plateTexture" /\ at[a] = Neutral
    BY <1>2, <1>5, <2>2 DEF Kept
  <2> QED BY <2>1, <2>3
<1> QED BY <1>4, <1>5

\* The full state tells what is allowed.
AttrTypes(m, at, ow) ==
    /\ m \in Models /\ at \in [Attrs -> Offered \cup {Unset}]
    /\ ow \in [{"paintjob", "wheel"} -> Values \cup {Unset}]

\* A model's value is a value, or it has none.
LEMMA DefaultTypes ==
  ASSUME AttributesAssumption, NEW m \in Models, NEW a \in Attrs
  PROVE  ModelDefault[m][a] \in Values \cup {Unset}
BY DEF AttributesAssumption

\* What a full state says of an attribute is what the client may have of it.
LEMMA SyncAllowed ==
  ASSUME AttributesAssumption, NEW m, NEW at, NEW ow, AttrTypes(m, at, ow),
         NEW a \in Attrs, InSync(m, at, ow, a)
  PROVE  /\ Kept(a, EffectiveOf(m, at, ow, a)) \in Allowed(m, at, ow, a)
         /\ EffectiveOf(m, at, ow, a) \in Offered
<1>1. /\ Neutral \notin Values /\ Neutral # Unset /\ Unset \notin Values
  BY DEF AttributesAssumption
<1>2. ModelDefault[m][a] \in Values \cup {Unset}
  BY DefaultTypes DEF AttrTypes
<1>3. EffectiveOf(m, at, ow, a) # Unset BY DEF InSync
<1>4. CASE at[a] # Unset
  <2>1. EffectiveOf(m, at, ow, a) = at[a] BY <1>4 DEF EffectiveOf
  <2>2. ToldOf(at, ow, a) = at[a] BY <1>4 DEF ToldOf, OrElse
  <2> QED BY <1>4, <2>1, <2>2 DEF Allowed, AttrTypes
<1>5. CASE at[a] = Unset /\ a = "paintjob"
  <2>1. EffectiveOf(m, at, ow, a) = ow[a] BY <1>5 DEF EffectiveOf, OffsetParts
  <2>2. ToldOf(at, ow, a) = ow[a] BY <1>5 DEF ToldOf, OrElse
  <2>3. ow[a] \in Values BY <1>3, <1>5, <2>1 DEF AttrTypes
  <2> QED BY <1>3, <1>5, <2>1, <2>2, <2>3 DEF Allowed, Offered
<1>6. CASE at[a] = Unset /\ a = "wheel"
  <2>1. EffectiveOf(m, at, ow, a) = OrElse(ow[a], ModelDefault[m][a])
    BY <1>6 DEF EffectiveOf, OffsetParts
  <2>2. EffectiveOf(m, at, ow, a) \in Values
    BY <1>2, <1>3, <1>6, <2>1 DEF OrElse, AttrTypes
  <2>3. Kept(a, EffectiveOf(m, at, ow, a)) = EffectiveOf(m, at, ow, a)
    BY <1>1, <2>2 DEF Kept
  <2>4. Values \subseteq Allowed(m, at, ow, a)
    BY <1>6 DEF Allowed, ToldOf
  <2> QED BY <2>2, <2>3, <2>4 DEF Offered
<1>7. CASE at[a] = Unset /\ a \notin {"paintjob", "wheel"}
  <2>1. EffectiveOf(m, at, ow, a) = ModelDefault[m][a]
    BY <1>3, <1>7 DEF EffectiveOf, OffsetParts
  <2>2. ModelDefault[m][a] \in Values BY <1>2, <1>3, <2>1
  <2>3. Kept(a, ModelDefault[m][a]) = ModelDefault[m][a]
    BY <1>1, <2>2 DEF Kept
  <2> QED BY <1>7, <2>1, <2>2, <2>3 DEF Allowed, ToldOf, Offered
<1> QED BY <1>4, <1>5, <1>6, <1>7

\* Where every value is allowed, whatever is there or said is.
LEMMA AnythingGoes ==
  ASSUME AttributesAssumption, NEW v, NEW w \in Seq(Packets), NEW e, EntryOK(e),
         NEW a \in Clearable, NEW S, Values \cup {Unset} \subseteq S
  PROVE  LastWord(v, w, e, a, S) /\ Worn(v, w, e, a, S)
<1>1. a \in Attrs BY DEF Clearable, Attrs
<1>2. Worn(v, w, e, a, S)
  BY <1>1 DEF Worn, EntryOK, Entries, Offered
<1>3. ASSUME NEW i \in 1..Len(w), Concerns(w[i], v, a) PROVE Brought(w[i], a) \in S
  <2>1. w[i] \in Packets OBVIOUS
  <2>2. CASE Dresses(w[i], v) /\ a \in DOMAIN w[i].attrs
    <3>1. w[i].attrs \in Changes BY <2>1, <2>2 DEF Packets, Tasks, Dresses
    <3>2. PICK D \in SUBSET Attrs : w[i].attrs \in [D -> Offered]
      BY <3>1 DEF Changes
    <3>3. w[i].attrs[a] \in Offered BY <2>2, <3>2
    <3> QED BY <2>2, <3>3 DEF Brought, Kept, Offered, Dresses
  <2>3. CASE Remaps(w[i], v)
    <3>1. w[i].value \in Values BY <2>1, <2>3 DEF Packets, Tasks, Remaps
    <3>2. Neutral \notin Values BY DEF AttributesAssumption
    <3> QED BY <2>3, <3>1, <3>2 DEF Brought, Kept, Remaps
  <2> QED BY <1>3, <2>2, <2>3 DEF Concerns
<1> QED BY <1>2, <1>3 DEF LastWord

\* A vehicle out of sight.
LEMMA UnseenFine ==
  ASSUME NEW v, NEW w, NEW e, NEW m, NEW at, NEW ow, NEW su,
         Fine(v, w, e, m, at, ow, su)
  PROVE  Fine(v, w, e, m, at, ow, FALSE)
BY DEF Fine

\* A player that is not authorized.
LEMMA FreshGone ==
  ASSUME NEW v, NEW w, NEW e, Fresh(w, e)
  PROVE  Gone(v, w, e)
BY DEF Fresh, Gone, Touches

\* A client that has not been told of a vehicle is told right of it, as long as
\* nobody claims that its full state has been sent.
LEMMA FreshFine ==
  ASSUME AttributesAssumption, NEW v, NEW w, NEW e, Fresh(w, e),
         NEW m \in Models, NEW at, NEW ow
  PROVE  Fine(v, w, e, m, at, ow, FALSE)
<1>1. e = NoEntry /\ \A i \in 1..Len(w) : w[i].type = "Remap"
  BY DEF Fresh
<1>2. \A i \in 1..Len(w) : ~Binds(w[i], v) /\ ~Unbinds(w[i], v) /\ ~Dresses(w[i], v)
  BY <1>1 DEF Binds, Unbinds, Dresses
<1>3. \A a \in Attrs : Worn(v, w, e, a, Allowed(m, at, ow, a))
         \/ InSync(m, at, ow, a)
  BY <1>1, UnsetAllowed DEF Worn, NoEntry, NoAttrs
<1>4. ASSUME NEW a \in Attrs, NEW i \in 1..Len(w), Felt(v, w, e, i) PROVE FALSE
  <2>1. w[i].type # "Set" /\ ~e.present BY <1>1 DEF NoEntry
  <2>2. PICK j \in 1..(i - 1) : Binds(w[j], v) \/ Dresses(w[j], v)
    BY <1>4, <2>1 DEF Felt
  <2>3. j \in 1..Len(w) BY <2>2
  <2> QED BY <1>2, <2>2, <2>3
<1>5. \A a \in Attrs : LastWord(v, w, e, a, Allowed(m, at, ow, a))
  BY <1>4 DEF LastWord
<1>6. RightBinds(v, w, m) BY <1>2 DEF RightBinds
<1>7. Undressed(v, w, at) BY <1>2 DEF Undressed
<1> QED BY <1>3, <1>5, <1>6, <1>7 DEF Fine, AttrFine

-----------------------------------------------------------------------------
(* What the server says of a vehicle that is bound. *)

\* One packet with attributes f, of which the new values are allowed.
LEMMA DressedFine ==
  ASSUME NEW v, NEW w, NEW s, NEW x, Extends(x, w, s), Len(s) = 1,
         Dresses(s[1], v), \A i \in 1..Len(w) : ~Unbinds(w[i], v),
         NEW e, NEW m, NEW at, NEW ow, NEW su, Fine(v, w, e, m, at, ow, su),
         NEW at2, NEW ow2,
         \A a \in Attrs \ DOMAIN s[1].attrs :
            /\ Allowed(m, at2, ow2, a) = Allowed(m, at, ow, a)
            /\ InSync(m, at, ow, a) => InSync(m, at2, ow2, a)
            /\ at2[a] = at[a],
         \A a \in Attrs \cap DOMAIN s[1].attrs :
            Brought(s[1], a) \in Allowed(m, at2, ow2, a)
  PROVE  Fine(v, x, e, m, at2, ow2, su)
<1> DEFINE n == Len(w) + 1
<1>1. /\ Len(w) \in Nat /\ Len(x) = n /\ n \in 1..n /\ x[n] = s[1]
      /\ \A i \in 1..Len(w) : x[i] = w[i] /\ i \in 1..n
      /\ \A i \in 1..n : i \in 1..Len(w) \/ i = n
  BY DEF Extends
<1>2. ~Binds(x[n], v) /\ ~Unbinds(x[n], v) /\ ~Remaps(x[n], v) /\ Dresses(x[n], v)
  BY <1>1 DEF Binds, Unbinds, Dresses, Remaps
<1>3. \A i \in 1..n : ~Unbinds(x[i], v)
  BY <1>1, <1>2
<1> HIDE DEF n
<1>4. RightBinds(v, x, m)
  BY <1>1, <1>2, <1>3 DEF RightBinds, Fine
<1>5. su => RightModel(v, x, e, m)
  BY <1>1 DEF RightModel, Fine
<1>6. Undressed(v, x, at2)
  BY <1>1, <1>3 DEF Undressed
<1>7. \A a : Concerns(x[n], v, a) <=> a \in DOMAIN s[1].attrs
  BY <1>1, <1>2 DEF Concerns
<1>8. Felt(v, x, e, n)
  BY <1>2 DEF Felt, Dresses
<1>9. ASSUME NEW a, NEW i \in 1..n, i # n, Final(v, x, a, i)
      PROVE  /\ i \in 1..Len(w) /\ x[i] = w[i] /\ a \notin DOMAIN s[1].attrs
             /\ Final(v, w, a, i)
  <2>1. i \in 1..Len(w) /\ x[i] = w[i] /\ n \in (i + 1)..n
    BY <1>1, <1>9 DEF n
  <2>2. a \notin DOMAIN s[1].attrs BY <1>1, <1>7, <1>9, <2>1 DEF Final
  <2>3. \A j \in (i + 1)..Len(w) : j \in (i + 1)..n /\ x[j] = w[j]
    BY <1>1, <2>1 DEF n
  <2> QED BY <1>1, <1>9, <2>1, <2>2, <2>3 DEF Final
<1>10. ASSUME NEW a \in Attrs, su \/ ~InSync(m, at2, ow2, a)
       PROVE  AttrFine(v, x, e, m, at2, ow2, a)
  <2>1. LastWord(v, x, e, a, Allowed(m, at2, ow2, a))
    <3> SUFFICES ASSUME NEW i \in 1..n, Concerns(x[i], v, a), Final(v, x, a, i),
                        Felt(v, x, e, i)
                 PROVE  Brought(x[i], a) \in Allowed(m, at2, ow2, a)
      BY <1>1 DEF LastWord
    <3>1. CASE i = n BY <1>1, <1>7, <3>1
    <3>2. CASE i # n
      <4>1. /\ i \in 1..Len(w) /\ x[i] = w[i] /\ a \notin DOMAIN s[1].attrs
            /\ Final(v, w, a, i)
        BY <1>9, <3>2
      <4>2. Felt(v, w, e, i) BY <4>1, FeltBefore
      <4>3. AttrFine(v, w, e, m, at, ow, a) BY <1>10, <4>1 DEF Fine
      <4> QED BY <4>1, <4>2, <4>3 DEF AttrFine, LastWord
    <3> QED BY <3>1, <3>2
  <2>2. Worn(v, x, e, a, Allowed(m, at2, ow2, a))
    <3> SUFFICES ASSUME \A i \in 1..n : Concerns(x[i], v, a) => ~Felt(v, x, e, i)
                 PROVE  e.attr[a] \in Allowed(m, at2, ow2, a)
      BY <1>1 DEF Worn
    <3>1. a \notin DOMAIN s[1].attrs BY <1>1, <1>7, <1>8
    <3>2. AttrFine(v, w, e, m, at, ow, a) BY <1>10, <3>1 DEF Fine
    <3>3. \A i \in 1..Len(w) : Concerns(w[i], v, a) => ~Felt(v, w, e, i)
      BY <1>1, FeltBefore
    <3> QED BY <3>1, <3>2, <3>3 DEF AttrFine, Worn
  <2> QED BY <2>1, <2>2 DEF AttrFine
<1>11. su /\ at2["paintjob"] \notin {Unset, Neutral} => PaintCovered(v, x, e)
  <2> SUFFICES ASSUME su, at2["paintjob"] \notin {Unset, Neutral}, ~e.present
               PROVE  PaintCovered(v, x, e)
    BY DEF PaintCovered
  <2>1. CASE "paintjob" \in DOMAIN s[1].attrs
    <3>1. \A i \in 1..n : Remaps(x[i], v) /\ Final(v, x, "paintjob", i) => FALSE
      BY <1>2, <1>9, <2>1
    <3> QED BY <1>1, <1>2, <3>1 DEF PaintCovered
  <2>2. CASE "paintjob" \notin DOMAIN s[1].attrs
    <3>1. at["paintjob"] \notin {Unset, Neutral} BY <2>2 DEF Attrs
    <3>2. PICK j \in 1..Len(w) :
             /\ Dresses(w[j], v)
             /\ \A i \in 1..Len(w) :
                   Remaps(w[i], v) /\ Final(v, w, "paintjob", i) => j < i
      BY <3>1 DEF Fine, PaintCovered
    <3>3. j \in 1..n /\ Dresses(x[j], v) BY <1>1, <3>2
    <3>4. \A i \in 1..n : Remaps(x[i], v) /\ Final(v, x, "paintjob", i) => j < i
      BY <1>2, <1>9, <3>2
    <3> QED BY <1>1, <3>3, <3>4 DEF PaintCovered
  <2> QED BY <2>1, <2>2
<1> QED BY <1>4, <1>5, <1>6, <1>10, <1>11 DEF Fine

\* Nothing is sent: an attribute keeps what is allowed, or the next full state
\* will tell it, or it may be anything.
LEMMA QuietFine ==
  ASSUME AttributesAssumption, NEW v, NEW w \in Seq(Packets), NEW e, EntryOK(e),
         NEW m, NEW at, NEW ow, NEW su, Fine(v, w, e, m, at, ow, su),
         NEW at2, NEW ow2,
         (\A i \in 1..Len(w) : ~Unbinds(w[i], v)) \/ at2 = at,
         su => at2["paintjob"] = at["paintjob"],
         \A a \in Attrs :
            \/ /\ Allowed(m, at2, ow2, a) = Allowed(m, at, ow, a)
               /\ InSync(m, at, ow, a) => InSync(m, at2, ow2, a)
            \/ ~su /\ InSync(m, at2, ow2, a)
            \/ a \in Clearable /\ Values \cup {Unset} \subseteq Allowed(m, at2, ow2, a)
  PROVE  Fine(v, w, e, m, at2, ow2, su)
<1>1. Undressed(v, w, at2) BY DEF Fine, Undressed
<1>2. ASSUME NEW a \in Attrs, su \/ ~InSync(m, at2, ow2, a)
      PROVE  AttrFine(v, w, e, m, at2, ow2, a)
  <2>1. CASE /\ Allowed(m, at2, ow2, a) = Allowed(m, at, ow, a)
             /\ InSync(m, at, ow, a) => InSync(m, at2, ow2, a)
    <3>1. AttrFine(v, w, e, m, at, ow, a) BY <1>2, <2>1 DEF Fine
    <3> QED BY <2>1, <3>1 DEF AttrFine
  <2>2. CASE a \in Clearable /\ Values \cup {Unset} \subseteq Allowed(m, at2, ow2, a)
    BY <2>2, AnythingGoes DEF AttrFine
  <2> QED BY <1>2, <2>1, <2>2
<1> QED BY <1>1, <1>2 DEF Fine

\* The full state.  p is the place of its Bind.
LEMMA SyncedFine ==
  ASSUME AttributesAssumption, NEW v, NEW w, NEW s, NEW x, Extends(x, w, s),
         NEW e, NEW m, NEW at, NEW ow, AttrTypes(m, at, ow), NEW su,
         Fine(v, w, e, m, at, ow, su),
         NEW p \in 1..Len(s), p + 1 \in 1..Len(s),
         Binds(s[p], v), s[p].model = m, Dresses(s[p + 1], v),
         s[p + 1].attrs = [a \in {b \in Attrs : InSync(m, at, ow, b)} |->
                               EffectiveOf(m, at, ow, a)],
         \A k \in 1..Len(s) : k # p /\ k # p + 1 => s[k].vehicle # v
  PROVE  Fine(v, x, e, m, at, ow, TRUE)
<1> DEFINE b == Len(w) + p
<1>1. /\ Len(w) \in Nat /\ Len(x) \in Nat /\ Len(w) <= Len(x)
      /\ b \in 1..Len(x) /\ b + 1 \in 1..Len(x) /\ x[b] = s[p] /\ x[b + 1] = s[p + 1]
      /\ b > Len(w)
      /\ \A i \in 1..Len(w) : x[i] = w[i] /\ i \in 1..Len(x)
  <2>1. /\ Len(w) \in Nat /\ Len(s) \in Nat /\ Len(x) = Len(w) + Len(s)
        /\ \A i \in 1..Len(w) : x[i] = w[i]
        /\ x[Len(w) + p] = s[p] /\ x[Len(w) + (p + 1)] = s[p + 1]
    BY DEF Extends
  <2>2. p \in Nat /\ p >= 1 /\ p + 1 <= Len(s) BY <2>1
  <2>3. Len(w) + (p + 1) = b + 1 BY <2>1, <2>2
  <2> QED BY <2>1, <2>2, <2>3
<1>2. \A i \in 1..Len(x) : x[i].vehicle = v => i \in 1..Len(w) \/ i = b \/ i = b + 1
  <2> SUFFICES ASSUME NEW i \in 1..Len(x), x[i].vehicle = v, i \notin 1..Len(w)
               PROVE  i = b \/ i = b + 1
    OBVIOUS
  <2>1. PICK k \in 1..Len(s) : i = Len(w) + k /\ x[i] = s[k]
    BY ExtendsPlaces
  <2>2. k = p \/ k = p + 1 BY <2>1
  <2>3. p \in Nat /\ Len(w) \in Nat BY DEF Extends
  <2> QED BY <2>1, <2>2, <2>3
<1> HIDE DEF b
<1>3. /\ Binds(x[b], v) /\ ~Unbinds(x[b], v) /\ ~Dresses(x[b], v) /\ ~Remaps(x[b], v)
      /\ \A a : ~Concerns(x[b], v, a)
      /\ Dresses(x[b + 1], v) /\ ~Unbinds(x[b + 1], v) /\ ~Binds(x[b + 1], v)
      /\ ~Remaps(x[b + 1], v)
      /\ \A a : Concerns(x[b + 1], v, a) <=> a \in Attrs /\ InSync(m, at, ow, a)
  BY <1>1 DEF Binds, Unbinds, Dresses, Remaps, Concerns
<1>4. \A i \in 1..Len(x) :
         /\ Unbinds(x[i], v) \/ Remaps(x[i], v) => i \in 1..Len(w)
         /\ Binds(x[i], v) => i \in 1..Len(w) \/ i = b
         /\ \A a : Concerns(x[i], v, a) => i \in 1..Len(w) \/ i = b + 1
  BY <1>2, <1>3 DEF Binds, Unbinds, Dresses, Remaps, Concerns
<1>5. ASSUME NEW i \in 1..Len(w)
      PROVE  /\ (i + 1)..Len(w) \subseteq (i + 1)..Len(x)
             /\ (i + 1)..Len(w) \subseteq 1..Len(w)
             /\ b \in (i + 1)..Len(x) /\ b + 1 \in (i + 1)..Len(x)
  BY <1>1
<1>6. RightBinds(v, x, m)
  <2>0. RightBinds(v, w, m) BY DEF Fine
  <2>1. ASSUME NEW i \in 1..Len(x), Binds(x[i], v)
        PROVE  x[i].model = m \/ \E j \in (i + 1)..Len(x) : Unbinds(x[j], v)
    <3>1. CASE i = b BY <1>1, <3>1
    <3>2. CASE i \in 1..Len(w)
      BY <1>1, <1>5, <2>0, <2>1, <3>2 DEF RightBinds
    <3> QED BY <1>4, <2>1, <3>1, <3>2
  <2>2. ASSUME NEW i \in 1..Len(x), Unbinds(x[i], v)
        PROVE  \E j \in (i + 1)..Len(x) : Binds(x[j], v)
    BY <1>3, <1>4, <1>5, <2>2
  <2> QED BY <2>1, <2>2 DEF RightBinds
<1>7. RightModel(v, x, e, m)
  BY <1>1, <1>3 DEF RightModel
<1>8. Undressed(v, x, at)
  BY <1>1, <1>4 DEF Undressed, Fine
<1>9. ASSUME NEW a, NEW i \in 1..Len(w), Final(v, x, a, i)
      PROVE  /\ x[i] = w[i] /\ Final(v, w, a, i)
             /\ a \in Attrs => ~InSync(m, at, ow, a)
  BY <1>1, <1>3, <1>5, <1>9 DEF Final
<1>10. ASSUME NEW a \in Attrs
       PROVE  AttrFine(v, x, e, m, at, ow, a)
  <2>1. LastWord(v, x, e, a, Allowed(m, at, ow, a))
    <3> SUFFICES ASSUME NEW i \in 1..Len(x), Concerns(x[i], v, a), Final(v, x, a, i),
                        Felt(v, x, e, i)
                 PROVE  Brought(x[i], a) \in Allowed(m, at, ow, a)
      BY DEF LastWord
    <3>1. CASE i = b + 1
      <4>1. InSync(m, at, ow, a) BY <1>3, <3>1
      <4>2. Brought(x[i], a) = Kept(a, EffectiveOf(m, at, ow, a))
        BY <1>1, <3>1, <4>1 DEF Brought, Dresses
      <4> QED BY <4>1, <4>2, SyncAllowed
    <3>2. CASE i \in 1..Len(w)
      <4>1. x[i] = w[i] /\ Final(v, w, a, i) /\ ~InSync(m, at, ow, a)
        BY <1>9, <3>2
      <4>2. Felt(v, w, e, i) BY <3>2, FeltBefore
      <4>3. AttrFine(v, w, e, m, at, ow, a) BY <4>1 DEF Fine
      <4> QED BY <3>2, <4>1, <4>2, <4>3 DEF AttrFine, LastWord
    <3> QED BY <1>4, <3>1, <3>2
  <2>2. Worn(v, x, e, a, Allowed(m, at, ow, a))
    <3> SUFFICES ASSUME \A i \in 1..Len(x) :
                           /\ ~Unbinds(x[i], v)
                           /\ Concerns(x[i], v, a) => ~Felt(v, x, e, i)
                 PROVE  e.attr[a] \in Allowed(m, at, ow, a)
      BY DEF Worn
    <3>1. Felt(v, x, e, b + 1) BY <1>3 DEF Felt, Dresses
    <3>2. ~InSync(m, at, ow, a) BY <1>1, <1>3, <3>1
    <3>3. AttrFine(v, w, e, m, at, ow, a) BY <3>2 DEF Fine
    <3>4. \A i \in 1..Len(w) : /\ ~Unbinds(w[i], v)
                               /\ Concerns(w[i], v, a) => ~Felt(v, w, e, i)
      BY <1>1, FeltBefore
    <3> QED BY <3>3, <3>4 DEF AttrFine, Worn
  <2> QED BY <2>1, <2>2 DEF AttrFine
<1>11. at["paintjob"] \notin {Unset, Neutral} => PaintCovered(v, x, e)
  <2> SUFFICES ASSUME at["paintjob"] \notin {Unset, Neutral} PROVE PaintCovered(v, x, e)
    OBVIOUS
  <2>1. "paintjob" \in Attrs /\ InSync(m, at, ow, "paintjob")
    BY DEF Attrs, InSync, EffectiveOf
  <2>2. ASSUME NEW i \in 1..Len(x), Remaps(x[i], v), Final(v, x, "paintjob", i)
        PROVE  FALSE
    BY <1>4, <1>9, <2>1, <2>2
  <2> QED BY <1>1, <1>3, <2>2 DEF PaintCovered
<1> QED BY <1>6, <1>7, <1>8, <1>10, <1>11 DEF Fine

\* The game's paintjob, of a vehicle in sight.
LEMMA RemappedFine ==
  ASSUME AttributesAssumption, NEW v, NEW w, NEW s, NEW x, Extends(x, w, s),
         Len(s) = 1, Remaps(s[1], v), s[1].value \in Values,
         NEW e, EntryOK(e), NEW m \in Models, NEW at, NEW ow,
         Fine(v, w, e, m, at, ow, TRUE),
         NEW ow2, ow2["paintjob"] = s[1].value, ow2["wheel"] = ow["wheel"]
  PROVE  Fine(v, x, e, m, at, ow2, TRUE)
<1> DEFINE n == Len(w) + 1
<1>1. /\ Len(w) \in Nat /\ Len(x) = n /\ n \in 1..n /\ x[n] = s[1]
      /\ \A i \in 1..Len(w) : x[i] = w[i] /\ i \in 1..n /\ i < n /\ i \in 1..(n - 1)
      /\ \A i \in 1..n : i \in 1..Len(w) \/ i = n
  BY DEF Extends
<1>2. /\ ~Binds(x[n], v) /\ ~Unbinds(x[n], v) /\ Remaps(x[n], v) /\ ~Dresses(x[n], v)
      /\ \A a : Concerns(x[n], v, a) <=> a = "paintjob"
  BY <1>1 DEF Binds, Unbinds, Dresses, Remaps, Concerns
<1>3. \A i \in 1..n : (i + 1)..Len(w) \subseteq (i + 1)..n
                      /\ \A j \in (i + 1)..n : j \in 1..n
  BY <1>1
<1>4. \A i \in 1..Len(w) : n \in (i + 1)..n
  BY <1>1
<1> HIDE DEF n
<1>5. RightBinds(v, x, m)
  <2>0. RightBinds(v, w, m) BY DEF Fine
  <2>1. ASSUME NEW i \in 1..Len(w)
        PROVE  \A j \in (i + 1)..Len(w) : j \in (i + 1)..n /\ x[j] = w[j]
    BY <1>1, <1>3
  <2>2. ASSUME NEW i \in 1..n, Binds(x[i], v)
        PROVE  x[i].model = m \/ \E j \in (i + 1)..n : Unbinds(x[j], v)
    <3>1. i \in 1..Len(w) /\ x[i] = w[i] BY <1>1, <1>2, <2>2
    <3> QED BY <2>0, <2>1, <2>2, <3>1 DEF RightBinds
  <2>3. ASSUME NEW i \in 1..n, Unbinds(x[i], v)
        PROVE  \E j \in (i + 1)..n : Binds(x[j], v)
    <3>1. i \in 1..Len(w) /\ x[i] = w[i] BY <1>1, <1>2, <2>3
    <3> QED BY <2>0, <2>1, <2>3, <3>1 DEF RightBinds
  <2> QED BY <1>1, <2>2, <2>3 DEF RightBinds
<1>6. RightModel(v, x, e, m)
  BY <1>1 DEF RightModel, Fine
<1>7. Undressed(v, x, at)
  BY <1>1, <1>2 DEF Undressed, Fine
<1>8. ASSUME NEW a, NEW i \in 1..n, i # n, Final(v, x, a, i)
      PROVE  i \in 1..Len(w) /\ x[i] = w[i] /\ a # "paintjob" /\ Final(v, w, a, i)
  <2>1. i \in 1..Len(w) /\ x[i] = w[i] BY <1>1, <1>8
  <2>2. \A j \in (i + 1)..Len(w) : j \in (i + 1)..n /\ x[j] = w[j]
    BY <1>1, <1>3, <2>1
  <2> QED BY <1>1, <1>2, <1>4, <1>8, <2>1, <2>2 DEF Final
<1>9. \A a : a # "paintjob" => Allowed(m, at, ow2, a) = Allowed(m, at, ow, a)
  BY DEF Allowed, ToldOf
<1>10. ASSUME NEW a \in Attrs, a # "paintjob"
       PROVE  AttrFine(v, x, e, m, at, ow2, a)
  <2>1. AttrFine(v, w, e, m, at, ow, a) BY DEF Fine
  <2> DEFINE S == Allowed(m, at, ow, a)
  <2>2. LastWord(v, w, e, a, S) /\ Worn(v, w, e, a, S) /\ Allowed(m, at, ow2, a) = S
    BY <1>9, <1>10, <2>1 DEF AttrFine
  <2> HIDE DEF S
  <2>3. LastWord(v, x, e, a, S)
    <3> SUFFICES ASSUME NEW i \in 1..n, Concerns(x[i], v, a), Final(v, x, a, i),
                        Felt(v, x, e, i)
                 PROVE  Brought(x[i], a) \in S
      BY <1>1 DEF LastWord
    <3>1. i # n BY <1>2, <1>10
    <3>2. i \in 1..Len(w) /\ x[i] = w[i] /\ Final(v, w, a, i) BY <1>8, <3>1
    <3>3. Felt(v, w, e, i) BY <3>2, FeltBefore
    <3> QED BY <2>2, <3>2, <3>3 DEF LastWord
  <2>4. Worn(v, x, e, a, S)
    <3> SUFFICES ASSUME \A i \in 1..n : /\ ~Unbinds(x[i], v)
                                        /\ Concerns(x[i], v, a) => ~Felt(v, x, e, i)
                 PROVE  e.attr[a] \in S
      BY <1>1 DEF Worn
    <3>1. \A i \in 1..Len(w) : /\ ~Unbinds(w[i], v)
                               /\ Concerns(w[i], v, a) => ~Felt(v, w, e, i)
      BY <1>1, FeltBefore
    <3> QED BY <2>2, <3>1 DEF Worn
  <2> QED BY <2>2, <2>3, <2>4 DEF AttrFine
<1>11. ASSUME ~e.present, \A i \in 1..n : ~Unbinds(x[i], v), ~Felt(v, x, e, n),
              Fine(v, w, e, m, at, ow, TRUE)
       PROVE  at["paintjob"] \in {Unset, Neutral}
  <2> SUFFICES ASSUME at["paintjob"] \notin {Unset, Neutral} PROVE FALSE
    OBVIOUS
  <2>1. PICK j \in 1..Len(w) : Dresses(w[j], v)
    BY <1>11 DEF Fine, PaintCovered
  <2>2. j \in 1..(n - 1) /\ Dresses(x[j], v) BY <1>1, <2>1
  <2>3. \A l \in j..(n - 1) : l \in 1..n BY <1>1, <2>2
  <2> QED BY <1>11, <2>2, <2>3 DEF Felt
<1>12. AttrFine(v, x, e, m, at, ow2, "paintjob")
  <2>0. /\ Neutral \notin Values /\ Unset \notin Values
    BY DEF AttributesAssumption
  <2>1. s[1].value \in Allowed(m, at, ow2, "paintjob")
    BY <2>0 DEF Allowed, ToldOf, OrElse
  <2>2. Brought(x[n], "paintjob") = s[1].value
    BY <1>1, <2>0 DEF Brought, Kept, Remaps
  <2>3. LastWord(v, x, e, "paintjob", Allowed(m, at, ow2, "paintjob"))
    BY <1>1, <1>8, <2>1, <2>2 DEF LastWord
  <2>4. Worn(v, x, e, "paintjob", Allowed(m, at, ow2, "paintjob"))
    <3> SUFFICES ASSUME \A i \in 1..n :
                           /\ ~Unbinds(x[i], v)
                           /\ Concerns(x[i], v, "paintjob") => ~Felt(v, x, e, i)
                 PROVE  e.attr["paintjob"] \in Allowed(m, at, ow2, "paintjob")
      BY <1>1 DEF Worn
    <3>1. ~Felt(v, x, e, n) BY <1>1, <1>2
    <3>2. ~e.present
      <4>1. \A j \in 1..(n - 1) : j \in 1..n BY <1>1
      <4> QED BY <3>1, <4>1 DEF Felt
    <3>3. at["paintjob"] \in {Unset, Neutral} BY <1>11, <3>1, <3>2
    <3>4. "paintjob" \in Attrs BY DEF Attrs
    <3>5. e.attr["paintjob"] = Unset BY <3>2, <3>4 DEF EntryOK, NoEntry, NoAttrs
    <3> QED BY <3>3, <3>4, <3>5, UnsetAllowed
  <2> QED BY <2>3, <2>4 DEF AttrFine
<1>13. at["paintjob"] \notin {Unset, Neutral} => PaintCovered(v, x, e)
  <2> SUFFICES ASSUME at["paintjob"] \notin {Unset, Neutral}, ~e.present
               PROVE  PaintCovered(v, x, e)
    BY DEF PaintCovered
  <2>1. PICK j \in 1..Len(w) : Dresses(w[j], v)
    BY DEF Fine, PaintCovered
  <2>2. j \in 1..n /\ j < n /\ Dresses(x[j], v) BY <1>1, <2>1
  <2>3. \A i \in 1..n : Remaps(x[i], v) /\ Final(v, x, "paintjob", i) => i = n
    BY <1>8
  <2> QED BY <1>1, <2>2, <2>3 DEF PaintCovered
<1> QED BY <1>5, <1>6, <1>7, <1>10, <1>12, <1>13 DEF Fine

\* A vehicle that was bound to nothing is bound.
LEMMA BoundFine ==
  ASSUME AttributesAssumption, NEW v, NEW w, NEW s, NEW x, Extends(x, w, s),
         NEW m \in Models, Len(s) = 1, Binds(s[1], v), s[1].model = m,
         NEW e, Gone(v, w, e), NEW at, NEW ow, NEW su,
         \A a \in Attrs \ ModelAudio : at[a] = Unset
  PROVE  Fine(v, x, e, m, at, ow, su)
<1> DEFINE n == Len(w) + 1
<1>1. /\ Len(w) \in Nat /\ Len(x) = n /\ n \in 1..n /\ x[n] = s[1]
      /\ \A i \in 1..Len(w) : x[i] = w[i] /\ i \in 1..n /\ i < n
      /\ \A i \in 1..n : i \in 1..Len(w) \/ i = n
  BY DEF Extends
<1>2. /\ Binds(x[n], v) /\ ~Unbinds(x[n], v) /\ ~Remaps(x[n], v) /\ ~Dresses(x[n], v)
      /\ \A a : ~Concerns(x[n], v, a)
  BY <1>1 DEF Binds, Unbinds, Dresses, Remaps, Concerns
<1>3. \A i \in 1..Len(w) : n \in (i + 1)..n
  BY <1>1
<1>4. \A i \in 1..n : /\ (i + 1)..Len(w) \subseteq (i + 1)..n
                      /\ \A j \in 1..(i - 1) : j \in 1..Len(w)
  BY <1>1
<1> HIDE DEF n
<1>5. "paintjob" \in Attrs \ ModelAudio BY DEF Attrs, ModelAudio
<1>6. \A a \in Attrs : Unset \in Allowed(m, at, ow, a)
  BY UnsetAllowed
<1>7. RightModel(v, x, e, m) /\ Undressed(v, x, at)
  BY <1>1, <1>2 DEF RightModel, Undressed
<1>8. CASE e = NoEntry /\ \A i \in 1..Len(w) : ~Touches(w[i], v)
  <2>1. \A i \in 1..Len(w) : ~Binds(x[i], v) /\ ~Unbinds(x[i], v) /\ ~Dresses(x[i], v)
    BY <1>1, <1>8 DEF Touches, Binds, Unbinds, Dresses
  <2>2. RightBinds(v, x, m)
    BY <1>1, <1>2, <2>1 DEF RightBinds
  <2>3. ASSUME NEW i \in 1..Len(w), NEW a, Concerns(x[i], v, a) PROVE ~Felt(v, x, e, i)
    <3>1. x[i].type # "Set" BY <2>1, <2>3 DEF Concerns, Remaps
    <3>2. ~e.present BY <1>8 DEF NoEntry
    <3>3. \A j \in 1..(i - 1) : j \in 1..Len(w) BY <1>1
    <3> QED BY <2>1, <3>1, <3>2, <3>3 DEF Felt
  <2>4. \A a : LastWord(v, x, e, a, Allowed(m, at, ow, a))
    BY <1>1, <1>2, <2>3 DEF LastWord
  <2>5. \A a \in Attrs : Worn(v, x, e, a, Allowed(m, at, ow, a))
    BY <1>6, <1>8 DEF Worn, NoEntry, NoAttrs
  <2> QED BY <1>5, <1>7, <2>2, <2>4, <2>5 DEF Fine, AttrFine
<1>9. CASE \E u \in 1..Len(w) : /\ Unbinds(w[u], v)
                                /\ \A j \in (u + 1)..Len(w) : ~Touches(w[j], v)
  <2>1. PICK u \in 1..Len(w) : /\ Unbinds(w[u], v)
                               /\ \A j \in (u + 1)..Len(w) : ~Touches(w[j], v)
    BY <1>9
  <2>2. u \in 1..n /\ Unbinds(x[u], v) BY <1>1, <2>1
  <2>3. ASSUME NEW i \in 1..Len(w), i > u
        PROVE  ~Binds(x[i], v) /\ ~Unbinds(x[i], v) /\ ~Dresses(x[i], v)
    <3>1. i \in (u + 1)..Len(w) BY <1>1, <2>1, <2>3
    <3> QED BY <1>1, <2>1, <3>1 DEF Touches, Binds, Unbinds, Dresses
  <2>4. RightBinds(v, x, m)
    <3>1. ASSUME NEW i \in 1..n, Binds(x[i], v)
          PROVE  x[i].model = m \/ \E j \in (i + 1)..n : Unbinds(x[j], v)
      <4>1. CASE i = n BY <1>1, <4>1
      <4>2. CASE i \in 1..Len(w)
        <5>1. i < u
          <6>1. ~(i > u) BY <2>3, <3>1, <4>2
          <6>2. i # u BY <2>2, <3>1 DEF Binds, Unbinds
          <6> QED BY <1>1, <2>1, <4>2, <6>1, <6>2
        <5>2. u \in (i + 1)..n BY <1>1, <2>1, <4>2, <5>1
        <5> QED BY <2>2, <5>2
      <4> QED BY <1>1, <4>1, <4>2
    <3>2. ASSUME NEW i \in 1..n, Unbinds(x[i], v)
          PROVE  \E j \in (i + 1)..n : Binds(x[j], v)
      <4>1. i \in 1..Len(w) BY <1>1, <1>2, <3>2
      <4> QED BY <1>2, <1>3, <4>1
    <3> QED BY <1>1, <3>1, <3>2 DEF RightBinds
  <2>5. ASSUME NEW a, NEW i \in 1..n, Concerns(x[i], v, a), Final(v, x, a, i)
        PROVE  ~Felt(v, x, e, i)
    <3>1. i \in 1..Len(w) BY <1>1, <1>2, <2>5
    <3>2. i > u
      <4>1. ~(u \in (i + 1)..n) BY <1>1, <2>2, <2>5 DEF Final
      <4>2. i # u BY <2>2, <2>5 DEF Concerns, Unbinds, Dresses, Remaps
      <4> QED BY <1>1, <2>1, <3>1, <4>1, <4>2
    <3>3. x[i].type # "Set" BY <2>3, <2>5, <3>1, <3>2 DEF Concerns, Remaps
    <3>4. u \in 1..(i - 1) BY <1>1, <2>1, <3>1, <3>2
    <3>5. ASSUME NEW j \in 1..(i - 1), Binds(x[j], v) \/ Dresses(x[j], v)
          PROVE  u \in j..(i - 1)
      <4>1. j \in 1..Len(w) BY <1>4, <3>1, <3>5, <1>1
      <4>2. ~(j > u) BY <2>3, <3>5, <4>1
      <4> QED BY <1>1, <2>1, <3>4, <4>1, <4>2
    <3> QED BY <2>2, <3>3, <3>4, <3>5 DEF Felt
  <2>6. \A a : LastWord(v, x, e, a, Allowed(m, at, ow, a))
    BY <1>1, <2>5 DEF LastWord
  <2>7. \A a : Worn(v, x, e, a, Allowed(m, at, ow, a))
    BY <1>1, <2>2 DEF Worn
  <2> QED BY <1>5, <1>7, <2>4, <2>6, <2>7 DEF Fine, AttrFine
<1> QED BY <1>8, <1>9 DEF Gone

-----------------------------------------------------------------------------
(* A packet that the client takes from its place k, before which only tasks  *)
(* wait.                                                                     *)
Drops(x, w, k) ==
    /\ Len(w) \in Nat /\ k \in 1..Len(w) /\ Len(x) = Len(w) - 1
    /\ \A i \in 1..(k - 1) : x[i] = w[i]
    /\ \A i \in k..Len(x) : x[i] = w[i + 1]
OnlyTasks(w, n) == \A i \in 1..n : w[i].type \notin {"Set", "Remap"}

\* Where a packet was before, and where it is now.
Was(k, i) == IF i < k THEN i ELSE i + 1
Moved(k, j) == IF j < k THEN j ELSE j - 1

\* The places of what is left, and where they were.
LEMMA DropsPlaces ==
  ASSUME NEW x, NEW w, NEW k, Drops(x, w, k)
  PROVE  /\ k \in Nat /\ Len(w) \in Nat /\ Len(x) \in Nat /\ Len(x) = Len(w) - 1
         /\ k \in 1..Len(w)
         /\ \A i \in 1..Len(x) : /\ Was(k, i) \in 1..Len(w) /\ Was(k, i) # k
                                 /\ x[i] = w[Was(k, i)] /\ Moved(k, Was(k, i)) = i
         /\ \A j \in 1..Len(w) : j # k => /\ Moved(k, j) \in 1..Len(x)
                                          /\ Was(k, Moved(k, j)) = j
                                          /\ x[Moved(k, j)] = w[j]
         /\ \A i, j \in 1..Len(x) : i < j <=> Was(k, i) < Was(k, j)
<1>1. /\ Len(w) \in Nat /\ k \in 1..Len(w) /\ Len(x) = Len(w) - 1
      /\ \A i \in 1..(k - 1) : x[i] = w[i]
      /\ \A i \in k..Len(x) : x[i] = w[i + 1]
  BY DEF Drops
<1>2. k \in Nat /\ Len(x) \in Nat BY <1>1
<1>3. ASSUME NEW i \in 1..Len(x)
      PROVE  /\ Was(k, i) \in 1..Len(w) /\ Was(k, i) # k
             /\ x[i] = w[Was(k, i)] /\ Moved(k, Was(k, i)) = i
  <2>1. CASE i < k BY <1>1, <1>2, <2>1 DEF Was, Moved
  <2>2. CASE ~(i < k)
    <3>1. i \in k..Len(x) /\ Was(k, i) = i + 1 BY <1>1, <1>2, <2>2 DEF Was
    <3> QED BY <1>1, <1>2, <2>2, <3>1 DEF Moved
  <2> QED BY <2>1, <2>2
<1>4. ASSUME NEW j \in 1..Len(w), j # k
      PROVE  /\ Moved(k, j) \in 1..Len(x) /\ Was(k, Moved(k, j)) = j
             /\ x[Moved(k, j)] = w[j]
  <2>1. Moved(k, j) \in 1..Len(x) /\ Was(k, Moved(k, j)) = j
    BY <1>1, <1>2, <1>4 DEF Was, Moved
  <2> QED BY <1>3, <2>1
<1>5. \A i, j \in 1..Len(x) : i < j <=> Was(k, i) < Was(k, j)
  BY <1>1, <1>2 DEF Was
<1> QED BY <1>1, <1>2, <1>3, <1>4, <1>5

\* The same, of the places before and after one.
LEMMA DropsOrder ==
  ASSUME NEW x, NEW w, NEW k, Drops(x, w, k), NEW i \in 1..Len(x)
  PROVE  /\ \A j \in 1..(i - 1) : j \in 1..Len(x) /\ Was(k, j) \in 1..(Was(k, i) - 1)
         /\ \A j \in 1..(Was(k, i) - 1) : j \in 1..Len(w)
               /\ (j # k => Moved(k, j) \in 1..(i - 1))
         /\ \A j \in (i + 1)..Len(x) : j \in 1..Len(x)
               /\ Was(k, j) \in (Was(k, i) + 1)..Len(w)
         /\ \A j \in (Was(k, i) + 1)..Len(w) : j \in 1..Len(w)
               /\ (j # k => Moved(k, j) \in (i + 1)..Len(x))
BY DropsPlaces DEF Was, Moved

\* Places between two.
LEMMA DropsBetween ==
  ASSUME NEW x, NEW w, NEW k, Drops(x, w, k), NEW i \in 1..Len(x), NEW j \in 1..(i - 1)
  PROVE  /\ \A l \in j..(i - 1) : Was(k, l) \in Was(k, j)..(Was(k, i) - 1)
         /\ \A l \in Was(k, j)..(Was(k, i) - 1) :
               l \in 1..Len(w) /\ (l # k => Moved(k, l) \in j..(i - 1))
BY DropsPlaces DEF Was, Moved

\* A packet that is no task leaves the tasks in their order.
LEMMA DropsTasks ==
  ASSUME NEW x, NEW w, NEW k, Drops(x, w, k), NEW v, NEW m, NEW e, NEW at,
         ~Binds(w[k], v), ~Unbinds(w[k], v)
  PROVE  /\ RightBinds(v, w, m) => RightBinds(v, x, m)
         /\ RightModel(v, w, e, m) => RightModel(v, x, e, m)
         /\ Undressed(v, w, at) => Undressed(v, x, at)
         /\ (\E i \in 1..Len(w) : Unbinds(w[i], v))
               => \E i \in 1..Len(x) : Unbinds(x[i], v)
<1>1. /\ \A i \in 1..Len(x) : Was(k, i) \in 1..Len(w) /\ x[i] = w[Was(k, i)]
      /\ \A j \in 1..Len(w) : j # k => Moved(k, j) \in 1..Len(x) /\ x[Moved(k, j)] = w[j]
  BY DropsPlaces
<1>2. ASSUME RightBinds(v, w, m) PROVE RightBinds(v, x, m)
  <2>1. ASSUME NEW i \in 1..Len(x), Binds(x[i], v)
        PROVE  x[i].model = m \/ \E j \in (i + 1)..Len(x) : Unbinds(x[j], v)
    <3>1. \/ x[i].model = m
          \/ \E j \in (Was(k, i) + 1)..Len(w) : Unbinds(w[j], v)
      BY <1>1, <1>2, <2>1 DEF RightBinds
    <3>2. ASSUME NEW j \in (Was(k, i) + 1)..Len(w), Unbinds(w[j], v)
          PROVE  \E l \in (i + 1)..Len(x) : Unbinds(x[l], v)
      <4>1. j # k BY <3>2
      <4>2. j \in 1..Len(w) /\ Moved(k, j) \in (i + 1)..Len(x) BY <3>2, <4>1, DropsOrder
      <4> QED BY <1>1, <3>2, <4>1, <4>2
    <3> QED BY <3>1, <3>2
  <2>2. ASSUME NEW i \in 1..Len(x), Unbinds(x[i], v)
        PROVE  \E j \in (i + 1)..Len(x) : Binds(x[j], v)
    <3>1. PICK j \in (Was(k, i) + 1)..Len(w) : Binds(w[j], v)
      BY <1>1, <1>2, <2>2 DEF RightBinds
    <3>2. j # k BY <3>1
    <3>3. j \in 1..Len(w) /\ Moved(k, j) \in (i + 1)..Len(x) BY <3>1, <3>2, DropsOrder
    <3> QED BY <1>1, <3>1, <3>2, <3>3
  <2> QED BY <2>1, <2>2 DEF RightBinds
<1>3. RightModel(v, w, e, m) => RightModel(v, x, e, m)
  BY <1>1 DEF RightModel
<1>4. Undressed(v, w, at) => Undressed(v, x, at)
  BY <1>1 DEF Undressed
<1>5. (\E i \in 1..Len(w) : Unbinds(w[i], v)) => \E i \in 1..Len(x) : Unbinds(x[i], v)
  BY <1>1
<1> QED BY <1>2, <1>3, <1>4, <1>5

\* The last word of what is left was the last word.
LEMMA DropsFinal ==
  ASSUME NEW x, NEW w, NEW k, Drops(x, w, k), OnlyTasks(w, k - 1), NEW v, NEW a,
         NEW i \in 1..Len(x), Concerns(x[i], v, a), Final(v, x, a, i)
  PROVE  k < Was(k, i) /\ Concerns(w[Was(k, i)], v, a) /\ Final(v, w, a, Was(k, i))
<1>1. Was(k, i) \in 1..Len(w) /\ Was(k, i) # k /\ x[i] = w[Was(k, i)]
  BY DropsPlaces
<1>2. ~(Was(k, i) \in 1..(k - 1))
  BY <1>1 DEF OnlyTasks, Concerns, Dresses, Remaps
<1>3. k < Was(k, i) /\ k \in Nat
  BY <1>1, <1>2, DropsPlaces
<1>4. ASSUME NEW j \in (Was(k, i) + 1)..Len(w)
      PROVE  ~Concerns(w[j], v, a) /\ ~Unbinds(w[j], v)
  <2>1. j # k /\ j \in 1..Len(w) BY <1>1, <1>3, <1>4, DropsPlaces
  <2>2. Moved(k, j) \in (i + 1)..Len(x) BY <2>1, DropsOrder
  <2>3. x[Moved(k, j)] = w[j] BY <2>1, DropsPlaces
  <2> QED BY <2>2, <2>3 DEF Final
<1> QED BY <1>1, <1>3, <1>4 DEF Final

\* What meets an entry later would have met it before.
LEMMA DropsFelt ==
  ASSUME NEW x, NEW w, NEW k, Drops(x, w, k), NEW v, NEW i \in 1..Len(x),
         ~Unbinds(w[k], v), NEW e, NEW e2, e2.present => e.present, Felt(v, x, e2, i)
  PROVE  Felt(v, w, e, Was(k, i))
<1>1. x[i] = w[Was(k, i)] BY DropsPlaces
<1>2. CASE x[i].type = "Set" BY <1>1, <1>2 DEF Felt
<1>3. CASE e2.present /\ \A j \in 1..(i - 1) : ~Unbinds(x[j], v)
  <2>1. ASSUME NEW j \in 1..(Was(k, i) - 1) PROVE ~Unbinds(w[j], v)
    <3>1. CASE j = k BY <3>1
    <3>2. CASE j # k
      <4>1. j \in 1..Len(w) /\ Moved(k, j) \in 1..(i - 1) BY <3>2, DropsOrder
      <4>2. x[Moved(k, j)] = w[j] BY <3>2, <4>1, DropsPlaces
      <4> QED BY <1>3, <4>1, <4>2
    <3> QED BY <3>1, <3>2
  <2> QED BY <1>3, <2>1 DEF Felt
<1>4. CASE \E j \in 1..(i - 1) : /\ Binds(x[j], v) \/ Dresses(x[j], v)
                                 /\ \A l \in j..(i - 1) : ~Unbinds(x[l], v)
  <2>1. PICK j \in 1..(i - 1) : /\ Binds(x[j], v) \/ Dresses(x[j], v)
                                /\ \A l \in j..(i - 1) : ~Unbinds(x[l], v)
    BY <1>4
  <2>2. j \in 1..Len(x) /\ Was(k, j) \in 1..(Was(k, i) - 1) BY DropsOrder
  <2>3. x[j] = w[Was(k, j)] BY <2>2, DropsPlaces
  <2>4. ASSUME NEW l \in Was(k, j)..(Was(k, i) - 1) PROVE ~Unbinds(w[l], v)
    <3>1. CASE l = k BY <3>1
    <3>2. CASE l # k
      <4>1. l \in 1..Len(w) /\ Moved(k, l) \in j..(i - 1) BY <3>2, DropsBetween
      <4>2. x[Moved(k, l)] = w[l] BY <3>2, <4>1, DropsPlaces
      <4> QED BY <2>1, <4>1, <4>2
    <3> QED BY <3>1, <3>2
  <2> QED BY <2>1, <2>2, <2>3, <2>4 DEF Felt
<1> QED BY <1>2, <1>3, <1>4 DEF Felt

\* The other way round, for a packet that brings no entry about.
LEMMA DropsUnfelt ==
  ASSUME NEW x, NEW w, NEW k, Drops(x, w, k), NEW v, NEW i \in 1..Len(x),
         ~Binds(w[k], v), ~Dresses(w[k], v), NEW e, Felt(v, w, e, Was(k, i))
  PROVE  Felt(v, x, e, i)
<1>1. x[i] = w[Was(k, i)] BY DropsPlaces
<1>2. CASE w[Was(k, i)].type = "Set" BY <1>1, <1>2 DEF Felt
<1>3. CASE e.present /\ \A j \in 1..(Was(k, i) - 1) : ~Unbinds(w[j], v)
  <2>1. ASSUME NEW j \in 1..(i - 1) PROVE ~Unbinds(x[j], v)
    <3>1. j \in 1..Len(x) /\ Was(k, j) \in 1..(Was(k, i) - 1) BY DropsOrder
    <3>2. x[j] = w[Was(k, j)] BY <3>1, DropsPlaces
    <3> QED BY <1>3, <3>1, <3>2
  <2> QED BY <1>3, <2>1 DEF Felt
<1>4. CASE \E j \in 1..(Was(k, i) - 1) :
              /\ Binds(w[j], v) \/ Dresses(w[j], v)
              /\ \A l \in j..(Was(k, i) - 1) : ~Unbinds(w[l], v)
  <2>1. PICK j \in 1..(Was(k, i) - 1) :
              /\ Binds(w[j], v) \/ Dresses(w[j], v)
              /\ \A l \in j..(Was(k, i) - 1) : ~Unbinds(w[l], v)
    BY <1>4
  <2> DEFINE n == Moved(k, j)
  <2>2. j # k /\ j \in 1..Len(w) BY <2>1, DropsOrder
  <2>3. n \in 1..(i - 1) /\ Was(k, n) = j /\ x[n] = w[j]
    BY <2>2, DropsOrder, DropsPlaces
  <2> HIDE DEF n
  <2>4. ASSUME NEW l \in n..(i - 1) PROVE ~Unbinds(x[l], v)
    <3>1. l \in 1..Len(x) BY <2>3, DropsPlaces
    <3>2. Was(k, l) \in j..(Was(k, i) - 1) BY <2>3, DropsBetween
    <3> QED BY <2>1, <3>1, <3>2, DropsPlaces
  <2> QED BY <2>1, <2>3, <2>4 DEF Felt
<1> QED BY <1>2, <1>3, <1>4 DEF Felt

\* What is left to be said, and how it ends.
LEMMA DropsWord ==
  ASSUME NEW x, NEW w, NEW k, Drops(x, w, k), OnlyTasks(w, k - 1), NEW v, NEW a,
         NEW S, NEW e, NEW e2, LastWord(v, w, e, a, S),
         \A i \in 1..Len(x) : k < Was(k, i) /\ Felt(v, x, e2, i) => Felt(v, w, e, Was(k, i))
  PROVE  LastWord(v, x, e2, a, S)
<1> SUFFICES ASSUME NEW i \in 1..Len(x), Concerns(x[i], v, a), Final(v, x, a, i),
                    Felt(v, x, e2, i)
             PROVE  Brought(x[i], a) \in S
  BY DEF LastWord
<1>1. Was(k, i) \in 1..Len(w) /\ x[i] = w[Was(k, i)] BY DropsPlaces
<1>2. k < Was(k, i) /\ Concerns(w[Was(k, i)], v, a) /\ Final(v, w, a, Was(k, i))
  BY DropsFinal
<1> QED BY <1>1, <1>2 DEF LastWord

\* A value that the packet left alone is as good as before.
LEMMA DropsWorn ==
  ASSUME NEW x, NEW w, NEW k, Drops(x, w, k), NEW v, NEW a, NEW S, NEW e,
         ~Binds(w[k], v), ~Unbinds(w[k], v), ~Dresses(w[k], v),
         Concerns(w[k], v, a) => ~Felt(v, w, e, k), Worn(v, w, e, a, S)
  PROVE  Worn(v, x, e, a, S)
<1> SUFFICES ASSUME \A i \in 1..Len(x) : /\ ~Unbinds(x[i], v)
                                         /\ Concerns(x[i], v, a) => ~Felt(v, x, e, i)
             PROVE  e.attr[a] \in S
  BY DEF Worn
<1>1. ASSUME NEW j \in 1..Len(w)
      PROVE  ~Unbinds(w[j], v) /\ (Concerns(w[j], v, a) => ~Felt(v, w, e, j))
  <2>1. CASE j = k BY <2>1
  <2>2. CASE j # k
    <3>1. /\ Moved(k, j) \in 1..Len(x) /\ Was(k, Moved(k, j)) = j /\ x[Moved(k, j)] = w[j]
      BY <2>2, DropsPlaces
    <3>2. Felt(v, w, e, j) => Felt(v, x, e, Moved(k, j))
      BY <3>1, DropsUnfelt
    <3> QED BY <3>1, <3>2
  <2> QED BY <2>1, <2>2
<1> QED BY <1>1 DEF Worn

\* The entry that the game's paintjob needs is still going to be there.
LEMMA DropsCovered ==
  ASSUME NEW x, NEW w, NEW k, Drops(x, w, k), OnlyTasks(w, k - 1), NEW v,
         NEW e, ~Dresses(w[k], v), PaintCovered(v, w, e)
  PROVE  PaintCovered(v, x, e)
<1> SUFFICES ASSUME ~e.present PROVE PaintCovered(v, x, e)
  BY DEF PaintCovered
<1>1. PICK j \in 1..Len(w) :
         /\ Dresses(w[j], v)
         /\ \A i \in 1..Len(w) : Remaps(w[i], v) /\ Final(v, w, "paintjob", i) => j < i
  BY DEF PaintCovered
<1> DEFINE n == Moved(k, j)
<1>2. j # k BY <1>1
<1>3. n \in 1..Len(x) /\ Was(k, n) = j /\ x[n] = w[j]
  BY <1>2, DropsPlaces
<1> HIDE DEF n
<1>4. ASSUME NEW i \in 1..Len(x), Remaps(x[i], v), Final(v, x, "paintjob", i)
      PROVE  n < i
  <2>1. Was(k, i) \in 1..Len(w) /\ x[i] = w[Was(k, i)] BY DropsPlaces
  <2>2. Final(v, w, "paintjob", Was(k, i)) BY <1>4, DropsFinal DEF Concerns
  <2>3. Was(k, n) < Was(k, i) BY <1>1, <1>3, <1>4, <2>1, <2>2
  <2> QED BY <1>3, <2>3, DropsPlaces
<1> QED BY <1>1, <1>3, <1>4 DEF PaintCovered

-----------------------------------------------------------------------------
(* Packets that the client receives. *)

\* About another vehicle.
LEMMA DropOtherFine ==
  ASSUME NEW x, NEW w, NEW k, Drops(x, w, k), OnlyTasks(w, k - 1), NEW v,
         w[k].vehicle # v, NEW e, NEW m, NEW at, NEW ow, NEW su,
         Fine(v, w, e, m, at, ow, su)
  PROVE  Fine(v, x, e, m, at, ow, su)
<1>1. /\ ~Binds(w[k], v) /\ ~Unbinds(w[k], v) /\ ~Dresses(w[k], v)
      /\ \A a : ~Concerns(w[k], v, a)
  BY DEF Binds, Unbinds, Dresses, Remaps, Concerns
<1>2. /\ RightBinds(v, x, m)
      /\ su => RightModel(v, x, e, m)
      /\ Undressed(v, x, at)
  BY <1>1, DropsTasks DEF Fine
<1>3. \A i \in 1..Len(x) : Felt(v, x, e, i) => Felt(v, w, e, Was(k, i))
  BY <1>1, DropsFelt
<1>4. ASSUME NEW a \in Attrs, su \/ ~InSync(m, at, ow, a)
      PROVE  AttrFine(v, x, e, m, at, ow, a)
  <2> DEFINE S == Allowed(m, at, ow, a)
  <2>1. LastWord(v, w, e, a, S) /\ Worn(v, w, e, a, S)
    BY <1>4 DEF Fine, AttrFine
  <2> HIDE DEF S
  <2>2. LastWord(v, x, e, a, S) BY <1>3, <2>1, DropsWord
  <2>3. Worn(v, x, e, a, S) BY <1>1, <2>1, DropsWorn
  <2> QED BY <2>2, <2>3 DEF AttrFine, S
<1>5. su /\ at["paintjob"] \notin {Unset, Neutral} => PaintCovered(v, x, e)
  BY <1>1, DropsCovered DEF Fine
<1> QED BY <1>2, <1>4, <1>5 DEF Fine

\* Whatever comes, nothing will be left but of an Unbind that is carried out.
LEMMA DropsGone ==
  ASSUME NEW x, NEW w, NEW k, Drops(x, w, k), NEW v, ~Unbinds(w[k], v), NEW e,
         NEW e2, e = NoEntry => e2 = NoEntry \/ Touches(w[k], v), Gone(v, w, e)
  PROVE  Gone(v, x, e2)
<1>1. CASE e = NoEntry /\ \A i \in 1..Len(w) : ~Touches(w[i], v)
  <2>1. e2 = NoEntry BY <1>1, DropsPlaces
  <2>2. \A i \in 1..Len(x) : ~Touches(x[i], v) BY <1>1, DropsPlaces
  <2> QED BY <2>1, <2>2 DEF Gone
<1>2. CASE \E i \in 1..Len(w) : /\ Unbinds(w[i], v)
                                /\ \A j \in (i + 1)..Len(w) : ~Touches(w[j], v)
  <2>1. PICK u \in 1..Len(w) : /\ Unbinds(w[u], v)
                               /\ \A j \in (u + 1)..Len(w) : ~Touches(w[j], v)
    BY <1>2
  <2> DEFINE n == Moved(k, u)
  <2>2. u # k BY <2>1
  <2>3. n \in 1..Len(x) /\ Was(k, n) = u /\ x[n] = w[u] BY <2>2, DropsPlaces
  <2> HIDE DEF n
  <2>4. ASSUME NEW j \in (n + 1)..Len(x) PROVE ~Touches(x[j], v)
    <3>1. j \in 1..Len(x) /\ Was(k, j) \in (u + 1)..Len(w) BY <2>3, DropsOrder
    <3>2. x[j] = w[Was(k, j)] BY <3>1, DropsPlaces
    <3> QED BY <2>1, <3>1, <3>2
  <2> QED BY <2>1, <2>3, <2>4 DEF Gone
<1> QED BY <1>1, <1>2 DEF Gone

\* The first one, by a client that has no entry any more.
LEMMA HeadGone ==
  ASSUME NEW x, NEW w, Drops(x, w, 1), NEW v, NEW e,
         e = NoEntry \/ Unbinds(w[1], v), Gone(v, w, e)
  PROVE  Gone(v, x, NoEntry)
<1>1. CASE ~Unbinds(w[1], v) BY <1>1, DropsGone
<1>2. CASE Unbinds(w[1], v)
  <2>1. PICK u \in 1..Len(w) : /\ Unbinds(w[u], v)
                               /\ \A j \in (u + 1)..Len(w) : ~Touches(w[j], v)
    <3>1. Touches(w[1], v) /\ 1 \in 1..Len(w)
      BY <1>2, DropsPlaces DEF Touches, Unbinds
    <3> QED BY <3>1 DEF Gone
  <2>2. CASE u = 1
    <3>1. ASSUME NEW i \in 1..Len(x) PROVE ~Touches(x[i], v)
      <4>1. x[i] = w[Was(1, i)] /\ Was(1, i) \in 1..Len(w) /\ Was(1, i) # 1
        BY DropsPlaces
      <4>2. Was(1, i) \in (u + 1)..Len(w) BY <2>2, <4>1, DropsPlaces
      <4> QED BY <2>1, <4>1, <4>2
    <3> QED BY <3>1 DEF Gone
  <2>3. CASE u # 1
    <3> DEFINE n == Moved(1, u)
    <3>1. n \in 1..Len(x) /\ Was(1, n) = u /\ x[n] = w[u] BY <2>3, DropsPlaces
    <3> HIDE DEF n
    <3>2. ASSUME NEW j \in (n + 1)..Len(x) PROVE ~Touches(x[j], v)
      <4>1. j \in 1..Len(x) /\ Was(1, j) \in (u + 1)..Len(w) BY <3>1, DropsOrder
      <4>2. x[j] = w[Was(1, j)] BY <4>1, DropsPlaces
      <4> QED BY <2>1, <4>1, <4>2
    <3> QED BY <2>1, <3>1, <3>2 DEF Gone
  <2> QED BY <2>2, <2>3
<1> QED BY <1>1, <1>2

\* What is left of the game's paintjobs is the game's paintjobs.
LEMMA DropsFresh ==
  ASSUME NEW x, NEW w, NEW k, Drops(x, w, k), NEW e, Fresh(w, e)
  PROVE  Fresh(x, e)
BY DropsPlaces DEF Fresh

\* In an entry that is there and of which no Unbind is under way, everything
\* is heard.
LEMMA PresentFelt ==
  ASSUME NEW x, NEW v, NEW e, e.present, \A i \in 1..Len(x) : ~Unbinds(x[i], v),
         NEW i \in 1..Len(x), Len(x) \in Nat
  PROVE  Felt(v, x, e, i)
<1>1. \A j \in 1..(i - 1) : j \in 1..Len(x) OBVIOUS
<1> QED BY <1>1 DEF Felt

\* What is said after packet k reaches an entry that it brings about.
LEMMA MadeFelt ==
  ASSUME NEW x, NEW w, NEW k, Drops(x, w, k), NEW v,
         Binds(w[k], v) \/ Dresses(w[k], v), NEW e, NEW e2,
         NEW i \in 1..Len(x), k < Was(k, i), Felt(v, x, e2, i)
  PROVE  Felt(v, w, e, Was(k, i))
<1>1. x[i] = w[Was(k, i)] /\ Was(k, i) \in 1..Len(w) BY DropsPlaces
<1>2. ~Unbinds(w[k], v) BY DEF Binds, Dresses, Unbinds
<1>3. CASE \A j \in 1..(i - 1) : ~Unbinds(x[j], v)
  <2>1. k \in 1..(Was(k, i) - 1) BY <1>1, DropsPlaces
  <2>2. ASSUME NEW l \in k..(Was(k, i) - 1) PROVE ~Unbinds(w[l], v)
    <3>1. CASE l = k BY <1>2, <3>1
    <3>2. CASE l # k
      <4>1. l \in 1..(Was(k, i) - 1) BY DropsPlaces
      <4>2. l \in 1..Len(w) /\ Moved(k, l) \in 1..(i - 1) BY <3>2, <4>1, DropsOrder
      <4>3. x[Moved(k, l)] = w[l] BY <3>2, <4>2, DropsPlaces
      <4> QED BY <1>3, <4>2, <4>3
    <3> QED BY <3>1, <3>2
  <2> QED BY <2>1, <2>2 DEF Felt
<1>4. CASE x[i].type = "Set" BY <1>1, <1>4 DEF Felt
<1>5. CASE \E j \in 1..(i - 1) : /\ Binds(x[j], v) \/ Dresses(x[j], v)
                                 /\ \A l \in j..(i - 1) : ~Unbinds(x[l], v)
  <2>1. Felt(v, x, NoEntry, i) BY <1>5 DEF Felt
  <2>2. ~NoEntry.present BY DEF NoEntry
  <2> QED BY <1>2, <2>1, <2>2, DropsFelt
<1> QED BY <1>3, <1>4, <1>5 DEF Felt

\* If the entry is there and what is left says nothing of an attribute, the
\* packet was the last to say something.
LEMMA LastHeard ==
  ASSUME NEW x, NEW w, NEW k, Drops(x, w, k), NEW v, NEW a, ~Unbinds(w[k], v),
         NEW e2, e2.present,
         \A i \in 1..Len(x) : /\ ~Unbinds(x[i], v)
                              /\ Concerns(x[i], v, a) => ~Felt(v, x, e2, i)
  PROVE  /\ Final(v, w, a, k)
         /\ \A j \in 1..Len(w) : /\ ~Unbinds(w[j], v)
                                 /\ j # k => ~Concerns(w[j], v, a)
<1>1. Len(x) \in Nat /\ \A i \in 1..Len(x) : ~Concerns(x[i], v, a)
  BY PresentFelt, DropsPlaces
<1>2. ASSUME NEW j \in 1..Len(w)
      PROVE  ~Unbinds(w[j], v) /\ (j # k => ~Concerns(w[j], v, a))
  <2>1. CASE j = k BY <2>1
  <2>2. CASE j # k
    <3>1. Moved(k, j) \in 1..Len(x) /\ x[Moved(k, j)] = w[j] BY <2>2, DropsPlaces
    <3> QED BY <1>1, <3>1
  <2> QED BY <2>1, <2>2
<1>3. \A j \in (k + 1)..Len(w) : j \in 1..Len(w) /\ j # k BY DropsPlaces
<1> QED BY <1>2, <1>3 DEF Final

\* A SetVehicle packet of the vehicle is received.
LEMMA SetReceivedFine ==
  ASSUME NEW x, NEW w, NEW k, Drops(x, w, k), OnlyTasks(w, k - 1), NEW v,
         Dresses(w[k], v), NEW e, NEW m, NEW at, NEW ow, NEW su,
         Fine(v, w, e, m, at, ow, su)
  PROVE  Fine(v, x, SetAttrs(e, w[k].attrs), m, at, ow, su)
<1> DEFINE e2 == SetAttrs(e, w[k].attrs)
<1>1. /\ e2.model = e.model /\ e2.present
      /\ \A a \in Attrs : e2.attr[a] = IF a \in DOMAIN w[k].attrs
                                       THEN Kept(a, w[k].attrs[a]) ELSE e.attr[a]
  BY DEF SetAttrs
<1> HIDE DEF e2
<1>2. /\ ~Binds(w[k], v) /\ ~Unbinds(w[k], v)
      /\ \A a : Concerns(w[k], v, a) <=> a \in DOMAIN w[k].attrs
  BY DEF Binds, Unbinds, Dresses, Remaps, Concerns
<1>3. /\ RightBinds(v, x, m)
      /\ su => RightModel(v, x, e2, m)
      /\ Undressed(v, x, at)
  <2>1. su => RightModel(v, x, e, m) BY <1>2, DropsTasks DEF Fine
  <2> QED BY <1>1, <1>2, <2>1, DropsTasks DEF Fine, RightModel
<1>4. \A i \in 1..Len(x) : k < Was(k, i) /\ Felt(v, x, e2, i) => Felt(v, w, e, Was(k, i))
  BY MadeFelt
<1>5. k \in 1..Len(w) /\ Felt(v, w, e, k) BY DropsPlaces DEF Felt, Dresses
<1>6. ASSUME NEW a \in Attrs, su \/ ~InSync(m, at, ow, a)
      PROVE  AttrFine(v, x, e2, m, at, ow, a)
  <2> DEFINE S == Allowed(m, at, ow, a)
  <2>1. LastWord(v, w, e, a, S) /\ Worn(v, w, e, a, S)
    BY <1>6 DEF Fine, AttrFine
  <2> HIDE DEF S
  <2>2. LastWord(v, x, e2, a, S) BY <1>4, <2>1, DropsWord
  <2>3. Worn(v, x, e2, a, S)
    <3> SUFFICES ASSUME \A i \in 1..Len(x) : /\ ~Unbinds(x[i], v)
                                             /\ Concerns(x[i], v, a) => ~Felt(v, x, e2, i)
                 PROVE  e2.attr[a] \in S
      BY DEF Worn
    <3>1. /\ Final(v, w, a, k)
          /\ \A j \in 1..Len(w) : /\ ~Unbinds(w[j], v)
                                  /\ j # k => ~Concerns(w[j], v, a)
      BY <1>1, <1>2, LastHeard
    <3>2. CASE a \in DOMAIN w[k].attrs
      <4>1. Brought(w[k], a) = e2.attr[a] BY <1>1, <3>2 DEF Brought, Dresses
      <4> QED BY <1>2, <1>5, <2>1, <3>1, <3>2, <4>1 DEF LastWord
    <3>3. CASE a \notin DOMAIN w[k].attrs
      <4>1. e.attr[a] \in S BY <1>2, <2>1, <3>1, <3>3 DEF Worn
      <4> QED BY <1>1, <3>3, <4>1
    <3> QED BY <3>2, <3>3
  <2> QED BY <2>2, <2>3 DEF AttrFine, S
<1>7. PaintCovered(v, x, e2) BY <1>1 DEF PaintCovered
<1>8. Fine(v, x, e2, m, at, ow, su) BY <1>3, <1>6, <1>7 DEF Fine
<1> QED BY <1>8 DEF e2

\* The same of a vehicle that is bound to nothing: its Unbind is still to come.
LEMMA SetReceivedGone ==
  ASSUME NEW x, NEW w, NEW k, Drops(x, w, k), NEW v, Dresses(w[k], v), NEW e,
         Gone(v, w, e), NEW e2
  PROVE  Gone(v, x, e2)
BY DropsGone DEF Dresses, Unbinds, Touches

\* The game's paintjob, of an entry that is there or that is not.
Remapped(e, x) == IF e.present THEN SetAttrs(e, One("paintjob", x)) ELSE e

\* The game's paintjob is received, of a bound vehicle.
LEMMA RemapReceivedFine ==
  ASSUME AttributesAssumption, NEW x, NEW w, NEW k, Drops(x, w, k),
         OnlyTasks(w, k - 1), NEW v, Remaps(w[k], v), NEW e, EntryOK(e),
         NEW m \in Models, NEW at, NEW ow, NEW su, Fine(v, w, e, m, at, ow, su)
  PROVE  Fine(v, x, Remapped(e, w[k].value), m, at, ow, su)
<1> DEFINE e2 == Remapped(e, w[k].value)
<1>1. /\ e2.model = e.model /\ e2.present = e.present
      /\ ~e.present => e2 = e
      /\ e.present => \A a \in Attrs : e2.attr[a] = IF a = "paintjob"
                                          THEN Kept(a, w[k].value) ELSE e.attr[a]
  <2>1. SetAttrs(e, One("paintjob", w[k].value)) =
           [model |-> e.model, present |-> TRUE,
            attr |-> [a \in Attrs |-> IF a = "paintjob" THEN Kept(a, w[k].value)
                                                        ELSE e.attr[a]]]
    BY DEF SetAttrs, One
  <2>2. CASE e.present
    <3>1. e2 = SetAttrs(e, One("paintjob", w[k].value)) BY <2>2 DEF Remapped
    <3> HIDE DEF e2
    <3>2. e2.model = e.model /\ e2.present /\ \A a \in Attrs :
             e2.attr[a] = IF a = "paintjob" THEN Kept(a, w[k].value) ELSE e.attr[a]
      BY <2>1, <3>1
    <3>3. e.present = TRUE /\ e2.present = TRUE
      BY <2>1, <2>2, <3>1 DEF EntryOK, Entries
    <3> QED BY <2>2, <3>2, <3>3
  <2>3. CASE ~e.present BY <2>3 DEF Remapped
  <2> QED BY <2>2, <2>3
<1> HIDE DEF e2
<1>2. /\ ~Binds(w[k], v) /\ ~Unbinds(w[k], v) /\ ~Dresses(w[k], v)
      /\ \A a : Concerns(w[k], v, a) <=> a = "paintjob"
  BY DEF Binds, Unbinds, Dresses, Remaps, Concerns
<1>3. /\ RightBinds(v, x, m)
      /\ su => RightModel(v, x, e2, m)
      /\ Undressed(v, x, at)
  <2>1. su => RightModel(v, x, e, m) BY <1>2, DropsTasks DEF Fine
  <2> QED BY <1>1, <1>2, <2>1, DropsTasks DEF Fine, RightModel
<1>4. \A i \in 1..Len(x) : Felt(v, x, e2, i) => Felt(v, w, e, Was(k, i))
  BY <1>1, <1>2, DropsFelt
<1>5. ASSUME NEW a \in Attrs, su \/ ~InSync(m, at, ow, a),
             ~(~e.present /\ a = "paintjob" /\ Felt(v, w, e, k))
      PROVE  AttrFine(v, x, e2, m, at, ow, a)
  <2> DEFINE S == Allowed(m, at, ow, a)
  <2>1. LastWord(v, w, e, a, S) /\ Worn(v, w, e, a, S)
    BY <1>5 DEF Fine, AttrFine
  <2> HIDE DEF S
  <2>2. LastWord(v, x, e2, a, S) BY <1>4, <2>1, DropsWord
  <2>3. CASE ~e.present
    <3>1. Worn(v, x, e, a, S) BY <1>2, <1>5, <2>1, <2>3, DropsWorn
    <3> QED BY <1>1, <2>2, <2>3, <3>1 DEF AttrFine, S
  <2>4. CASE e.present
    <3> SUFFICES ASSUME \A i \in 1..Len(x) : /\ ~Unbinds(x[i], v)
                                             /\ Concerns(x[i], v, a) => ~Felt(v, x, e2, i)
                 PROVE  e2.attr[a] \in S
      BY <2>2 DEF Worn, AttrFine, S
    <3>1. /\ Final(v, w, a, k)
          /\ \A j \in 1..Len(w) : /\ ~Unbinds(w[j], v)
                                  /\ j # k => ~Concerns(w[j], v, a)
      <4>1. e2.present BY <1>1, <2>4
      <4> QED BY <1>2, <4>1, LastHeard
    <3>2. CASE a = "paintjob"
      <4>1. Brought(w[k], a) = e2.attr[a] BY <1>1, <2>4, <3>2 DEF Brought, Remaps
      <4>2. k \in 1..Len(w) /\ Len(w) \in Nat BY DropsPlaces
      <4>3. Felt(v, w, e, k) BY <2>4, <3>1, <4>2, PresentFelt
      <4> QED BY <1>2, <2>1, <3>1, <3>2, <4>1, <4>2, <4>3 DEF LastWord
    <3>3. CASE a # "paintjob"
      <4>1. e.attr[a] \in S BY <1>2, <2>1, <3>1, <3>3 DEF Worn
      <4> QED BY <1>1, <2>4, <3>3, <4>1
    <3> QED BY <3>2, <3>3
  <2> QED BY <2>3, <2>4
<1>6. ASSUME su \/ ~InSync(m, at, ow, "paintjob"), ~e.present, Felt(v, w, e, k)
      PROVE  AttrFine(v, x, e2, m, at, ow, "paintjob")
  <2> DEFINE S == Allowed(m, at, ow, "paintjob")
  <2>0. "paintjob" \in Attrs BY DEF Attrs
  <2>1. LastWord(v, w, e, "paintjob", S)
    BY <1>6, <2>0 DEF Fine, AttrFine
  <2>2. e = NoEntry /\ e2 = e /\ e.attr["paintjob"] = Unset
    BY <1>1, <1>6, <2>0 DEF EntryOK, NoEntry, NoAttrs
  <2>3. Worn(v, x, e, "paintjob", S)
    <3> SUFFICES ASSUME \A i \in 1..Len(x) :
                           /\ ~Unbinds(x[i], v)
                           /\ Concerns(x[i], v, "paintjob") => ~Felt(v, x, e, i),
                        Unset \notin S
                 PROVE  FALSE
      BY <2>2 DEF Worn
    <3>1. su /\ at["paintjob"] \notin {Unset, Neutral}
      BY <1>6, <2>0, UnsetAllowed
    <3>2. PICK j \in 1..Len(w) :
             /\ Dresses(w[j], v)
             /\ \A i \in 1..Len(w) :
                   Remaps(w[i], v) /\ Final(v, w, "paintjob", i) => j < i
      BY <1>6, <3>1 DEF Fine, PaintCovered
    <3>3. k < j
      <4>1. ~(j \in 1..(k - 1)) BY <3>2 DEF OnlyTasks, Dresses
      <4>2. j # k BY <1>2, <3>2
      <4> QED BY <4>1, <4>2, DropsPlaces
    <3>4. ~Final(v, w, "paintjob", k) BY <3>2, <3>3, DropsPlaces
    <3>5. \A i \in 1..Len(w) : ~Unbinds(w[i], v)
      <4>1. ASSUME NEW i \in 1..Len(w), i # k PROVE ~Unbinds(w[i], v)
        <5>1. Moved(k, i) \in 1..Len(x) /\ x[Moved(k, i)] = w[i] BY <4>1, DropsPlaces
        <5> QED BY <5>1
      <4> QED BY <1>2, <4>1
    <3>6. PICK i \in (k + 1)..Len(w) : Concerns(w[i], v, "paintjob")
      <4>1. \A i \in (k + 1)..Len(w) : i \in 1..Len(w) BY DropsPlaces
      <4> QED BY <3>4, <3>5, <4>1 DEF Final
    <3>7. i \in 1..Len(w) /\ i # k /\ k < i BY DropsPlaces
    <3>8. w[k].type # "Set" BY DEF Remaps
    <3>9. PICK b \in 1..(k - 1) : Binds(w[b], v) \/ Dresses(w[b], v)
      BY <1>6, <3>8 DEF Felt
    <3> DEFINE n == Moved(k, i)
    <3> DEFINE c == Moved(k, b)
    <3>10. n \in 1..Len(x) /\ x[n] = w[i] /\ Was(k, n) = i BY <3>7, DropsPlaces
    <3>11. b \in 1..Len(w) /\ b # k /\ b < i BY <3>7, DropsPlaces
    <3>12. c \in 1..Len(x) /\ x[c] = w[b] /\ Was(k, c) = b BY <3>11, DropsPlaces
    <3> HIDE DEF n, c
    <3>13. c < n BY <3>10, <3>11, <3>12, DropsPlaces
    <3>14. c \in 1..(n - 1) /\ \A l \in c..(n - 1) : l \in 1..Len(x)
      BY <3>10, <3>12, <3>13, DropsPlaces
    <3>15. Felt(v, x, e, n) BY <3>9, <3>12, <3>14 DEF Felt
    <3> QED BY <3>6, <3>10, <3>15
  <2>4. LastWord(v, x, e2, "paintjob", S) BY <1>4, <2>1, DropsWord
  <2> QED BY <2>2, <2>3, <2>4 DEF AttrFine
<1>7. su /\ at["paintjob"] \notin {Unset, Neutral} => PaintCovered(v, x, e2)
  <2>1. CASE e.present BY <1>1, <2>1 DEF PaintCovered
  <2>2. CASE ~e.present BY <1>1, <1>2, <2>2, DropsCovered DEF Fine
  <2> QED BY <2>1, <2>2
<1>8. Fine(v, x, e2, m, at, ow, su) BY <1>3, <1>5, <1>6, <1>7 DEF Fine
<1> QED BY <1>8 DEF e2

\* The same of a vehicle that is bound to nothing.
LEMMA RemapReceivedGone ==
  ASSUME NEW x, NEW w, NEW k, Drops(x, w, k), NEW v, Remaps(w[k], v), NEW e,
         Gone(v, w, e)
  PROVE  Gone(v, x, Remapped(e, w[k].value))
<1>1. ~Unbinds(w[k], v) BY DEF Remaps, Unbinds
<1>2. e = NoEntry => Remapped(e, w[k].value) = NoEntry BY DEF Remapped, NoEntry
<1> QED BY <1>1, <1>2, DropsGone

-----------------------------------------------------------------------------
(* The first task or packet, whatever it is: the places behind it stay.      *)
\* The tasks behind it are still in their order.
LEMMA HeadTasks ==
  ASSUME NEW x, NEW w, Drops(x, w, 1), NEW v, NEW m, NEW at
  PROVE  /\ RightBinds(v, w, m) => RightBinds(v, x, m)
         /\ Undressed(v, w, at) => Undressed(v, x, at)
<1>1. /\ Len(x) \in Nat /\ Len(w) \in Nat /\ Len(x) = Len(w) - 1
      /\ \A i \in 1..Len(x) : i + 1 \in 1..Len(w) /\ x[i] = w[i + 1]
  BY DropsPlaces DEF Drops, Was
<1>2. ASSUME NEW i \in 1..Len(x), NEW j \in (i + 1 + 1)..Len(w)
      PROVE  j - 1 \in (i + 1)..Len(x) /\ x[j - 1] = w[j]
  <2>1. j - 1 \in (i + 1)..Len(x) /\ j - 1 \in 1..Len(x) /\ (j - 1) + 1 = j
    BY <1>1
  <2> QED BY <1>1, <2>1
<1>3. ASSUME RightBinds(v, w, m) PROVE RightBinds(v, x, m)
  <2>1. ASSUME NEW i \in 1..Len(x), Binds(x[i], v)
        PROVE  x[i].model = m \/ \E j \in (i + 1)..Len(x) : Unbinds(x[j], v)
    <3>1. i + 1 \in 1..Len(w) /\ Binds(w[i + 1], v) /\ x[i] = w[i + 1] BY <1>1, <2>1
    <3>2. w[i + 1].model = m \/ \E j \in (i + 1 + 1)..Len(w) : Unbinds(w[j], v)
      BY <1>3, <3>1 DEF RightBinds
    <3> QED BY <1>2, <3>1, <3>2
  <2>2. ASSUME NEW i \in 1..Len(x), Unbinds(x[i], v)
        PROVE  \E j \in (i + 1)..Len(x) : Binds(x[j], v)
    <3>1. i + 1 \in 1..Len(w) /\ Unbinds(w[i + 1], v) BY <1>1, <2>2
    <3>2. \E j \in (i + 1 + 1)..Len(w) : Binds(w[j], v)
      BY <1>3, <3>1 DEF RightBinds
    <3> QED BY <1>2, <3>2
  <2> QED BY <2>1, <2>2 DEF RightBinds
<1>4. Undressed(v, w, at) => Undressed(v, x, at)
  BY <1>1 DEF Undressed
<1> QED BY <1>3, <1>4

\* Without an entry, what meets one met one before, or another one.
LEMMA HeadFelt ==
  ASSUME NEW x, NEW w, Drops(x, w, 1), NEW v, NEW e, NEW i \in 1..Len(x),
         Felt(v, x, NoEntry, i)
  PROVE  Felt(v, w, e, Was(1, i))
<1>1. x[i] = w[Was(1, i)] BY DropsPlaces
<1>2. CASE x[i].type = "Set" BY <1>1, <1>2 DEF Felt
<1>3. CASE \E j \in 1..(i - 1) : /\ Binds(x[j], v) \/ Dresses(x[j], v)
                                 /\ \A l \in j..(i - 1) : ~Unbinds(x[l], v)
  <2>1. PICK j \in 1..(i - 1) : /\ Binds(x[j], v) \/ Dresses(x[j], v)
                                /\ \A l \in j..(i - 1) : ~Unbinds(x[l], v)
    BY <1>3
  <2>2. j \in 1..Len(x) /\ Was(1, j) \in 1..(Was(1, i) - 1) BY DropsOrder
  <2>3. x[j] = w[Was(1, j)] BY <2>2, DropsPlaces
  <2>4. ASSUME NEW l \in Was(1, j)..(Was(1, i) - 1) PROVE ~Unbinds(w[l], v)
    <3>1. l # 1 BY <2>2, DropsPlaces DEF Was
    <3>2. l \in 1..Len(w) /\ Moved(1, l) \in j..(i - 1) BY <3>1, DropsBetween
    <3>3. x[Moved(1, l)] = w[l] BY <3>1, <3>2, DropsPlaces
    <3> QED BY <2>1, <3>2, <3>3
  <2> QED BY <2>1, <2>2, <2>3, <2>4 DEF Felt
<1> QED BY <1>2, <1>3 DEF Felt, NoEntry

\* There is none before the first.
LEMMA NoTasksBefore ==
  ASSUME NEW w
  PROVE  OnlyTasks(w, 1 - 1)
BY DEF OnlyTasks

\* A client whose entries are all cleared: the next packet does not matter.
LEMMA LostFine ==
  ASSUME AttributesAssumption, NEW x, NEW w, Drops(x, w, 1), NEW v, NEW m \in Models,
         NEW at, NEW ow, Fine(v, w, NoEntry, m, at, ow, FALSE)
  PROVE  Fine(v, x, NoEntry, m, at, ow, FALSE)
<1>1. RightBinds(v, x, m) /\ Undressed(v, x, at) BY HeadTasks DEF Fine
<1>2. \A i \in 1..Len(x) : Felt(v, x, NoEntry, i) => Felt(v, w, NoEntry, Was(1, i))
  BY HeadFelt
<1>3. ASSUME NEW a \in Attrs, ~InSync(m, at, ow, a)
      PROVE  AttrFine(v, x, NoEntry, m, at, ow, a)
  <2> DEFINE S == Allowed(m, at, ow, a)
  <2>1. LastWord(v, w, NoEntry, a, S) BY <1>3 DEF Fine, AttrFine
  <2>2. Unset \in S BY <1>3, UnsetAllowed
  <2> HIDE DEF S
  <2>3. LastWord(v, x, NoEntry, a, S) BY <1>2, <2>1, DropsWord, NoTasksBefore
  <2>4. Worn(v, x, NoEntry, a, S) BY <2>2 DEF Worn, NoEntry, NoAttrs
  <2> QED BY <2>3, <2>4 DEF AttrFine, S
<1> QED BY <1>1, <1>3 DEF Fine

\* An Unbind is carried out.
LEMMA UnbindCarriedFine ==
  ASSUME AttributesAssumption, NEW x, NEW w, Drops(x, w, 1), NEW v,
         Unbinds(w[1], v), NEW e, NEW m \in Models, NEW at, NEW ow, NEW su,
         Fine(v, w, e, m, at, ow, su)
  PROVE  Fine(v, x, NoEntry, m, at, ow, su)
<1>1. RightBinds(v, x, m) /\ Undressed(v, x, at) BY HeadTasks DEF Fine
<1>2. \A i \in 1..Len(x) : Felt(v, x, NoEntry, i) => Felt(v, w, e, Was(1, i))
  BY HeadFelt
<1>3. 1 \in 1..Len(w) BY DropsPlaces
<1>4. RightModel(v, x, NoEntry, m)
  <2>1. PICK j \in (1 + 1)..Len(w) : Binds(w[j], v) BY <1>3 DEF Fine, RightBinds
  <2>2. j \in 1..Len(w) /\ j # 1 BY DropsPlaces
  <2>3. Moved(1, j) \in 1..Len(x) /\ x[Moved(1, j)] = w[j] BY <2>2, DropsPlaces
  <2> QED BY <2>1, <2>3 DEF RightModel
<1>5. \A a \in Attrs \ ModelAudio : at[a] = Unset
  BY <1>3 DEF Fine, Undressed
<1>6. ASSUME NEW a \in Attrs, su \/ ~InSync(m, at, ow, a)
      PROVE  AttrFine(v, x, NoEntry, m, at, ow, a)
  <2> DEFINE S == Allowed(m, at, ow, a)
  <2>1. LastWord(v, w, e, a, S) BY <1>6 DEF Fine, AttrFine
  <2>2. Unset \in S BY <1>5, UnsetAllowed
  <2> HIDE DEF S
  <2>3. LastWord(v, x, NoEntry, a, S) BY <1>2, <2>1, DropsWord, NoTasksBefore
  <2>4. Worn(v, x, NoEntry, a, S) BY <2>2 DEF Worn, NoEntry, NoAttrs
  <2> QED BY <2>3, <2>4 DEF AttrFine, S
<1>7. at["paintjob"] = Unset BY <1>5 DEF Attrs, ModelAudio
<1> QED BY <1>1, <1>4, <1>6, <1>7 DEF Fine

\* A Bind is carried out.
LEMMA BindCarriedFine ==
  ASSUME AttributesAssumption, NEW x, NEW w, Drops(x, w, 1), NEW v,
         Binds(w[1], v), NEW e, NEW m \in Models, NEW at, NEW ow, NEW su,
         Fine(v, w, e, m, at, ow, su)
  PROVE  Fine(v, x, Bound(e, w[1].model), m, at, ow, su)
<1> DEFINE e2 == Bound(e, w[1].model)
<1>1. /\ e2.model = w[1].model /\ e2.present
      /\ \A a \in Attrs : e2.attr[a] = IF a \in FromModel
                                       THEN OrElse(e.attr[a], ModelDefault[w[1].model][a])
                                       ELSE e.attr[a]
  BY DEF Bound
<1> HIDE DEF e2
<1>2. /\ 1 \in 1..Len(w) /\ ~Unbinds(w[1], v) /\ \A a : ~Concerns(w[1], v, a)
  BY DropsPlaces DEF Binds, Unbinds, Concerns, Dresses, Remaps
<1>3. RightBinds(v, x, m) /\ Undressed(v, x, at) BY HeadTasks DEF Fine
<1>4. ASSUME \A i \in 1..Len(w) : ~Unbinds(w[i], v) PROVE w[1].model = m
  <2>1. \A j \in (1 + 1)..Len(w) : j \in 1..Len(w) BY DropsPlaces
  <2> QED BY <1>2, <1>4, <2>1 DEF Fine, RightBinds
<1>5. RightModel(v, x, e2, m)
  <2> SUFFICES ASSUME \A i \in 1..Len(x) : ~Unbinds(x[i], v) PROVE e2.model = m
    BY DEF RightModel
  <2>1. ASSUME NEW i \in 1..Len(w), i # 1 PROVE ~Unbinds(w[i], v)
    <3>1. Moved(1, i) \in 1..Len(x) /\ x[Moved(1, i)] = w[i] BY <2>1, DropsPlaces
    <3> QED BY <3>1
  <2> QED BY <1>1, <1>2, <1>4, <2>1
<1>6. \A i \in 1..Len(x) : Felt(v, x, e2, i) => Felt(v, w, e, Was(1, i))
  <2>1. \A i \in 1..Len(x) : 1 < Was(1, i) BY DropsPlaces DEF Was
  <2> QED BY <2>1, MadeFelt
<1>7. ASSUME NEW a \in Attrs, su \/ ~InSync(m, at, ow, a)
      PROVE  AttrFine(v, x, e2, m, at, ow, a)
  <2> DEFINE S == Allowed(m, at, ow, a)
  <2>1. LastWord(v, w, e, a, S) /\ Worn(v, w, e, a, S)
    BY <1>7 DEF Fine, AttrFine
  <2>2. a \in FromModel /\ Unset \in S => ModelDefault[m][a] \in S
    BY FilledAllowed DEF AttributesAssumption
  <2> HIDE DEF S
  <2>3. LastWord(v, x, e2, a, S) BY <1>6, <2>1, DropsWord, NoTasksBefore
  <2>4. Worn(v, x, e2, a, S)
    <3> SUFFICES ASSUME \A i \in 1..Len(x) : /\ ~Unbinds(x[i], v)
                                             /\ Concerns(x[i], v, a) => ~Felt(v, x, e2, i)
                 PROVE  e2.attr[a] \in S
      BY DEF Worn
    <3>1. \A j \in 1..Len(w) : ~Unbinds(w[j], v) /\ ~Concerns(w[j], v, a)
      <4>1. ~Unbinds(w[1], v) /\ e2.present BY <1>1, <1>2
      <4>2. \A j \in 1..Len(w) : /\ ~Unbinds(w[j], v)
                                 /\ j # 1 => ~Concerns(w[j], v, a)
        BY <4>1, LastHeard
      <4>3. ~Concerns(w[1], v, a) BY <1>2
      <4> QED BY <4>1, <4>2, <4>3
    <3>2. e.attr[a] \in S BY <2>1, <3>1 DEF Worn
    <3>3. w[1].model = m BY <1>4, <3>1
    <3> QED BY <1>1, <2>2, <3>2, <3>3 DEF OrElse
  <2> QED BY <2>3, <2>4 DEF AttrFine, S
<1>8. PaintCovered(v, x, e2) BY <1>1 DEF PaintCovered
<1>9. Fine(v, x, e2, m, at, ow, su) BY <1>3, <1>5, <1>7, <1>8 DEF Fine
<1> QED BY <1>9 DEF e2

\* One task, of whatever vehicle.
CarryOne(e, p, v) == IF p.vehicle # v THEN e
                     ELSE IF p.type = "Bind" THEN Bound(e, p.model) ELSE NoEntry

\* A task is carried out, of any vehicle: what is said of a bound one,
LEMMA CarryOneFine ==
  ASSUME AttributesAssumption, NEW x, NEW w, Drops(x, w, 1), NEW v, w[1] \in Tasks,
         NEW e, NEW m \in Models, NEW at, NEW ow, NEW su, Fine(v, w, e, m, at, ow, su)
  PROVE  Fine(v, x, CarryOne(e, w[1], v), m, at, ow, su)
<1>1. CASE w[1].vehicle # v
  BY <1>1, DropOtherFine, NoTasksBefore DEF CarryOne
<1>2. CASE Binds(w[1], v) BY <1>2, BindCarriedFine DEF CarryOne, Binds
<1>3. CASE Unbinds(w[1], v) BY <1>3, UnbindCarriedFine DEF CarryOne, Unbinds
<1> QED BY <1>1, <1>2, <1>3 DEF Tasks, Binds, Unbinds

\* ... what is said of one that is bound to nothing,
LEMMA CarryOneGone ==
  ASSUME NEW x, NEW w, Drops(x, w, 1), NEW v, w[1] \in Tasks, NEW e, Gone(v, w, e)
  PROVE  Gone(v, x, CarryOne(e, w[1], v))
<1>1. CASE w[1].vehicle # v
  <2>1. ~Unbinds(w[1], v) BY <1>1 DEF Unbinds
  <2> QED BY <1>1, <2>1, DropsGone DEF CarryOne
<1>2. CASE Binds(w[1], v)
  <2>1. ~Unbinds(w[1], v) /\ Touches(w[1], v) BY <1>2 DEF Unbinds, Binds, Touches
  <2> QED BY <2>1, DropsGone
<1>3. CASE Unbinds(w[1], v) BY <1>3, HeadGone DEF CarryOne, Unbinds
<1> QED BY <1>1, <1>2, <1>3 DEF Tasks, Binds, Unbinds

\* ... and the entry it leaves.
LEMMA CarryOneOK ==
  ASSUME AttributesAssumption, NEW e, EntryOK(e), NEW p \in Tasks, NEW v
  PROVE  EntryOK(CarryOne(e, p, v))
<1>1. EntryOK(NoEntry)
  <2>1. Neutral # Unset BY DEF AttributesAssumption
  <2>2. Clearable \subseteq Attrs BY DEF Clearable, Attrs
  <2> QED BY <2>1, <2>2 DEF EntryOK, NoEntry, NoAttrs, Entries
<1>2. ASSUME NEW n \in Models PROVE EntryOK(Bound(e, n))
  <2>1. \A a \in Attrs : ModelDefault[n][a] \in Values \cup {Unset}
    BY DefaultTypes
  <2>2. Neutral \notin Values \cup {Unset} BY DEF AttributesAssumption
  <2>3. Clearable \subseteq Attrs BY DEF Clearable, Attrs
  <2>4. /\ e.attr \in [Attrs -> Offered \cup {Unset}]
        /\ \A a \in Clearable : e.attr[a] # Neutral
    BY DEF EntryOK, Entries
  <2> DEFINE b == Bound(e, n)
  <2>5. /\ b.present /\ b.model = n
        /\ b = [model |-> n, present |-> TRUE, attr |-> b.attr]
        /\ b.attr = [a \in Attrs |-> IF a \in FromModel
                                     THEN OrElse(e.attr[a], ModelDefault[n][a])
                                     ELSE e.attr[a]]
    BY DEF Bound
  <2> HIDE DEF b
  <2>6. \A a \in Attrs : /\ b.attr[a] \in Offered \cup {Unset}
                         /\ a \in Clearable => b.attr[a] # Neutral
    BY <2>1, <2>2, <2>4, <2>5 DEF OrElse, Offered
  <2>7. b.attr \in [Attrs -> Offered \cup {Unset}] BY <2>5, <2>6
  <2>8. b \in Entries BY <2>5, <2>7 DEF Entries
  <2>9. EntryOK(b) BY <2>3, <2>5, <2>6, <2>8 DEF EntryOK
  <2> QED BY <2>9 DEF b
<1> QED BY <1>1, <1>2 DEF CarryOne, Tasks

-----------------------------------------------------------------------------
(* A frame: the tasks are carried out, one after the other.                  *)

\* A set of natural numbers that is not empty has a least one.
LEMMA NatMin ==
  ASSUME NEW S, S \subseteq Nat, S # {}
  PROVE  \E n \in S : \A m \in S : n <= m
<1> DEFINE Less == {p \in Nat \X Nat : p[1] < p[2]}
<1>1. IsWellFoundedOn(Less, Nat)
  BY NatLessThanWellFounded, Zenon DEF OpToRel
<1>2. \A m, n \in Nat : m < n => <<m, n>> \in Less
  OBVIOUS
<1> HIDE DEF Less
<1>3. PICK n \in S : \A m \in S : ~ (<<m, n>> \in Less)
  BY <1>1, WFMin
<1>4. ASSUME NEW m \in S PROVE n <= m
  <2>1. m \in Nat /\ n \in Nat OBVIOUS
  <2>2. ~(m < n) BY <1>2, <1>3, <2>1
  <2> QED BY <2>1, <2>2
<1> QED BY <1>4

\* Carried has the value that its recursion says.
LEMMA CarriedDef ==
  ASSUME NEW b, NEW q, Len(q) \in Nat
  PROVE  \E carried :
           /\ carried = [i \in 0..Len(q) |-> IF i = 0 THEN b
                                             ELSE Carry(carried[i - 1], q[i])]
           /\ Carried(b, q) = carried[Len(q)]
<1> DEFINE F(g, n) == [i \in 0..n |-> IF i = 0 THEN b ELSE Carry(g[i - 1], q[i])]
<1> DEFINE Fails == {n \in Nat : n <= Len(q) /\ ~ \E g : g = F(g, n)}
<1> DEFINE G == CHOOSE g : g = F(g, Len(q))
<1>1. Fails = {}
  <2>1. SUFFICES ASSUME Fails # {} PROVE FALSE
    OBVIOUS
  <2>2. PICK n \in Fails : \A m \in Fails : n <= m
    <3>1. Fails \subseteq Nat OBVIOUS
    <3> HIDE DEF Fails
    <3> QED BY <2>1, <3>1, NatMin
  <2>3. n \in Nat /\ n <= Len(q) /\ ~ \E g : g = F(g, n) OBVIOUS
  <2>4. CASE n = 0
    <3> DEFINE g == [i \in 0..0 |-> b]
    <3>1. g = F(g, 0) OBVIOUS
    <3> QED BY <2>3, <2>4, <3>1
  <2>5. CASE n # 0
    <3>1. n - 1 \in Nat /\ n - 1 <= Len(q) /\ ~(n <= n - 1)
      BY <2>3, <2>5
    <3>2. n - 1 \notin Fails
      <4> HIDE DEF Fails
      <4> QED BY <3>1, <2>2
    <3>3. PICK g : g = F(g, n - 1)
      BY <3>1, <3>2
    <3> DEFINE h == [i \in 0..n |-> IF i < n THEN g[i] ELSE Carry(g[n - 1], q[n])]
    <3>4. ASSUME NEW i \in 0..n PROVE h[i] = F(h, n)[i]
      <4>1. CASE i = 0 BY <4>1, <3>3, <3>1, <2>5
      <4>2. CASE i # 0 /\ i < n
        <5>1. i \in 0..(n-1) /\ i - 1 \in 0..n /\ i - 1 < n BY <4>2, <3>1
        <5>2. g[i] = F(g, n-1)[i] BY <3>3
        <5>3. h[i-1] = g[i-1] /\ h[i] = g[i] BY <5>1, <4>2
        <5> QED BY <5>1, <5>2, <5>3, <4>2
      <4>3. CASE i = n BY <4>3, <2>5, <3>1
      <4> QED BY <4>1, <4>2, <4>3
    <3>5. h = F(h, n) BY <3>4
    <3> QED BY <2>3, <3>5
  <2> QED BY <2>4, <2>5
<1>2. G = F(G, Len(q))
  <2>1. Len(q) \in Nat /\ Len(q) <= Len(q) OBVIOUS
  <2>2. \E g : g = F(g, Len(q)) BY <1>1, <2>1
  <2> QED BY <2>2
<1>3. Carried(b, q) = G[Len(q)]
  BY DEF Carried
<1> HIDE DEF G
<1> QED BY <1>2, <1>3

\* Carry changes the entry of one vehicle.
LEMMA CarryIs ==
  ASSUME NEW b, DOMAIN b = Vehicles, NEW p \in Tasks
  PROVE  /\ DOMAIN Carry(b, p) = Vehicles
         /\ \A v \in Vehicles : Carry(b, p)[v] = CarryOne(b[v], p, v)
<1>1. p.vehicle \in Vehicles BY DEF Tasks
<1> QED BY <1>1 DEF Carry, CarryOne

\* What is left of w behind its place i.
Rest(w, i) == [j \in 1..(Len(w) - i) |-> w[i + j]]

\* The first of what is left is taken.
LEMMA RestDrops ==
  ASSUME NEW w \in Seq(Packets), NEW i \in 0..Len(w), i # Len(w)
  PROVE  Drops(Rest(w, i + 1), Rest(w, i), 1) /\ Rest(w, i)[1] = w[i + 1]
<1>1. /\ Len(w) \in Nat
      /\ Len(w) - i \in Nat /\ Len(w) - (i + 1) \in Nat
      /\ 1 \in 1..(Len(w) - i)
  OBVIOUS
<1>2. Len(Rest(w, i)) = Len(w) - i /\ Len(Rest(w, i + 1)) = Len(w) - (i + 1)
  BY <1>1 DEF Rest
<1>3. ASSUME NEW j \in 1..(Len(w) - (i + 1))
      PROVE  Rest(w, i + 1)[j] = Rest(w, i)[j + 1]
  <2>1. j + 1 \in 1..(Len(w) - i) /\ (i + 1) + j = i + (j + 1) BY <1>1
  <2> QED BY <2>1 DEF Rest
<1>4. Rest(w, i)[1] = w[i + 1] BY <1>1 DEF Rest
<1> DEFINE r == Rest(w, i)
<1> DEFINE x == Rest(w, i + 1)
<1>5. /\ Len(r) \in Nat /\ 1 \in 1..Len(r) /\ Len(x) = Len(r) - 1
      /\ \A j \in 1..Len(x) : x[j] = r[j + 1]
  <2>1. /\ Len(r) = Len(w) - i /\ Len(x) = Len(w) - (i + 1)
        /\ \A j \in 1..(Len(w) - (i + 1)) : x[j] = r[j + 1]
    BY <1>2, <1>3
  <2> HIDE DEF r, x
  <2> QED BY <1>1, <2>1
<1> HIDE DEF r, x
<1>6. Drops(x, r, 1)
  <2>1. \A j \in 1..(1 - 1) : FALSE OBVIOUS
  <2> QED BY <1>5, <2>1 DEF Drops
<1> QED BY <1>4, <1>6 DEF r, x

\* Whatever each task keeps, the frame keeps.
LEMMA FrameKeeps ==
  ASSUME AttributesAssumption, NEW t \in Seq(Tasks), NEW q \in Seq(Packets),
         NEW b, DOMAIN b = Vehicles, NEW v \in Vehicles, EntryOK(b[v])
  PROVE  /\ DOMAIN Carried(b, t) = Vehicles
         /\ EntryOK(Carried(b, t)[v])
         /\ Gone(v, t \o q, b[v]) => Gone(v, q, Carried(b, t)[v])
         /\ Fresh(t \o q, b[v]) => Fresh(q, Carried(b, t)[v])
         /\ \A m \in Models : \A at, ow, su :
               Fine(v, t \o q, b[v], m, at, ow, su) =>
                  Fine(v, q, Carried(b, t)[v], m, at, ow, su)
<1> DEFINE w == t \o q
<1>1. /\ w \in Seq(Packets) /\ Len(w) = Len(t) + Len(q) /\ Len(t) \in Nat /\ Len(q) \in Nat
      /\ \A i \in 1..Len(t) : w[i] = t[i] /\ t[i] \in Tasks
      /\ \A i \in 1..Len(q) : w[Len(t) + i] = q[i]
  BY DEF Packets
<1> HIDE DEF w
<1>2. PICK c : /\ c = [i \in 0..Len(t) |-> IF i = 0 THEN b ELSE Carry(c[i - 1], t[i])]
               /\ Carried(b, t) = c[Len(t)]
  BY <1>1, CarriedDef
<1> DEFINE Holds(i) ==
      /\ DOMAIN c[i] = Vehicles
      /\ EntryOK(c[i][v])
      /\ Gone(v, w, b[v]) => Gone(v, Rest(w, i), c[i][v])
      /\ Fresh(w, b[v]) => Fresh(Rest(w, i), c[i][v])
      /\ \A m \in Models : \A at, ow, su :
            Fine(v, w, b[v], m, at, ow, su) =>
               Fine(v, Rest(w, i), c[i][v], m, at, ow, su)
<1>3. Holds(0)
  <2>1. c[0] = b BY <1>1, <1>2
  <2>2. Extends(Rest(w, 0), w, <<>>)
    <3>1. Len(Rest(w, 0)) = Len(w) /\ \A i \in 1..Len(w) : Rest(w, 0)[i] = w[i]
      BY <1>1 DEF Rest
    <3> QED BY <1>1, <3>1 DEF Extends
  <2>3. \A k \in 1..Len(<<>>) : <<>>[k].vehicle # v /\ <<>>[k].type = "Remap"
                                /\ ~Touches(<<>>[k], v)
    OBVIOUS
  <2>4. Gone(v, w, b[v]) => Gone(v, Rest(w, 0), b[v]) BY <2>2, <2>3, OthersGone
  <2>5. Fresh(w, b[v]) => Fresh(Rest(w, 0), b[v]) BY <2>2, <2>3, OthersFresh
  <2>6. ASSUME NEW m \in Models, NEW at, NEW ow, NEW su, Fine(v, w, b[v], m, at, ow, su)
        PROVE  Fine(v, Rest(w, 0), b[v], m, at, ow, su)
    BY <2>2, <2>3, <2>6, OthersFine
  <2> QED BY <2>1, <2>4, <2>5, <2>6
<1>4. ASSUME NEW i \in 0..Len(t), i # Len(t), Holds(i) PROVE Holds(i + 1)
  <2>1. i \in 0..Len(w) /\ i # Len(w) /\ i + 1 \in 1..Len(t) /\ i + 1 \in 0..Len(t)
    BY <1>1, <1>4
  <2>2. Drops(Rest(w, i + 1), Rest(w, i), 1) /\ Rest(w, i)[1] = t[i + 1]
        /\ t[i + 1] \in Tasks
    BY <1>1, <2>1, RestDrops
  <2>3. c[i + 1] = Carry(c[i], t[i + 1])
    <3>1. (i + 1) - 1 = i /\ i + 1 # 0 BY <2>1
    <3> QED BY <1>2, <2>1, <3>1
  <2>4. /\ DOMAIN c[i + 1] = Vehicles
        /\ c[i + 1][v] = CarryOne(c[i][v], t[i + 1], v)
    BY <1>4, <2>2, <2>3, CarryIs
  <2>5. EntryOK(c[i + 1][v]) BY <1>4, <2>2, <2>4, CarryOneOK
  <2>6. ASSUME Gone(v, w, b[v]) PROVE Gone(v, Rest(w, i + 1), c[i + 1][v])
    BY <1>4, <2>2, <2>4, <2>6, CarryOneGone
  <2>7. ASSUME Fresh(w, b[v]) PROVE Fresh(Rest(w, i + 1), c[i + 1][v])
    <3>1. Fresh(Rest(w, i), c[i][v]) BY <1>4, <2>7
    <3>2. Rest(w, i)[1].type = "Remap" BY <2>2, <3>1, DropsPlaces DEF Fresh
    <3> QED BY <2>2, <3>2 DEF Tasks
  <2>8. ASSUME NEW m \in Models, NEW at, NEW ow, NEW su, Fine(v, w, b[v], m, at, ow, su)
        PROVE  Fine(v, Rest(w, i + 1), c[i + 1][v], m, at, ow, su)
    BY <1>4, <2>2, <2>4, <2>8, CarryOneFine
  <2> QED BY <2>4, <2>5, <2>6, <2>7, <2>8
<1> HIDE DEF Holds
<1>5. \A i \in 0..Len(t) : Holds(i)
  <2> DEFINE Fails == {i \in 0..Len(t) : ~Holds(i)}
  <2> SUFFICES ASSUME Fails # {} PROVE FALSE
    OBVIOUS
  <2>1. Fails \subseteq Nat BY <1>1
  <2>2. PICK n \in Fails : \A k \in Fails : n <= k BY <2>1, NatMin
  <2>3. n \in 0..Len(t) /\ ~Holds(n) /\ n # 0 BY <1>3
  <2>4. n - 1 \in 0..Len(t) /\ n - 1 # Len(t) /\ (n - 1) + 1 = n /\ ~(n <= n - 1)
    BY <1>1, <2>3
  <2>5. Holds(n - 1) BY <2>2, <2>4
  <2> QED BY <1>4, <2>3, <2>4, <2>5
<1>6. Holds(Len(t)) BY <1>1, <1>5
<1>7. Extends(q, Rest(w, Len(t)), <<>>)
  <2>1. /\ Len(Rest(w, Len(t))) = Len(q)
        /\ \A i \in 1..Len(q) : q[i] = Rest(w, Len(t))[i]
    <3>1. Len(w) - Len(t) = Len(q) BY <1>1
    <3>2. Rest(w, Len(t)) = [j \in 1..Len(q) |-> w[Len(t) + j]] BY <3>1 DEF Rest
    <3>3. Len(Rest(w, Len(t))) = Len(q) BY <1>1, <3>2
    <3> QED BY <1>1, <3>2, <3>3
  <2> QED BY <1>1, <2>1 DEF Extends
<1>8. \A k \in 1..Len(<<>>) : <<>>[k].vehicle # v /\ <<>>[k].type = "Remap"
                              /\ ~Touches(<<>>[k], v)
  OBVIOUS
<1> DEFINE e2 == Carried(b, t)[v]
<1>9. /\ DOMAIN Carried(b, t) = Vehicles
      /\ EntryOK(e2)
      /\ Gone(v, w, b[v]) => Gone(v, Rest(w, Len(t)), e2)
      /\ Fresh(w, b[v]) => Fresh(Rest(w, Len(t)), e2)
      /\ \A m \in Models : \A at, ow, su :
            Fine(v, w, b[v], m, at, ow, su) =>
               Fine(v, Rest(w, Len(t)), e2, m, at, ow, su)
  BY <1>2, <1>6 DEF Holds
<1> HIDE DEF e2
<1>10. Gone(v, w, b[v]) => Gone(v, q, e2) BY <1>7, <1>8, <1>9, OthersGone
<1>11. Fresh(w, b[v]) => Fresh(q, e2) BY <1>7, <1>8, <1>9, OthersFresh
<1>12. ASSUME NEW m \in Models, NEW at, NEW ow, NEW su, Fine(v, w, b[v], m, at, ow, su)
       PROVE  Fine(v, q, e2, m, at, ow, su)
  <2>1. Fine(v, Rest(w, Len(t)), e2, m, at, ow, su) BY <1>9, <1>12
  <2> QED BY <1>7, <1>8, <2>1, OthersFine
<1> QED BY <1>9, <1>10, <1>11, <1>12 DEF e2, w

-----------------------------------------------------------------------------
(***************************************************************************)
(* The states.  Tasks that a pending clear will drop do not count, nor do  *)
(* the entries it will clear.                                              *)
(***************************************************************************)
Pending == IF clearAll THEN toClient ELSE mainQueue \o toClient
Held(v) == IF clearAll THEN NoEntry ELSE bindings[v]

AttributesTypes ==
    /\ exists \subseteq Vehicles /\ streamed \subseteq exists
    /\ authorized \in BOOLEAN /\ clearAll \in BOOLEAN
    /\ bound \in [Vehicles -> Models \cup {Unset}]
    /\ attr \in [Vehicles -> [Attrs -> Offered \cup {Unset}]]
    /\ modelAudio \in [Models -> [ModelAudio -> Values \cup {Unset}]]
    /\ own \in [Vehicles -> [{"paintjob", "wheel"} -> Values \cup {Unset}]]
    /\ DOMAIN bindings = Vehicles /\ \A v \in Vehicles : EntryOK(bindings[v])
    /\ mainQueue \in Seq(Tasks) /\ toClient \in Seq(Packets)

\* Scripts bind unbound vehicles, set attributes of bound ones, and not while
\* an Unbind is under way.
Careful == Rebinding = FALSE /\ DuringUnbind = FALSE /\ BindFirst = TRUE

\* The registry keeps nothing of a vehicle that is not bound, and none that is
\* not there is bound; nothing is in sight before the first frame.
RegistryInv ==
    /\ BindFirst => \A v \in Vehicles : bound[v] = Unset => attr[v] = NoAttrs
    /\ \A v \in Vehicles \ exists : bound[v] = Unset
    /\ clearAll => streamed = {}

\* What the client knows and will hear of a vehicle.
Tells(v) ==
    /\ ~authorized => Fresh(Pending, Held(v))
    /\ BindFirst /\ authorized /\ bound[v] = Unset => Gone(v, Pending, Held(v))
    /\ Careful /\ authorized /\ bound[v] # Unset =>
          Fine(v, Pending, Held(v), bound[v], attr[v], own[v], v \in streamed)

AttributesInv ==
    /\ AttributesTypes
    /\ RegistryInv
    /\ \A v \in Vehicles : Tells(v)

\* The packets.
LEMMA PacketTypes ==
  ASSUME NEW v \in Vehicles
  PROVE  /\ UnbindMsg(v) \in Tasks /\ Unbinds(UnbindMsg(v), v)
         /\ \A m \in Models : /\ BindMsg(v, m) \in Tasks
                              /\ Binds(BindMsg(v, m), v) /\ BindMsg(v, m).model = m
         /\ \A f \in Changes : /\ SetMsg(v, f) \in Packets
                               /\ Dresses(SetMsg(v, f), v) /\ SetMsg(v, f).attrs = f
         /\ Tasks \subseteq Packets
BY DEF UnbindMsg, BindMsg, SetMsg, Tasks, Packets, Unbinds, Binds, Dresses

\* If no Unbind of a vehicle is under way, none is pending.
LEMMA NoneUnderWay ==
  ASSUME AttributesInv, NEW v \in Vehicles, ~UnbindUnderWay(v)
  PROVE  \A i \in 1..Len(Pending) : ~Unbinds(Pending[i], v)
<1>1. mainQueue \in Seq(Packets) /\ toClient \in Seq(Packets)
  BY DEF AttributesInv, AttributesTypes, Packets
<1>2. ASSUME NEW p \in Packets, Unbinds(p, v) PROVE p = UnbindMsg(v)
  BY <1>2 DEF Packets, Tasks, Unbinds, UnbindMsg
<1>3. ASSUME NEW i \in 1..Len(mainQueue \o toClient)
      PROVE  ~Unbinds((mainQueue \o toClient)[i], v)
  <2>1. mainQueue \o toClient \in Seq(Packets) BY <1>1
  <2>2. (mainQueue \o toClient)[i] \in Packets BY <2>1
  <2> QED BY <1>2, <2>2 DEF UnbindUnderWay
<1>4. CASE clearAll
  <2>1. ASSUME NEW i \in 1..Len(toClient) PROVE ~Unbinds(toClient[i], v)
    <3>1. /\ Len(mainQueue) + i \in 1..Len(mainQueue \o toClient)
          /\ (mainQueue \o toClient)[Len(mainQueue) + i] = toClient[i]
      BY <1>1
    <3> QED BY <1>3, <3>1
  <2> QED BY <1>4, <2>1 DEF Pending
<1> QED BY <1>3, <1>4 DEF Pending

\* Packets that are sent come behind what is pending.
LEMMA PendingGrows ==
  ASSUME AttributesTypes, NEW s \in Seq(Packets), UNCHANGED clientVars,
         toClient' = toClient \o s
  PROVE  /\ Extends(Pending', Pending, s)
         /\ Pending \in Seq(Packets) /\ toClient' \in Seq(Packets)
<1>1. mainQueue \in Seq(Packets) /\ toClient \in Seq(Packets)
  BY DEF AttributesTypes, Packets
<1>2. mainQueue' = mainQueue /\ clearAll' = clearAll BY DEF clientVars
<1>3. Pending \in Seq(Packets) /\ Pending' = Pending \o s
  <2>1. CASE clearAll BY <1>1, <1>2, <2>1 DEF Pending
  <2>2. CASE ~clearAll
    <3>1. (mainQueue \o toClient) \o s = mainQueue \o (toClient \o s)
      BY <1>1, ConcatAssociative
    <3> QED BY <1>1, <1>2, <2>2, <3>1 DEF Pending
  <2> QED BY <2>1, <2>2
<1> DEFINE w == Pending
<1> DEFINE x == Pending'
<1>4. w \in Seq(Packets) /\ x = w \o s BY <1>3
<1> HIDE DEF w, x
<1>5. Extends(x, w, s) BY <1>4 DEF Extends
<1> QED BY <1>1, <1>3, <1>5 DEF w, x

\* Without a packet or a task, what is pending stays,
LEMMA PendingStays ==
  ASSUME UNCHANGED <<clientVars, toClient>>
  PROVE  Pending' = Pending
BY DEF Pending, clientVars

\* ... and so does the entry that counts.
LEMMA HeldStays ==
  ASSUME UNCHANGED clientVars, NEW v
  PROVE  Held(v)' = Held(v)
BY DEF Held, clientVars

\* A vehicle that no packet is about is told what it was told.
LEMMA StaysTold ==
  ASSUME NEW u, Tells(u), NEW s, Extends(Pending', Pending, s),
         \A k \in 1..Len(s) : s[k].vehicle # u \/ (~authorized /\ s[k].type = "Remap"),
         ~authorized => \A k \in 1..Len(s) : s[k].type = "Remap",
         Held(u)' = Held(u), authorized' = authorized, authorized \in BOOLEAN,
         bound'[u] = bound[u], attr'[u] = attr[u], own'[u] = own[u],
         u \in streamed' => u \in streamed
  PROVE  Tells(u)'
<1>1. CASE ~authorized
  <2>1. Fresh(Pending, Held(u)) BY <1>1 DEF Tells
  <2>2. Fresh(Pending', Held(u)) BY <1>1, <2>1, OthersFresh
  <2> QED BY <1>1, <2>2 DEF Tells
<1>2. CASE BindFirst /\ authorized /\ bound[u] = Unset
  <2>1. Gone(u, Pending, Held(u)) BY <1>2 DEF Tells
  <2>2. \A k \in 1..Len(s) : ~Touches(s[k], u) BY <1>2 DEF Touches
  <2>3. Gone(u, Pending', Held(u)) BY <2>1, <2>2, OthersGone
  <2> QED BY <1>2, <2>3 DEF Tells
<1>3. CASE Careful /\ authorized /\ bound[u] # Unset
  <2>1. Fine(u, Pending, Held(u), bound[u], attr[u], own[u], u \in streamed)
    BY <1>3 DEF Tells
  <2>2. Fine(u, Pending', Held(u), bound[u], attr[u], own[u], u \in streamed)
    BY <1>3, <2>1, OthersFine
  <2>3. Fine(u, Pending', Held(u), bound[u], attr[u], own[u], u \in streamed')
    <3>1. CASE u \in streamed' BY <2>2, <3>1
    <3>2. CASE u \notin streamed'
      <4>1. Fine(u, Pending', Held(u), bound[u], attr[u], own[u], FALSE)
        BY <2>2, UnseenFine
      <4>2. (u \in streamed') = FALSE BY <3>2
      <4> QED BY <4>1, <4>2
    <3> QED BY <3>1, <3>2
  <2> QED BY <1>3, <2>3 DEF Tells
<1> QED BY <1>1, <1>2, <1>3 DEF Tells

-----------------------------------------------------------------------------
(* The full state of a vehicle, and that of all that are in sight.           *)
\* A bound vehicle has a model.
LEMMA BoundTypes ==
  ASSUME AttributesTypes, NEW v \in Vehicles, bound[v] # Unset
  PROVE  bound[v] \in Models /\ AttrTypes(bound[v], attr[v], own[v])
BY DEF AttributesTypes, AttrTypes

\* Effective reads the vehicle's part of the registry.
LEMMA EffectiveIs ==
  ASSUME NEW v, NEW a
  PROVE  Effective(v, a) = EffectiveOf(bound[v], attr[v], own[v], a)
BY DEF Effective, EffectiveOf

\* The packet of the attributes that a full state tells.
Whole(v) == SetMsg(v, [a \in Synced(v) |-> Effective(v, a)])

\* The two packets of a full state.
LEMMA WholeIs ==
  ASSUME AttributesAssumption, AttributesTypes, NEW v \in Vehicles, bound[v] # Unset
  PROVE  /\ BindMsg(v, bound[v]) \in Packets /\ Whole(v) \in Packets
         /\ Binds(BindMsg(v, bound[v]), v) /\ BindMsg(v, bound[v]).model = bound[v]
         /\ Dresses(Whole(v), v)
         /\ Whole(v).attrs = [a \in {b \in Attrs : InSync(bound[v], attr[v], own[v], b)} |->
                                 EffectiveOf(bound[v], attr[v], own[v], a)]
<1> DEFINE D == {b \in Attrs : InSync(bound[v], attr[v], own[v], b)}
<1> DEFINE f == [a \in D |-> EffectiveOf(bound[v], attr[v], own[v], a)]
<1>1. bound[v] \in Models /\ AttrTypes(bound[v], attr[v], own[v])
  BY BoundTypes
<1>2. Synced(v) = D BY EffectiveIs DEF Synced, InSync
<1>3. [a \in Synced(v) |-> Effective(v, a)] = f BY <1>2, EffectiveIs
<1>4. \A a \in D : EffectiveOf(bound[v], attr[v], own[v], a) \in Offered
  BY <1>1, SyncAllowed
<1>5. f \in [D -> Offered] /\ D \in SUBSET Attrs BY <1>4
<1> HIDE DEF f, D
<1>6. f \in Changes BY <1>5 DEF Changes
<1>7. Whole(v) = SetMsg(v, f) BY <1>3 DEF Whole
<1> QED BY <1>1, <1>6, <1>7, PacketTypes DEF f, D

\* An order of a finite set names each member once.
LEMMA SetToSeqIs ==
  ASSUME NEW S, IsFiniteSet(S)
  PROVE  /\ Len(SetToSeq(S)) \in Nat
         /\ \A i \in 1..Len(SetToSeq(S)) : SetToSeq(S)[i] \in S
         /\ \A i, j \in 1..Len(SetToSeq(S)) : SetToSeq(S)[i] = SetToSeq(S)[j] => i = j
         /\ \A y \in S : \E i \in 1..Len(SetToSeq(S)) : SetToSeq(S)[i] = y
<1> DEFINE n == Cardinality(S)
<1>1. n \in Nat /\ ExistsBijection(1..n, S)
  BY FS_CardinalityType
<1>2. PICK f \in [1..n -> S] : IsInjective(f)
  BY <1>1, Zenon DEF ExistsBijection, Bijection, Injection, IsInjective
<1>3. SetToSeq(S) \in [1..n -> S] /\ IsInjective(SetToSeq(S))
  BY <1>2, Zenon DEF SetToSeq
<1> DEFINE g == SetToSeq(S)
<1> HIDE DEF g
<1>4. g \in Injection(1..n, S)
  BY <1>3, Zenon DEF Injection, IsInjective, g
<1>5. IsFiniteSet(1..n) /\ Cardinality(1..n) = n
  <2>1. 1 \in Int /\ n \in Int /\ (IF 1 > n THEN 0 ELSE n - 1 + 1) = n BY <1>1
  <2> QED BY <2>1, FS_Interval
<1>6. g \in Surjection(1..n, S)
  BY <1>4, <1>5, FS_Injection
<1>7. \A y \in S : \E i \in 1..n : g[i] = y
  BY <1>6, Zenon DEF Surjection
<1>8. g \in [1..n -> S] BY <1>3 DEF g
<1>9. Len(g) = n /\ DOMAIN g = 1..n BY <1>1, <1>8
<1>10. \A i, j \in 1..n : g[i] = g[j] => i = j
  BY <1>3, <1>9, Zenon DEF IsInjective, g
<1> QED BY <1>1, <1>7, <1>8, <1>9, <1>10 DEF g

\* Two packets for each member: the places of a pair.
LEMMA PairPlaces ==
  ASSUME NEW n \in Nat
  PROVE  /\ \A k \in 1..2 * n : /\ (k + 1) \div 2 \in 1..n
                                /\ k % 2 \in {0, 1}
                                /\ k % 2 = 1 => k = 2 * ((k + 1) \div 2) - 1
                                /\ k % 2 = 0 => k = 2 * ((k + 1) \div 2)
         /\ \A i \in 1..n : /\ 2 * i - 1 \in 1..2 * n /\ 2 * i \in 1..2 * n
                            /\ (2 * i - 1 + 1) \div 2 = i /\ (2 * i + 1) \div 2 = i
                            /\ (2 * i - 1) % 2 = 1 /\ (2 * i) % 2 = 0
<1>1. ASSUME NEW k \in 1..2 * n
      PROVE  /\ (k + 1) \div 2 \in 1..n
             /\ k % 2 \in {0, 1}
             /\ k % 2 = 1 => k = 2 * ((k + 1) \div 2) - 1
             /\ k % 2 = 0 => k = 2 * ((k + 1) \div 2)
  OBVIOUS
<1>2. ASSUME NEW i \in 1..n
      PROVE  /\ 2 * i - 1 \in 1..2 * n /\ 2 * i \in 1..2 * n
             /\ (2 * i - 1 + 1) \div 2 = i /\ (2 * i + 1) \div 2 = i
             /\ (2 * i - 1) % 2 = 1 /\ (2 * i) % 2 = 0
  OBVIOUS
<1> QED BY <1>1, <1>2

\* The full states of all bound vehicles in sight: two packets of each, one
\* behind the other.
LEMMA AllWhole ==
  ASSUME AttributesAssumption, AttributesTypes
  PROVE  LET s == SyncCustomVehiclesToPlayer
         IN  /\ s \in Seq(Packets)
             /\ \A k \in 1..Len(s) : s[k].vehicle \in streamed /\ bound[s[k].vehicle] # Unset
             /\ \A v \in streamed : bound[v] # Unset =>
                  \E p \in 1..Len(s) :
                     /\ p + 1 \in 1..Len(s)
                     /\ s[p] = BindMsg(v, bound[v]) /\ s[p + 1] = Whole(v)
                     /\ \A k \in 1..Len(s) : k # p /\ k # p + 1 => s[k].vehicle # v
<1> DEFINE S == {v \in streamed : bound[v] # Unset}
<1> DEFINE told == SetToSeq(S)
<1> DEFINE n == Len(told)
<1> DEFINE s == SyncCustomVehiclesToPlayer
<1>1. S \subseteq Vehicles /\ IsFiniteSet(S)
  <2>1. S \in SUBSET Vehicles BY DEF AttributesTypes
  <2> QED BY <2>1, FS_Subset DEF AttributesAssumption
<1>2. \A v \in S : SyncCustomVehicleToPlayer(v) = <<BindMsg(v, bound[v]), Whole(v)>>
  BY DEF SyncCustomVehicleToPlayer, Whole
<1>3. s = [i \in 1..2 * n |-> SyncCustomVehicleToPlayer(told[(i + 1) \div 2])[2 - (i % 2)]]
  BY DEF SyncCustomVehiclesToPlayer
<1>4. /\ n \in Nat
      /\ \A i \in 1..n : told[i] \in S
      /\ \A i, j \in 1..n : told[i] = told[j] => i = j
      /\ \A y \in S : \E i \in 1..n : told[i] = y
  BY <1>1, SetToSeqIs
<1>5. \A v \in S : /\ v \in Vehicles /\ v \in streamed /\ bound[v] # Unset
  BY <1>1
<1> HIDE DEF told, S
<1>6. ASSUME NEW k \in 1..2 * n
      PROVE  /\ (k + 1) \div 2 \in 1..n
             /\ s[k] = IF k % 2 = 1 THEN BindMsg(told[(k + 1) \div 2],
                                                 bound[told[(k + 1) \div 2]])
                                    ELSE Whole(told[(k + 1) \div 2])
             /\ s[k] \in Packets /\ s[k].vehicle = told[(k + 1) \div 2]
  <2> DEFINE v == told[(k + 1) \div 2]
  <2>1. (k + 1) \div 2 \in 1..n /\ k % 2 \in {0, 1} BY <1>4, PairPlaces
  <2>2. v \in S BY <1>4, <2>1
  <2>3. s[k] = SyncCustomVehicleToPlayer(v)[2 - (k % 2)] BY <1>3
  <2> HIDE DEF v, s
  <2>4. s[k] = <<BindMsg(v, bound[v]), Whole(v)>>[2 - (k % 2)] BY <1>2, <2>2, <2>3
  <2>5. s[k] = IF k % 2 = 1 THEN BindMsg(v, bound[v]) ELSE Whole(v)
    BY <2>1, <2>4
  <2>6. /\ BindMsg(v, bound[v]) \in Packets /\ Whole(v) \in Packets
        /\ BindMsg(v, bound[v]).vehicle = v /\ Whole(v).vehicle = v
    BY <1>5, <2>2, WholeIs DEF Binds, Dresses
  <2> QED BY <2>1, <2>5, <2>6 DEF v
<1>7. Len(s) = 2 * n /\ s \in Seq(Packets)
  <2>1. 2 * n \in Nat BY <1>4
  <2>2. \A k \in 1..2 * n : s[k] \in Packets BY <1>6
  <2>3. s \in [1..2 * n -> Packets] /\ DOMAIN s = 1..2 * n BY <1>3, <2>2
  <2> DEFINE l == 2 * n
  <2> HIDE DEF s, l
  <2>4. l \in Nat /\ s \in [1..l -> Packets] /\ DOMAIN s = 1..l BY <2>1, <2>3 DEF l
  <2>5. Len(s) = l /\ s \in Seq(Packets) BY <2>4
  <2> QED BY <2>5 DEF l
<1> HIDE DEF s
<1>8. \A k \in 1..Len(s) : s[k].vehicle \in streamed /\ bound[s[k].vehicle] # Unset
  BY <1>4, <1>5, <1>6, <1>7
<1>9. ASSUME NEW v \in streamed, bound[v] # Unset
      PROVE  \E p \in 1..Len(s) :
                /\ p + 1 \in 1..Len(s)
                /\ s[p] = BindMsg(v, bound[v]) /\ s[p + 1] = Whole(v)
                /\ \A k \in 1..Len(s) : k # p /\ k # p + 1 => s[k].vehicle # v
  <2>1. v \in S BY <1>9 DEF S
  <2>2. PICK i \in 1..n : told[i] = v BY <1>4, <2>1
  <2>3. /\ 2 * i - 1 \in 1..2 * n /\ 2 * i \in 1..2 * n /\ 2 * i - 1 + 1 = 2 * i
        /\ (2 * i - 1 + 1) \div 2 = i /\ (2 * i + 1) \div 2 = i
        /\ (2 * i - 1) % 2 = 1 /\ (2 * i) % 2 = 0
    <3>1. 2 * i - 1 + 1 = 2 * i BY <1>4
    <3> QED BY <1>4, <3>1, PairPlaces
  <2>4. s[2 * i - 1] = BindMsg(v, bound[v]) /\ s[2 * i] = Whole(v)
    <3> DEFINE p == 2 * i - 1
    <3> DEFINE r == 2 * i
    <3>1. /\ p \in 1..2 * n /\ (p + 1) \div 2 = i /\ p % 2 = 1
          /\ r \in 1..2 * n /\ (r + 1) \div 2 = i /\ r % 2 = 0
      BY <2>3
    <3> HIDE DEF p, r
    <3>2. s[p] = BindMsg(v, bound[v]) /\ s[r] = Whole(v)
      BY <1>6, <2>2, <3>1
    <3> QED BY <3>2 DEF p, r
  <2>5. ASSUME NEW k \in 1..2 * n, s[k].vehicle = v
        PROVE  k = 2 * i - 1 \/ k = 2 * i
    <3>1. (k + 1) \div 2 = i BY <1>4, <1>6, <2>2, <2>5
    <3> QED BY <1>4, <3>1, PairPlaces
  <2> QED BY <1>7, <2>3, <2>4, <2>5
<1> QED BY <1>7, <1>8, <1>9 DEF s

-----------------------------------------------------------------------------
(* The steps of the server.                                                  *)

\* Attributes at after the registry's setter, and open.mp's values after it.
Written(at, f) == [a \in Attrs |-> IF a \in DOMAIN f THEN f[a] ELSE at[a]]
OwnKept(ow, ow2, f) == \A a \in {"paintjob", "wheel"} \ DOMAIN f : ow2[a] = ow[a]

\* A change is allowed where it says something, and changes nothing else.
LEMMA WrittenAllowed ==
  ASSUME AttributesAssumption, NEW m, NEW at, NEW ow, NEW ow2, NEW f \in Changes,
         OwnKept(ow, ow2, f), NEW at2, at2 = Written(at, f)
  PROVE  /\ \A a \in Attrs \ DOMAIN f :
               /\ Allowed(m, at2, ow2, a) = Allowed(m, at, ow, a)
               /\ InSync(m, at, ow, a) => InSync(m, at2, ow2, a)
               /\ at2[a] = at[a]
         /\ \A a \in Attrs \cap DOMAIN f :
               /\ Kept(a, f[a]) \in Allowed(m, at2, ow2, a)
               /\ a # "paintjob" => InSync(m, at2, ow2, a)
<1>1. \A a \in Attrs : at2[a] = IF a \in DOMAIN f THEN f[a] ELSE at[a]
  BY DEF Written
<1>2. \A a \in DOMAIN f : f[a] \in Offered /\ f[a] # Unset
  <2>1. PICK D \in SUBSET Attrs : f \in [D -> Offered] BY DEF Changes
  <2>2. Unset \notin Offered BY DEF AttributesAssumption, Offered
  <2> QED BY <2>1, <2>2
<1>3. ASSUME NEW a \in Attrs \ DOMAIN f
      PROVE  /\ Allowed(m, at2, ow2, a) = Allowed(m, at, ow, a)
             /\ InSync(m, at, ow, a) => InSync(m, at2, ow2, a)
             /\ at2[a] = at[a]
  <2>1. at2[a] = at[a] BY <1>1
  <2>2. a \in {"paintjob", "wheel"} => ow2[a] = ow[a] BY DEF OwnKept
  <2>3. CASE a = "paintjob"
    <3>1. at2["paintjob"] = at["paintjob"] /\ ow2["paintjob"] = ow["paintjob"]
      BY <2>1, <2>2, <2>3
    <3>2. Allowed(m, at2, ow2, "paintjob") = Allowed(m, at, ow, "paintjob")
      BY <3>1 DEF Allowed, ToldOf
    <3>3. EffectiveOf(m, at2, ow2, "paintjob") = EffectiveOf(m, at, ow, "paintjob")
      BY <3>1 DEF EffectiveOf, OffsetParts
    <3> QED BY <2>1, <2>3, <3>2, <3>3 DEF InSync
  <2>4. CASE a # "paintjob"
    <3>1. Allowed(m, at2, ow2, a) = Allowed(m, at, ow, a)
      BY <2>1, <2>4 DEF Allowed, ToldOf
    <3>2. EffectiveOf(m, at2, ow2, a) = EffectiveOf(m, at, ow, a)
      <4>1. CASE at[a] # Unset BY <2>1, <4>1 DEF EffectiveOf
      <4>2. CASE at[a] = Unset /\ a = "wheel"
        BY <2>1, <2>2, <4>2 DEF EffectiveOf, OffsetParts
      <4>3. CASE at[a] = Unset /\ a # "wheel"
        BY <2>1, <2>4, <4>3 DEF EffectiveOf, OffsetParts
      <4> QED BY <4>1, <4>2, <4>3
    <3> QED BY <2>1, <2>4, <3>1, <3>2 DEF InSync
  <2> QED BY <2>3, <2>4
<1>4. ASSUME NEW a \in Attrs \cap DOMAIN f
      PROVE  /\ Kept(a, f[a]) \in Allowed(m, at2, ow2, a)
             /\ a # "paintjob" => InSync(m, at2, ow2, a)
  <2>1. at2[a] = f[a] /\ f[a] # Unset BY <1>1, <1>2
  <2>2. ToldOf(at2, ow2, a) = f[a] BY <2>1 DEF ToldOf, OrElse
  <2>3. EffectiveOf(m, at2, ow2, a) = f[a] BY <2>1 DEF EffectiveOf
  <2> QED BY <2>1, <2>2, <2>3 DEF Allowed, InSync
<1> QED BY <1>3, <1>4

\* What every step of a native leaves alone.
OnlyAttributes == UNCHANGED <<exists, bound, modelAudio, streamed, authorized, clientVars>>
OwnTyped == own' \in [Vehicles -> [{"paintjob", "wheel"} -> Values \cup {Unset}]]

\* The registry's types after it.
LEMMA WrittenTypes ==
  ASSUME AttributesAssumption, AttributesTypes, NEW v \in Vehicles, NEW f \in Changes,
         attr' = [attr EXCEPT ![v] = Written(attr[v], f)], OnlyAttributes, OwnTyped,
         toClient' \in Seq(Packets)
  PROVE  AttributesTypes'
<1>1. \A a \in Attrs : f[a] \in Offered \/ a \notin DOMAIN f
  <2>1. PICK D \in SUBSET Attrs : f \in [D -> Offered] BY DEF Changes
  <2> QED BY <2>1
<1>2. attr[v] \in [Attrs -> Offered \cup {Unset}] BY DEF AttributesTypes
<1>3. Written(attr[v], f) \in [Attrs -> Offered \cup {Unset}]
  BY <1>1, <1>2 DEF Written
<1>4. attr' \in [Vehicles -> [Attrs -> Offered \cup {Unset}]]
  BY <1>3 DEF AttributesTypes
<1> QED BY <1>4 DEF AttributesTypes, OnlyAttributes, OwnTyped, clientVars

\* An attribute of a bound vehicle is set and every authorized player told.
LEMMA SetSent ==
  ASSUME AttributesAssumption, AttributesInv, NEW v \in Vehicles, NEW f \in Changes,
         BindFirst => bound[v] # Unset, Careful => ~UnbindUnderWay(v),
         attr' = [attr EXCEPT ![v] = Written(attr[v], f)],
         SendVehicle(<<SetMsg(v, f)>>), OnlyAttributes, OwnTyped,
         \A u \in Vehicles \ {v} : own'[u] = own[u], OwnKept(own[v], own'[v], f)
  PROVE  AttributesInv'
<1>0. AttributesTypes /\ RegistryInv /\ \A u \in Vehicles : Tells(u)
  BY DEF AttributesInv
<1> DEFINE s == IF authorized THEN <<SetMsg(v, f)>> ELSE <<>>
<1>1. s \in Seq(Packets) BY PacketTypes
<1>2. toClient' = toClient \o s
  <2>1. toClient \o <<>> = toClient BY <1>0 DEF AttributesTypes
  <2> QED BY <2>1 DEF SendVehicle
<1>3. UNCHANGED clientVars BY DEF OnlyAttributes
<1>4. /\ Extends(Pending', Pending, s)
      /\ Pending \in Seq(Packets) /\ toClient' \in Seq(Packets)
  BY <1>0, <1>1, <1>2, <1>3, PendingGrows
<1>5. AttributesTypes' BY <1>0, <1>4, WrittenTypes
<1>6. /\ attr \in [Vehicles -> [Attrs -> Offered \cup {Unset}]] /\ authorized \in BOOLEAN
      /\ bound' = bound /\ streamed' = streamed /\ authorized' = authorized
      /\ exists' = exists /\ clearAll' = clearAll
      /\ \A u : Held(u)' = Held(u)
  BY <1>0, <1>3, HeldStays DEF AttributesTypes, OnlyAttributes, clientVars
<1>7. RegistryInv'
  <2>1. \A u \in Vehicles \ {v} : attr'[u] = attr[u] BY <1>6
  <2> QED BY <1>0, <1>6, <2>1 DEF RegistryInv
<1>8. ASSUME NEW u \in Vehicles, u # v PROVE Tells(u)'
  <2>1. \A k \in 1..Len(s) : s[k].vehicle # u /\ authorized BY <1>8 DEF SetMsg
  <2>2. /\ attr'[u] = attr[u] /\ own'[u] = own[u] /\ bound'[u] = bound[u]
        /\ (u \in streamed' => u \in streamed) /\ Tells(u)
    BY <1>0, <1>6, <1>8
  <2>3. Held(u)' = Held(u) /\ authorized' = authorized /\ authorized \in BOOLEAN
    BY <1>6
  <2> HIDE DEF s
  <2> QED BY <1>4, <2>1, <2>2, <2>3, StaysTold
<1>9. Tells(v)'
  <2>1. CASE ~authorized
    <3>1. \A k \in 1..Len(s) : FALSE BY <2>1
    <3>2. Fresh(Pending, Held(v)) BY <1>0, <2>1 DEF Tells
    <3> HIDE DEF s
    <3>3. Fresh(Pending', Held(v)) BY <1>4, <3>1, <3>2, OthersFresh
    <3> QED BY <1>6, <2>1, <3>3 DEF Tells
  <2>2. CASE Careful /\ authorized /\ bound[v] # Unset
    <3>1. Fine(v, Pending, Held(v), bound[v], attr[v], own[v], v \in streamed)
      BY <1>0, <2>2 DEF Tells
    <3>2. \A i \in 1..Len(Pending) : ~Unbinds(Pending[i], v) BY <2>2, NoneUnderWay
    <3>3. /\ Len(s) = 1 /\ Dresses(s[1], v) /\ s[1].attrs = f
          /\ \A a : Brought(s[1], a) = Kept(a, f[a])
      BY <2>2 DEF SetMsg, Dresses, Brought
    <3>4. attr'[v] = Written(attr[v], f) BY <1>6
    <3> HIDE DEF s
    <3>5. /\ \A a \in Attrs \ DOMAIN f :
                /\ Allowed(bound[v], attr'[v], own'[v], a)
                      = Allowed(bound[v], attr[v], own[v], a)
                /\ InSync(bound[v], attr[v], own[v], a)
                      => InSync(bound[v], attr'[v], own'[v], a)
                /\ attr'[v][a] = attr[v][a]
          /\ \A a \in Attrs \cap DOMAIN f :
                Kept(a, f[a]) \in Allowed(bound[v], attr'[v], own'[v], a)
      <4> DEFINE at2 == attr'[v]
      <4> DEFINE ow2 == own'[v]
      <4> DEFINE m == bound[v]
      <4>1. at2 = Written(attr[v], f) /\ OwnKept(own[v], ow2, f) BY <3>4
      <4> HIDE DEF at2, ow2, m
      <4>2. ASSUME NEW a \in Attrs \ DOMAIN f
            PROVE  /\ Allowed(m, at2, ow2, a) = Allowed(m, attr[v], own[v], a)
                   /\ InSync(m, attr[v], own[v], a) => InSync(m, at2, ow2, a)
                   /\ at2[a] = attr[v][a]
        BY <4>1, WrittenAllowed
      <4>3. ASSUME NEW a \in Attrs \cap DOMAIN f
            PROVE  Kept(a, f[a]) \in Allowed(m, at2, ow2, a)
        BY <4>1, WrittenAllowed
      <4> QED BY <4>2, <4>3 DEF at2, ow2, m
    <3>6. Fine(v, Pending', Held(v), bound[v], attr'[v], own'[v], v \in streamed)
      BY <1>4, <3>1, <3>2, <3>3, <3>5, DressedFine
    <3> QED BY <1>6, <2>2, <3>6 DEF Tells
  <2> QED BY <1>6, <2>1, <2>2 DEF Tells, Careful
<1> QED BY <1>5, <1>7, <1>8, <1>9 DEF AttributesInv

\* A plate of a vehicle out of sight is set and nobody told.
LEMMA SetUnseen ==
  ASSUME AttributesAssumption, AttributesInv, NEW v \in Vehicles, NEW f \in Changes,
         BindFirst => bound[v] # Unset, Careful => ~UnbindUnderWay(v), v \notin streamed,
         "paintjob" \notin DOMAIN f,
         attr' = [attr EXCEPT ![v] = Written(attr[v], f)],
         OnlyAttributes, UNCHANGED <<own, toClient>>
  PROVE  AttributesInv'
<1>0. AttributesTypes /\ RegistryInv /\ \A u \in Vehicles : Tells(u)
  BY DEF AttributesInv
<1>1. OwnTyped /\ toClient' \in Seq(Packets) BY <1>0 DEF AttributesTypes, OwnTyped
<1>2. AttributesTypes' BY <1>0, <1>1, WrittenTypes
<1>3. /\ attr \in [Vehicles -> [Attrs -> Offered \cup {Unset}]] /\ authorized \in BOOLEAN
      /\ bound' = bound /\ streamed' = streamed /\ authorized' = authorized
      /\ exists' = exists /\ clearAll' = clearAll /\ own' = own
      /\ \A u : Held(u)' = Held(u)
      /\ Pending' = Pending
  BY <1>0, HeldStays, PendingStays DEF AttributesTypes, OnlyAttributes, clientVars
<1>4. RegistryInv'
  <2>1. \A u \in Vehicles \ {v} : attr'[u] = attr[u] BY <1>3
  <2> QED BY <1>0, <1>3, <2>1 DEF RegistryInv
<1>5. ASSUME NEW u \in Vehicles, u # v PROVE Tells(u)'
  <2>1. attr'[u] = attr[u] BY <1>3, <1>5
  <2> QED BY <1>0, <1>3, <2>1 DEF Tells
<1>6. Tells(v)'
  <2>1. CASE ~authorized BY <1>0, <1>3, <2>1 DEF Tells
  <2>2. CASE Careful /\ authorized /\ bound[v] # Unset
    <3>1. Fine(v, Pending, Held(v), bound[v], attr[v], own[v], FALSE)
      BY <1>0, <2>2, UnseenFine DEF Tells
    <3>2. \A i \in 1..Len(Pending) : ~Unbinds(Pending[i], v) BY <2>2, NoneUnderWay
    <3>3. attr'[v] = Written(attr[v], f) BY <1>3
    <3>4. OwnKept(own[v], own[v], f) BY DEF OwnKept
    <3>5. Pending \in Seq(Packets)
      BY <1>0 DEF AttributesTypes, Pending, Packets
    <3>6. EntryOK(Held(v))
      <4>1. EntryOK(NoEntry)
        BY DEF EntryOK, NoEntry, NoAttrs, Entries, AttributesAssumption, Clearable, Attrs
      <4> QED BY <1>0, <4>1 DEF Held, AttributesTypes
    <3>7. \A a \in Attrs :
             \/ /\ Allowed(bound[v], attr'[v], own[v], a)
                      = Allowed(bound[v], attr[v], own[v], a)
                /\ InSync(bound[v], attr[v], own[v], a)
                      => InSync(bound[v], attr'[v], own[v], a)
             \/ InSync(bound[v], attr'[v], own[v], a)
      BY <3>3, <3>4, WrittenAllowed
    <3>8. Fine(v, Pending, Held(v), bound[v], attr'[v], own[v], FALSE)
      BY <3>1, <3>2, <3>5, <3>6, <3>7, QuietFine
    <3>9. (v \in streamed) = FALSE OBVIOUS
    <3> QED BY <1>3, <2>2, <3>8, <3>9 DEF Tells
  <2> QED BY <1>3, <2>1, <2>2 DEF Tells, Careful
<1> QED BY <1>2, <1>4, <1>5, <1>6 DEF AttributesInv

\* A vehicle that was bound to nothing is bound.
LEMMA BindStep ==
  ASSUME AttributesAssumption, AttributesInv, NEW v \in Vehicles,
         NEW m \in Models, BindCustomVehicle(v, m)
  PROVE  AttributesInv'
<1>0. AttributesTypes /\ RegistryInv /\ \A u \in Vehicles : Tells(u)
  BY DEF AttributesInv
<1> DEFINE s == IF authorized THEN <<BindMsg(v, m)>> ELSE <<>>
<1>1. s \in Seq(Packets) BY PacketTypes
<1>2. toClient' = toClient \o s
  <2>1. toClient \o <<>> = toClient BY <1>0 DEF AttributesTypes
  <2> QED BY <2>1 DEF BindCustomVehicle, SendVehicle
<1>3. UNCHANGED clientVars BY DEF BindCustomVehicle
<1>4. /\ Extends(Pending', Pending, s)
      /\ Pending \in Seq(Packets) /\ toClient' \in Seq(Packets)
  BY <1>0, <1>1, <1>2, <1>3, PendingGrows
<1>5. /\ v \in exists
      /\ Careful => bound[v] = Unset /\ attr[v] = NoAttrs
      /\ exists' = exists /\ streamed' = streamed /\ own' = own
      /\ authorized' = authorized /\ authorized \in BOOLEAN /\ clearAll' = clearAll
      /\ modelAudio' = modelAudio
      /\ \A u : Held(u)' = Held(u)
  BY <1>0, <1>3, HeldStays
  DEF BindCustomVehicle, Careful, RegistryInv, AttributesTypes, clientVars
<1> DEFINE f == [a \in Attrs |-> IF a \in ModelAudio
                                 THEN OrElse(attr[v][a], modelAudio[m][a])
                                 ELSE attr[v][a]]
<1>6. /\ bound' = [bound EXCEPT ![v] = m]
      /\ attr' = [attr EXCEPT ![v] = f]
  BY DEF BindCustomVehicle, RegistryBind
<1>7. /\ f \in [Attrs -> Offered \cup {Unset}]
      /\ Careful => \A a \in Attrs \ ModelAudio : f[a] = Unset
  <2>1. /\ \A a \in ModelAudio : modelAudio[m][a] \in Values \cup {Unset}
        /\ \A a \in Attrs : attr[v][a] \in Offered \cup {Unset}
    BY <1>0 DEF AttributesTypes
  <2>2. Careful => \A a \in Attrs : attr[v][a] = Unset BY <1>5 DEF NoAttrs
  <2> QED BY <2>1, <2>2 DEF OrElse, Offered
<1> HIDE DEF f
<1>8. AttributesTypes'
  <2>1. /\ bound' \in [Vehicles -> Models \cup {Unset}]
        /\ attr' \in [Vehicles -> [Attrs -> Offered \cup {Unset}]]
    BY <1>0, <1>6, <1>7 DEF AttributesTypes
  <2>2. UNCHANGED <<exists, streamed, authorized, clearAll, modelAudio, own, bindings, mainQueue>>
    BY <1>3, <1>5 DEF clientVars
  <2> QED BY <1>0, <1>4, <2>1, <2>2 DEF AttributesTypes
<1>9. /\ bound'[v] = m /\ attr'[v] = f /\ m # Unset
      /\ \A u \in Vehicles \ {v} : bound'[u] = bound[u] /\ attr'[u] = attr[u]
  BY <1>0, <1>6 DEF AttributesTypes, AttributesAssumption
<1>10. RegistryInv'
  <2>1. BindFirst => \A u \in Vehicles : bound'[u] = Unset => attr'[u] = NoAttrs
    BY <1>0, <1>9 DEF RegistryInv
  <2>2. \A u \in Vehicles \ exists' : bound'[u] = Unset
    BY <1>0, <1>5, <1>9 DEF RegistryInv
  <2> QED BY <1>0, <1>5, <2>1, <2>2 DEF RegistryInv
<1>11. ASSUME NEW u \in Vehicles, u # v PROVE Tells(u)'
  <2>1. \A k \in 1..Len(s) : s[k].vehicle # u /\ authorized BY <1>11 DEF BindMsg
  <2>2. /\ attr'[u] = attr[u] /\ own'[u] = own[u] /\ bound'[u] = bound[u]
        /\ (u \in streamed' => u \in streamed) /\ Tells(u)
    BY <1>0, <1>5, <1>9, <1>11
  <2>3. Held(u)' = Held(u) /\ authorized' = authorized /\ authorized \in BOOLEAN
    BY <1>5
  <2> HIDE DEF s
  <2> QED BY <1>4, <2>1, <2>2, <2>3, StaysTold
<1>12. Tells(v)'
  <2>1. CASE ~authorized
    <3>1. \A k \in 1..Len(s) : FALSE BY <2>1
    <3>2. Fresh(Pending, Held(v)) BY <1>0, <2>1 DEF Tells
    <3> HIDE DEF s
    <3>3. Fresh(Pending', Held(v)) BY <1>4, <3>1, <3>2, OthersFresh
    <3> QED BY <1>5, <2>1, <3>3 DEF Tells
  <2>2. CASE Careful /\ authorized
    <3>1. Gone(v, Pending, Held(v)) BY <1>0, <1>5, <2>2 DEF Tells, Careful
    <3>2. Len(s) = 1 /\ Binds(s[1], v) /\ s[1].model = m
      BY <2>2, PacketTypes
    <3> HIDE DEF s
    <3>3. Fine(v, Pending', Held(v), m, f, own[v], v \in streamed)
      BY <1>4, <1>7, <2>2, <3>1, <3>2, BoundFine
    <3> QED BY <1>5, <1>9, <2>2, <3>3 DEF Tells
  <2> QED BY <1>5, <1>9, <2>1, <2>2 DEF Tells
<1> QED BY <1>8, <1>10, <1>11, <1>12 DEF AttributesInv

\* A vehicle is unbound; it may be destroyed, too.
LEMMA UnbindStep ==
  ASSUME AttributesAssumption, AttributesInv, NEW v \in Vehicles,
         RegistryUnbind(v), SendVehicle(<<UnbindMsg(v)>>),
         UNCHANGED <<modelAudio, own, authorized, clientVars>>,
         exists' \subseteq exists, exists \ {v} \subseteq exists',
         streamed' \subseteq streamed, streamed' \subseteq exists'
  PROVE  AttributesInv'
<1>0. AttributesTypes /\ RegistryInv /\ \A u \in Vehicles : Tells(u)
  BY DEF AttributesInv
<1> DEFINE s == IF authorized THEN <<UnbindMsg(v)>> ELSE <<>>
<1>1. s \in Seq(Packets) BY PacketTypes
<1>2. toClient' = toClient \o s
  <2>1. toClient \o <<>> = toClient BY <1>0 DEF AttributesTypes
  <2> QED BY <2>1 DEF SendVehicle
<1>3. /\ Extends(Pending', Pending, s)
      /\ Pending \in Seq(Packets) /\ toClient' \in Seq(Packets)
  BY <1>0, <1>1, <1>2, PendingGrows
<1>4. /\ own' = own /\ authorized' = authorized /\ authorized \in BOOLEAN
      /\ clearAll' = clearAll /\ \A u : Held(u)' = Held(u)
  BY <1>0, HeldStays DEF AttributesTypes, clientVars
<1>5. /\ bound'[v] = Unset /\ attr'[v] = NoAttrs
      /\ \A u \in Vehicles \ {v} : bound'[u] = bound[u] /\ attr'[u] = attr[u]
      /\ bound' \in [Vehicles -> Models \cup {Unset}]
      /\ attr' \in [Vehicles -> [Attrs -> Offered \cup {Unset}]]
  BY <1>0 DEF RegistryUnbind, AttributesTypes, NoAttrs
<1>6. AttributesTypes'
  <2>1. exists' \subseteq Vehicles BY <1>0 DEF AttributesTypes
  <2> QED BY <1>0, <1>3, <1>5, <2>1 DEF AttributesTypes, clientVars
<1>7. RegistryInv'
  <2>1. BindFirst => \A u \in Vehicles : bound'[u] = Unset => attr'[u] = NoAttrs
    BY <1>0, <1>5 DEF RegistryInv
  <2>2. \A u \in Vehicles \ exists' : bound'[u] = Unset
    BY <1>0, <1>5 DEF RegistryInv
  <2>3. clearAll' => streamed' = {} BY <1>0, <1>4 DEF RegistryInv
  <2> QED BY <2>1, <2>2, <2>3 DEF RegistryInv
<1>8. ASSUME NEW u \in Vehicles, u # v PROVE Tells(u)'
  <2>1. \A k \in 1..Len(s) : s[k].vehicle # u /\ authorized BY <1>8 DEF UnbindMsg
  <2>2. /\ attr'[u] = attr[u] /\ own'[u] = own[u] /\ bound'[u] = bound[u]
        /\ (u \in streamed' => u \in streamed) /\ Tells(u)
    BY <1>0, <1>4, <1>5, <1>8
  <2>3. Held(u)' = Held(u) /\ authorized' = authorized /\ authorized \in BOOLEAN
    BY <1>4
  <2> HIDE DEF s
  <2> QED BY <1>3, <2>1, <2>2, <2>3, StaysTold
<1>9. Tells(v)'
  <2>1. CASE ~authorized
    <3>1. \A k \in 1..Len(s) : FALSE BY <2>1
    <3>2. Fresh(Pending, Held(v)) BY <1>0, <2>1 DEF Tells
    <3> HIDE DEF s
    <3>3. Fresh(Pending', Held(v)) BY <1>3, <3>1, <3>2, OthersFresh
    <3> QED BY <1>4, <2>1, <3>3 DEF Tells
  <2>2. CASE authorized
    <3>1. Len(s) = 1 /\ Unbinds(s[1], v) BY <2>2, PacketTypes
    <3> HIDE DEF s
    <3>2. Gone(v, Pending', Held(v)) BY <1>3, <3>1, UnboundGone
    <3> QED BY <1>4, <1>5, <2>2, <3>2 DEF Tells
  <2> QED BY <2>1, <2>2
<1> QED BY <1>6, <1>7, <1>8, <1>9 DEF AttributesInv

\* The entry that counts is one.
LEMMA HeldOK ==
  ASSUME AttributesAssumption, AttributesTypes, NEW v \in Vehicles
  PROVE  EntryOK(Held(v))
<1>1. EntryOK(NoEntry)
  BY DEF EntryOK, NoEntry, NoAttrs, Entries, AttributesAssumption, Clearable, Attrs
<1> QED BY <1>1 DEF Held, AttributesTypes

\* Open.mp's values change, vehicles come or go out of sight, and nobody is
\* told.  What changes is allowed, told by the next full state, or of a vehicle
\* that is not bound.
LEMMA QuietStep ==
  ASSUME AttributesAssumption, AttributesInv,
         UNCHANGED <<bound, attr, authorized, clientVars, toClient>>, OwnTyped,
         modelAudio' \in [Models -> [ModelAudio -> Values \cup {Unset}]],
         exists' \subseteq Vehicles, streamed' \subseteq exists',
         streamed' \subseteq streamed, \A u \in Vehicles \ exists' : bound[u] = Unset,
         \A u \in Vehicles : \/ own'[u] = own[u] \/ bound[u] = Unset
            \/ \A a \in Attrs :
                  \/ /\ Allowed(bound[u], attr[u], own'[u], a)
                           = Allowed(bound[u], attr[u], own[u], a)
                     /\ InSync(bound[u], attr[u], own[u], a)
                           => InSync(bound[u], attr[u], own'[u], a)
                  \/ u \notin streamed' /\ InSync(bound[u], attr[u], own'[u], a)
                  \/ /\ a \in Clearable
                     /\ Values \cup {Unset} \subseteq Allowed(bound[u], attr[u], own'[u], a)
  PROVE  AttributesInv'
<1>0. AttributesTypes /\ RegistryInv /\ \A u \in Vehicles : Tells(u)
  BY DEF AttributesInv
<1>1. AttributesTypes'
  BY <1>0 DEF AttributesTypes, OwnTyped, clientVars
<1>2. RegistryInv'
  <2>1. clearAll' = clearAll /\ bound' = bound /\ attr' = attr BY DEF clientVars
  <2> QED BY <1>0, <2>1 DEF RegistryInv
<1>3. /\ bound' = bound /\ attr' = attr /\ authorized' = authorized
      /\ Pending' = Pending /\ \A u : Held(u)' = Held(u)
  BY HeldStays, PendingStays
<1>4. ASSUME NEW u \in Vehicles PROVE Tells(u)'
  <2>1. CASE ~authorized BY <1>0, <1>3, <2>1 DEF Tells
  <2>2. CASE authorized /\ bound[u] = Unset BY <1>0, <1>3, <2>2 DEF Tells
  <2>3. CASE Careful /\ authorized /\ bound[u] # Unset
    <3>1. Fine(u, Pending, Held(u), bound[u], attr[u], own[u], u \in streamed)
      BY <1>0, <2>3 DEF Tells
    <3>2. Fine(u, Pending, Held(u), bound[u], attr[u], own[u], u \in streamed')
      <4>1. CASE u \in streamed'
        <5>1. (u \in streamed) = (u \in streamed') BY <4>1
        <5> QED BY <3>1, <5>1
      <4>2. CASE u \notin streamed'
        <5>1. Fine(u, Pending, Held(u), bound[u], attr[u], own[u], FALSE)
          BY <3>1, UnseenFine
        <5>2. (u \in streamed') = FALSE BY <4>2
        <5> QED BY <5>1, <5>2
      <4> QED BY <4>1, <4>2
    <3>3. Fine(u, Pending, Held(u), bound[u], attr[u], own'[u], u \in streamed')
      <4>1. CASE own'[u] = own[u] BY <3>2, <4>1
      <4>2. CASE own'[u] # own[u]
        <5>1. EntryOK(Held(u)) /\ Pending \in Seq(Packets)
          BY <1>0, HeldOK DEF AttributesTypes, Pending, Packets
        <5> QED BY <2>3, <3>2, <4>2, <5>1, QuietFine
      <4> QED BY <4>1, <4>2
    <3> QED BY <1>3, <2>3, <3>3 DEF Tells
  <2> QED BY <1>3, <2>1, <2>2, <2>3 DEF Tells
<1> QED BY <1>1, <1>2, <1>4 DEF AttributesInv

\* The game's paintjob of a vehicle in sight is sent.
LEMMA RemapStep ==
  ASSUME AttributesAssumption, AttributesInv, NEW v \in streamed, NEW x \in Values,
         ChangeVehiclePaintjob(v, x)
  PROVE  AttributesInv'
<1>0. AttributesTypes /\ RegistryInv /\ \A u \in Vehicles : Tells(u)
  BY DEF AttributesInv
<1> DEFINE s == <<[type |-> "Remap", vehicle |-> v, value |-> x]>>
<1>1. s \in Seq(Packets) /\ v \in Vehicles
  BY <1>0 DEF AttributesTypes, Packets
<1>2. toClient' = toClient \o s
  BY <1>0 DEF ChangeVehiclePaintjob, AttributesTypes
<1>3. UNCHANGED clientVars BY DEF ChangeVehiclePaintjob
<1>4. /\ Extends(Pending', Pending, s)
      /\ Pending \in Seq(Packets) /\ toClient' \in Seq(Packets)
  BY <1>0, <1>1, <1>2, <1>3, PendingGrows
<1>5. /\ exists' = exists /\ streamed' = streamed /\ bound' = bound /\ attr' = attr
      /\ modelAudio' = modelAudio /\ bindings' = bindings /\ mainQueue' = mainQueue
      /\ authorized' = authorized /\ authorized \in BOOLEAN /\ clearAll' = clearAll
      /\ \A u : Held(u)' = Held(u)
  BY <1>0, <1>3, HeldStays
  DEF ChangeVehiclePaintjob, AttributesTypes, clientVars, registry
<1>6. /\ own' = [own EXCEPT ![v]["paintjob"] = x]
      /\ own \in [Vehicles -> [{"paintjob", "wheel"} -> Values \cup {Unset}]]
  BY <1>0 DEF ChangeVehiclePaintjob, AttributesTypes
<1>7. /\ own' \in [Vehicles -> [{"paintjob", "wheel"} -> Values \cup {Unset}]]
      /\ own'[v]["paintjob"] = x /\ own'[v]["wheel"] = own[v]["wheel"]
      /\ \A u \in Vehicles \ {v} : own'[u] = own[u]
  BY <1>1, <1>6
<1>8. AttributesTypes' BY <1>0, <1>4, <1>5, <1>7 DEF AttributesTypes
<1>9. RegistryInv' BY <1>0, <1>5 DEF RegistryInv
<1>10. Len(s) = 1 /\ Remaps(s[1], v) /\ s[1].value = x /\ s[1].vehicle = v
       /\ s[1].type = "Remap" /\ \A k \in 1..Len(s) : k = 1
  BY DEF Remaps
<1> HIDE DEF s
<1>11. ASSUME NEW u \in Vehicles, u # v PROVE Tells(u)'
  <2>1. \A k \in 1..Len(s) : s[k].vehicle # u /\ s[k].type = "Remap" BY <1>10, <1>11
  <2>2. /\ attr'[u] = attr[u] /\ own'[u] = own[u] /\ bound'[u] = bound[u]
        /\ (u \in streamed' => u \in streamed) /\ Tells(u)
    BY <1>0, <1>5, <1>7, <1>11
  <2>3. Held(u)' = Held(u) /\ authorized' = authorized /\ authorized \in BOOLEAN
    BY <1>5
  <2> QED BY <1>4, <2>1, <2>2, <2>3, StaysTold
<1>12. Tells(v)'
  <2>1. CASE ~authorized
    <3>1. Fresh(Pending, Held(v)) BY <1>0, <1>1, <2>1 DEF Tells
    <3>2. \A k \in 1..Len(s) : s[k].type = "Remap" BY <1>10
    <3>3. Fresh(Pending', Held(v)) BY <1>4, <3>1, <3>2, OthersFresh
    <3> QED BY <1>5, <2>1, <3>3 DEF Tells
  <2>2. CASE BindFirst /\ authorized /\ bound[v] = Unset
    <3>1. Gone(v, Pending, Held(v)) BY <1>0, <1>1, <2>2 DEF Tells
    <3>2. \A k \in 1..Len(s) : ~Touches(s[k], v) BY <1>10 DEF Touches
    <3>3. Gone(v, Pending', Held(v)) BY <1>4, <3>1, <3>2, OthersGone
    <3> QED BY <1>5, <2>2, <3>3 DEF Tells
  <2>3. CASE Careful /\ authorized /\ bound[v] # Unset
    <3>1. (v \in streamed) = TRUE OBVIOUS
    <3>2. Fine(v, Pending, Held(v), bound[v], attr[v], own[v], TRUE)
      BY <1>0, <1>1, <2>3, <3>1 DEF Tells
    <3>3. bound[v] \in Models /\ EntryOK(Held(v)) BY <1>0, <1>1, <2>3, BoundTypes, HeldOK
    <3>4. Fine(v, Pending', Held(v), bound[v], attr[v], own'[v], TRUE)
      <4> DEFINE ow2 == own'[v]
      <4>1. ow2["paintjob"] = s[1].value /\ ow2["wheel"] = own[v]["wheel"]
            /\ s[1].value \in Values /\ Len(s) = 1 /\ Remaps(s[1], v)
        BY <1>7, <1>10
      <4> HIDE DEF ow2
      <4>2. Fine(v, Pending', Held(v), bound[v], attr[v], ow2, TRUE)
        BY <1>4, <3>2, <3>3, <4>1, RemappedFine
      <4> QED BY <4>2 DEF ow2
    <3> QED BY <1>5, <2>3, <3>1, <3>4 DEF Tells
  <2> QED BY <1>5, <2>1, <2>2, <2>3 DEF Tells
<1> QED BY <1>8, <1>9, <1>11, <1>12 DEF AttributesInv

\* Full states are sent, and after that all vehicles that are in sight of an
\* authorized player have been told.
LEMMA TellStep ==
  ASSUME AttributesAssumption, AttributesInv, NEW s \in Seq(Packets),
         toClient' = toClient \o s,
         UNCHANGED <<exists, registry, own, clientVars>>,
         streamed' \subseteq exists, clearAll => streamed' = {},
         authorized' \in BOOLEAN,
         ~authorized' => ~authorized /\ s = <<>>,
         \A k \in 1..Len(s) : bound[s[k].vehicle] # Unset /\ s[k].vehicle \in streamed',
         authorized' =>
           \A v \in streamed' : bound[v] # Unset =>
              \/ /\ authorized /\ v \in streamed
                 /\ \A k \in 1..Len(s) : s[k].vehicle # v
              \/ \E p \in 1..Len(s) :
                    /\ p + 1 \in 1..Len(s)
                    /\ s[p] = BindMsg(v, bound[v]) /\ s[p + 1] = Whole(v)
                    /\ \A k \in 1..Len(s) : k # p /\ k # p + 1 => s[k].vehicle # v
  PROVE  AttributesInv'
<1>0. AttributesTypes /\ RegistryInv /\ \A u \in Vehicles : Tells(u)
  BY DEF AttributesInv
<1>1. /\ Extends(Pending', Pending, s)
      /\ Pending \in Seq(Packets) /\ toClient' \in Seq(Packets)
  BY <1>0, PendingGrows
<1>2. /\ exists' = exists /\ bound' = bound /\ attr' = attr /\ own' = own
      /\ modelAudio' = modelAudio /\ bindings' = bindings /\ mainQueue' = mainQueue
      /\ clearAll' = clearAll /\ \A u : Held(u)' = Held(u)
  BY HeldStays DEF registry, clientVars
<1>3. AttributesTypes' BY <1>0, <1>1, <1>2 DEF AttributesTypes
<1>4. RegistryInv' BY <1>0, <1>2 DEF RegistryInv
<1>5. ASSUME NEW v \in Vehicles PROVE Tells(v)'
  <2>1. CASE ~authorized'
    <3>1. Fresh(Pending, Held(v)) BY <1>0, <1>5, <2>1 DEF Tells
    <3>2. \A k \in 1..Len(s) : s[k].type = "Remap" BY <2>1
    <3>3. Fresh(Pending', Held(v)) BY <1>1, <3>1, <3>2, OthersFresh
    <3> QED BY <1>2, <2>1, <3>3 DEF Tells
  <2>2. CASE BindFirst /\ authorized' /\ bound[v] = Unset
    <3>1. Gone(v, Pending, Held(v))
      BY <1>0, <1>5, <2>2, FreshGone DEF Tells
    <3>2. \A k \in 1..Len(s) : ~Touches(s[k], v) BY <2>2 DEF Touches
    <3>3. Gone(v, Pending', Held(v)) BY <1>1, <3>1, <3>2, OthersGone
    <3> QED BY <1>2, <2>2, <3>3 DEF Tells
  <2>3. CASE Careful /\ authorized' /\ bound[v] # Unset
    <3>0. bound[v] \in Models /\ AttrTypes(bound[v], attr[v], own[v])
      BY <1>0, <2>3, BoundTypes
    <3>1. \E su \in BOOLEAN :
             /\ Fine(v, Pending, Held(v), bound[v], attr[v], own[v], su)
             /\ su = (authorized /\ v \in streamed)
      <4>1. CASE authorized
        <5>1. Fine(v, Pending, Held(v), bound[v], attr[v], own[v], v \in streamed)
          BY <1>0, <1>5, <2>3, <4>1 DEF Tells
        <5>2. CASE v \in streamed
          <6>1. (v \in streamed) = TRUE BY <5>2
          <6>2. Fine(v, Pending, Held(v), bound[v], attr[v], own[v], TRUE)
            BY <5>1, <6>1
          <6> QED BY <4>1, <5>2, <6>2
        <5>3. CASE v \notin streamed
          <6>1. (v \in streamed) = FALSE BY <5>3
          <6>2. Fine(v, Pending, Held(v), bound[v], attr[v], own[v], FALSE)
            BY <5>1, <6>1
          <6> QED BY <5>3, <6>2
        <5> QED BY <5>2, <5>3
      <4>2. CASE ~authorized
        <5>1. Fresh(Pending, Held(v)) BY <1>0, <1>5, <4>2 DEF Tells
        <5>2. Fine(v, Pending, Held(v), bound[v], attr[v], own[v], FALSE)
          BY <3>0, <5>1, FreshFine
        <5> QED BY <4>2, <5>2
      <4> QED BY <4>1, <4>2
    <3>2. PICK su \in BOOLEAN :
             /\ Fine(v, Pending, Held(v), bound[v], attr[v], own[v], su)
             /\ su = (authorized /\ v \in streamed)
      BY <3>1
    <3>3. CASE v \notin streamed'
      <4>1. \A k \in 1..Len(s) : s[k].vehicle # v BY <3>3
      <4>2. Fine(v, Pending', Held(v), bound[v], attr[v], own[v], su)
        BY <1>1, <3>2, <4>1, OthersFine
      <4>3. Fine(v, Pending', Held(v), bound[v], attr[v], own[v], FALSE)
        BY <4>2, UnseenFine
      <4>4. (v \in streamed') = FALSE BY <3>3
      <4> QED BY <1>2, <2>3, <4>3, <4>4 DEF Tells
    <3>4. CASE /\ v \in streamed' /\ authorized /\ v \in streamed
               /\ \A k \in 1..Len(s) : s[k].vehicle # v
      <4>1. Fine(v, Pending', Held(v), bound[v], attr[v], own[v], su)
        BY <1>1, <3>2, <3>4, OthersFine
      <4>2. (v \in streamed') = TRUE /\ su = TRUE BY <3>2, <3>4
      <4> QED BY <1>2, <2>3, <4>1, <4>2 DEF Tells
    <3>5. CASE /\ v \in streamed'
               /\ \E p \in 1..Len(s) :
                    /\ p + 1 \in 1..Len(s)
                    /\ s[p] = BindMsg(v, bound[v]) /\ s[p + 1] = Whole(v)
                    /\ \A k \in 1..Len(s) : k # p /\ k # p + 1 => s[k].vehicle # v
      <4>1. PICK p \in 1..Len(s) :
                    /\ p + 1 \in 1..Len(s)
                    /\ s[p] = BindMsg(v, bound[v]) /\ s[p + 1] = Whole(v)
                    /\ \A k \in 1..Len(s) : k # p /\ k # p + 1 => s[k].vehicle # v
        BY <3>5
      <4>2. /\ Binds(s[p], v) /\ s[p].model = bound[v] /\ Dresses(s[p + 1], v)
            /\ s[p + 1].attrs = [a \in {b \in Attrs : InSync(bound[v], attr[v], own[v], b)} |->
                                    EffectiveOf(bound[v], attr[v], own[v], a)]
        BY <1>0, <1>5, <2>3, <4>1, WholeIs
      <4>3. Fine(v, Pending', Held(v), bound[v], attr[v], own[v], TRUE)
        BY <1>1, <3>0, <3>2, <4>1, <4>2, SyncedFine
      <4>4. (v \in streamed') = TRUE BY <3>5
      <4> QED BY <1>2, <2>3, <4>3, <4>4 DEF Tells
    <3> QED BY <2>3, <3>3, <3>4, <3>5
  <2> QED BY <1>2, <2>1, <2>2, <2>3 DEF Tells
<1> QED BY <1>3, <1>4, <1>5 DEF AttributesInv

\* One vehicle streams in or is entered.
LEMMA SyncStep ==
  ASSUME AttributesAssumption, AttributesInv, NEW v \in exists,
         streamed' = streamed \cup {v}, clearAll => streamed' = {},
         SendVehicle(SyncCustomVehicleToPlayer(v)),
         UNCHANGED <<exists, registry, own, authorized, clientVars>>
  PROVE  AttributesInv'
<1>0. AttributesTypes BY DEF AttributesInv
<1>1. v \in Vehicles /\ toClient \in Seq(Packets) /\ toClient \o <<>> = toClient
      /\ authorized \in BOOLEAN /\ streamed \subseteq exists
  BY <1>0 DEF AttributesTypes
<1>2. CASE ~authorized \/ bound[v] = Unset
  <2>1. toClient' = toClient \o <<>> /\ <<>> \in Seq(Packets)
    BY <1>1, <1>2 DEF SendVehicle, SyncCustomVehicleToPlayer
  <2>2. \A u \in streamed' : u \in streamed \/ ~authorized \/ bound[u] = Unset BY <1>2
  <2>3. \A k \in 1..Len(<<>>) : FALSE OBVIOUS
  <2>4. streamed' \subseteq exists BY <1>1
  <2> DEFINE s == <<>>
  <2>5. /\ s \in Seq(Packets) /\ toClient' = toClient \o s /\ s = <<>>
        /\ \A k \in 1..Len(s) : FALSE
    BY <2>1, <2>3
  <2> HIDE DEF s
  <2> QED BY <1>1, <2>2, <2>4, <2>5, TellStep
<1>3. CASE authorized /\ bound[v] # Unset
  <2> DEFINE s == <<BindMsg(v, bound[v]), Whole(v)>>
  <2>1. s \in Seq(Packets)
    <3>1. BindMsg(v, bound[v]) \in Packets /\ Whole(v) \in Packets
      BY <1>0, <1>1, <1>3, WholeIs
    <3> QED BY <3>1
  <2>2. toClient' = toClient \o s
    BY <1>3 DEF SendVehicle, SyncCustomVehicleToPlayer, Whole
  <2>3. /\ Len(s) = 2 /\ s[1] = BindMsg(v, bound[v]) /\ s[2] = Whole(v)
        /\ s[1].vehicle = v /\ s[2].vehicle = v
    BY DEF BindMsg, Whole, SetMsg
  <2> HIDE DEF s
  <2>4. /\ \A k \in 1..Len(s) : k = 1 \/ k = 2
        /\ 1 \in 1..Len(s) /\ 1 + 1 \in 1..Len(s) /\ 1 + 1 = 2
    BY <2>3
  <2>5. \A k \in 1..Len(s) : s[k].vehicle = v BY <2>3, <2>4
  <2>6. \E p \in 1..Len(s) :
           /\ p + 1 \in 1..Len(s)
           /\ s[p] = BindMsg(v, bound[v]) /\ s[p + 1] = Whole(v)
           /\ \A k \in 1..Len(s) : k # p /\ k # p + 1 => s[k].vehicle # v
    BY <2>3, <2>4
  <2>7. ASSUME NEW u \in streamed'
        PROVE  \/ u \in streamed /\ \A k \in 1..Len(s) : s[k].vehicle # u
               \/ u = v
    BY <2>5
  <2>8. streamed' \subseteq exists BY <1>1
  <2>9. \A u \in streamed' : bound[u] # Unset =>
              \/ /\ authorized /\ u \in streamed
                 /\ \A k \in 1..Len(s) : s[k].vehicle # u
              \/ \E p \in 1..Len(s) :
                    /\ p + 1 \in 1..Len(s)
                    /\ s[p] = BindMsg(u, bound[u]) /\ s[p + 1] = Whole(u)
                    /\ \A k \in 1..Len(s) : k # p /\ k # p + 1 => s[k].vehicle # u
    BY <1>3, <2>6, <2>7
  <2>10. \A k \in 1..Len(s) : bound[s[k].vehicle] # Unset /\ s[k].vehicle \in streamed'
    BY <1>3, <2>5
  <2> QED BY <1>1, <1>3, <2>1, <2>2, <2>8, <2>9, <2>10, TellStep
<1> QED BY <1>1, <1>2, <1>3

\* The player spawns: everything in sight is told again.
LEMMA SpawnStep ==
  ASSUME AttributesAssumption, AttributesInv, onPlayerSpawn
  PROVE  AttributesInv'
<1>0. AttributesTypes BY DEF AttributesInv
<1>1. /\ authorized' = authorized /\ streamed' = streamed /\ streamed \subseteq exists
      /\ UNCHANGED <<exists, registry, own, clientVars>> /\ ~clearAll
      /\ authorized \in BOOLEAN /\ toClient \o <<>> = toClient
  BY <1>0 DEF onPlayerSpawn, serverVars, AttributesTypes
<1>2. CASE ~authorized
  <2> DEFINE s == <<>>
  <2>1. /\ s \in Seq(Packets) /\ toClient' = toClient \o s /\ s = <<>>
        /\ \A k \in 1..Len(s) : FALSE
    BY <1>1, <1>2 DEF onPlayerSpawn, SendVehicle
  <2> HIDE DEF s
  <2> QED BY <1>1, <1>2, <2>1, TellStep
<1>3. CASE authorized
  <2> DEFINE s == SyncCustomVehiclesToPlayer
  <2>1. toClient' = toClient \o s BY <1>3 DEF onPlayerSpawn, SendVehicle
  <2>2. /\ s \in Seq(Packets)
        /\ \A k \in 1..Len(s) : s[k].vehicle \in streamed /\ bound[s[k].vehicle] # Unset
        /\ \A v \in streamed : bound[v] # Unset =>
             \E p \in 1..Len(s) :
                /\ p + 1 \in 1..Len(s)
                /\ s[p] = BindMsg(v, bound[v]) /\ s[p + 1] = Whole(v)
                /\ \A k \in 1..Len(s) : k # p /\ k # p + 1 => s[k].vehicle # v
    BY <1>0, AllWhole
  <2> HIDE DEF s
  <2> QED BY <1>1, <1>3, <2>1, <2>2, TellStep
<1> QED BY <1>1, <1>2, <1>3

\* The player is authorized: everything in sight is told for the first time.
LEMMA AuthorizedStep ==
  ASSUME AttributesAssumption, AttributesInv, OnPlayerAuthorized
  PROVE  AttributesInv'
<1>0. AttributesTypes /\ RegistryInv BY DEF AttributesInv
<1>1. /\ authorized' = TRUE /\ streamed' = streamed /\ streamed \subseteq exists
      /\ UNCHANGED <<exists, registry, own, clientVars>>
      /\ clearAll => streamed' = {}
  BY <1>0 DEF OnPlayerAuthorized, RegistryInv, AttributesTypes
<1> DEFINE s == SyncCustomVehiclesToPlayer
<1>2. toClient' = toClient \o s BY DEF OnPlayerAuthorized
<1>3. /\ s \in Seq(Packets)
      /\ \A k \in 1..Len(s) : s[k].vehicle \in streamed /\ bound[s[k].vehicle] # Unset
      /\ \A v \in streamed : bound[v] # Unset =>
           \E p \in 1..Len(s) :
              /\ p + 1 \in 1..Len(s)
              /\ s[p] = BindMsg(v, bound[v]) /\ s[p + 1] = Whole(v)
              /\ \A k \in 1..Len(s) : k # p /\ k # p + 1 => s[k].vehicle # v
  BY <1>0, AllWhole
<1> HIDE DEF s
<1> QED BY <1>1, <1>2, <1>3, TellStep

\* The player comes back: nothing is pending, and every entry will be cleared.
LEMMA RejoinStep ==
  ASSUME AttributesAssumption, AttributesInv, Rejoin
  PROVE  AttributesInv'
<1>0. AttributesTypes /\ RegistryInv BY DEF AttributesInv
<1>1. AttributesTypes'
  <2>1. EntryOK(NoEntry)
    BY DEF EntryOK, NoEntry, NoAttrs, Entries, AttributesAssumption, Clearable, Attrs
  <2>2. DOMAIN bindings' = Vehicles /\ \A v \in Vehicles : bindings'[v] = NoEntry
    BY DEF Rejoin
  <2>3. \A v \in Vehicles : EntryOK(bindings'[v]) BY <2>1, <2>2
  <2>4. /\ toClient' \in Seq(Packets) /\ streamed' = {} /\ authorized' = FALSE
        /\ clearAll' = TRUE
        /\ UNCHANGED <<exists, bound, attr, modelAudio, own, mainQueue>>
    BY DEF Rejoin, registry
  <2> QED BY <1>0, <2>2, <2>3, <2>4 DEF AttributesTypes
<1>2. RegistryInv' BY <1>0 DEF RegistryInv, Rejoin, registry
<1>3. ASSUME NEW v \in Vehicles PROVE Tells(v)'
  <2>1. clearAll' = TRUE /\ toClient' = <<>> /\ authorized' = FALSE BY DEF Rejoin
  <2>2. Pending' = <<>> /\ Held(v)' = NoEntry BY <2>1 DEF Pending, Held
  <2>3. Fresh(<<>>, NoEntry) BY DEF Fresh
  <2> QED BY <2>1, <2>2, <2>3 DEF Tells
<1> QED BY <1>1, <1>2, <1>3 DEF AttributesInv

-----------------------------------------------------------------------------
(* The steps of the client.                                                  *)

\* What a received packet does to an entry.
Received(e, p, v) ==
    IF Dresses(p, v) THEN SetAttrs(e, p.attrs)
    ELSE IF Remaps(p, v) THEN Remapped(e, p.value) ELSE e

\* What a packet leaves is an entry.
LEMMA ReceivedOK ==
  ASSUME AttributesAssumption, NEW e, EntryOK(e), NEW p \in Packets, NEW v
  PROVE  EntryOK(Received(e, p, v))
<1>1. ASSUME NEW f \in Changes PROVE EntryOK(SetAttrs(e, f))
  <2> DEFINE b == SetAttrs(e, f)
  <2>1. PICK D \in SUBSET Attrs : f \in [D -> Offered] BY DEF Changes
  <2>2. /\ e.attr \in [Attrs -> Offered \cup {Unset}] /\ e.model \in Models \cup {Unset}
        /\ \A a \in Clearable : e.attr[a] # Neutral
    BY DEF EntryOK, Entries
  <2>3. /\ b.present /\ b.model = e.model
        /\ b = [model |-> e.model, present |-> TRUE, attr |-> b.attr]
        /\ b.attr = [a \in Attrs |-> IF a \in DOMAIN f THEN Kept(a, f[a]) ELSE e.attr[a]]
    BY DEF SetAttrs
  <2> HIDE DEF b
  <2>4. Neutral # Unset BY DEF AttributesAssumption
  <2>5. \A a \in Attrs : /\ b.attr[a] \in Offered \cup {Unset}
                         /\ a \in Clearable => b.attr[a] # Neutral
    BY <2>1, <2>2, <2>3, <2>4 DEF Kept, Offered
  <2>6. b.attr \in [Attrs -> Offered \cup {Unset}] BY <2>3, <2>5
  <2>7. b \in Entries BY <2>2, <2>3, <2>6 DEF Entries
  <2>8. Clearable \subseteq Attrs BY DEF Clearable, Attrs
  <2>9. EntryOK(b) BY <2>3, <2>5, <2>7, <2>8 DEF EntryOK
  <2> QED BY <2>9 DEF b
<1>2. CASE Dresses(p, v)
  <2>1. p.attrs \in Changes BY <1>2 DEF Packets, Tasks, Dresses
  <2> QED BY <1>1, <1>2, <2>1 DEF Received
<1>3. CASE Remaps(p, v)
  <2>1. ~Dresses(p, v) BY <1>3 DEF Dresses, Remaps
  <2>2. p.value \in Offered BY <1>3 DEF Packets, Tasks, Remaps, Offered
  <2>3. One("paintjob", p.value) \in [{"paintjob"} -> Offered] BY <2>2 DEF One
  <2>4. {"paintjob"} \in SUBSET Attrs BY DEF Attrs
  <2>5. One("paintjob", p.value) \in Changes BY <2>3, <2>4 DEF Changes
  <2> QED BY <1>1, <1>3, <2>1, <2>5 DEF Received, Remapped
<1>4. CASE ~Dresses(p, v) /\ ~Remaps(p, v) BY <1>4 DEF Received
<1> QED BY <1>2, <1>3, <1>4

\* The place a packet is taken from, when it is not a task.
LEMMA TakenFrom ==
  ASSUME NEW t \in Seq(Tasks), NEW q \in Seq(Packets), q # <<>>
  PROVE  /\ Drops(t \o Tail(q), t \o q, Len(t) + 1)
         /\ (t \o q)[Len(t) + 1] = Head(q)
         /\ OnlyTasks(t \o q, Len(t) + 1 - 1)
<1> DEFINE w == t \o q
<1> DEFINE x == t \o Tail(q)
<1>1. /\ Len(t) \in Nat /\ Len(q) \in Nat /\ Len(q) # 0
      /\ Tail(q) \in Seq(Packets) /\ Len(Tail(q)) = Len(q) - 1
      /\ \A i \in 1..Len(Tail(q)) : Tail(q)[i] = q[i + 1]
      /\ Head(q) = q[1]
  OBVIOUS
<1>2. /\ Len(w) = Len(t) + Len(q) /\ Len(x) = Len(t) + Len(Tail(q))
      /\ \A i \in 1..Len(t) : w[i] = t[i] /\ x[i] = t[i]
      /\ \A i \in 1..Len(q) : w[Len(t) + i] = q[i]
      /\ \A i \in 1..Len(Tail(q)) : x[Len(t) + i] = Tail(q)[i]
  BY <1>1
<1> HIDE DEF w, x
<1>3. ASSUME NEW i \in (Len(t) + 1)..Len(x) PROVE x[i] = w[i + 1]
  <2> DEFINE j == i - Len(t)
  <2>1. j \in 1..Len(Tail(q)) /\ i = Len(t) + j /\ j + 1 \in 1..Len(q)
        /\ i + 1 = Len(t) + (j + 1)
    BY <1>1, <1>2
  <2> HIDE DEF j
  <2> QED BY <1>1, <1>2, <2>1
<1>4. \A i \in 1..(Len(t) + 1 - 1) : i \in 1..Len(t) BY <1>1
<1>5. Drops(x, w, Len(t) + 1)
  <2>1. Len(w) \in Nat /\ Len(t) + 1 \in 1..Len(w) /\ Len(x) = Len(w) - 1
    BY <1>1, <1>2
  <2> QED BY <1>2, <1>3, <1>4, <2>1 DEF Drops
<1>6. w[Len(t) + 1] = Head(q)
  <2>1. 1 \in 1..Len(q) BY <1>1
  <2> QED BY <1>1, <1>2, <2>1
<1>7. \A i \in 1..Len(t) : t[i].type \notin {"Set", "Remap"} BY DEF Tasks
<1>8. OnlyTasks(w, Len(t) + 1 - 1) BY <1>2, <1>4, <1>7 DEF OnlyTasks
<1> QED BY <1>5, <1>6, <1>8 DEF w, x

\* The tasks change no entry's place.
LEMMA CarriedDomain ==
  ASSUME NEW b, NEW q, Len(q) \in Nat
  PROVE  DOMAIN Carried(b, q) = DOMAIN b
<1>1. PICK c : /\ c = [i \in 0..Len(q) |-> IF i = 0 THEN b ELSE Carry(c[i - 1], q[i])]
               /\ Carried(b, q) = c[Len(q)]
  BY CarriedDef
<1>2. c[0] = b BY <1>1
<1>3. ASSUME NEW i \in 0..Len(q), i # 0
      PROVE  DOMAIN c[i] = DOMAIN c[i - 1]
  <2>1. c[i] = Carry(c[i - 1], q[i]) BY <1>1, <1>3
  <2> QED BY <2>1 DEF Carry
<1> DEFINE Fails == {i \in 0..Len(q) : DOMAIN c[i] # DOMAIN b}
<1>4. Fails = {}
  <2> SUFFICES ASSUME Fails # {} PROVE FALSE
    OBVIOUS
  <2>1. PICK n \in Fails : \A k \in Fails : n <= k
    <3>1. Fails \subseteq Nat OBVIOUS
    <3> HIDE DEF Fails
    <3> QED BY <3>1, NatMin
  <2>2. n \in 0..Len(q) /\ n # 0 /\ DOMAIN c[n] # DOMAIN b BY <1>2
  <2>3. n - 1 \in 0..Len(q) /\ ~(n <= n - 1) BY <2>2
  <2>4. DOMAIN c[n - 1] = DOMAIN b BY <2>1, <2>3
  <2> QED BY <1>3, <2>2, <2>4
<1>5. Len(q) \in 0..Len(q) /\ ~(Len(q) \in Fails) BY <1>4
<1> QED BY <1>1, <1>5

\* A packet that is no task is received.
LEMMA TakeKeeps ==
  ASSUME AttributesAssumption, NEW x, NEW w, NEW k, Drops(x, w, k),
         OnlyTasks(w, k - 1), NEW p \in Packets, p = w[k], p.type \in {"Set", "Remap"},
         NEW e, EntryOK(e), NEW v
  PROVE  /\ Gone(v, w, e) => Gone(v, x, Received(e, p, v))
         /\ Fresh(w, e) => Fresh(x, Received(e, p, v))
         /\ \A m \in Models : \A at, ow, su :
               Fine(v, w, e, m, at, ow, su) => Fine(v, x, Received(e, p, v), m, at, ow, su)
<1>1. CASE p.vehicle # v
  <2>1. Received(e, p, v) = e /\ ~Unbinds(w[k], v)
    BY <1>1 DEF Received, Dresses, Remaps, Unbinds
  <2>2. \A m \in Models : \A at, ow, su :
           Fine(v, w, e, m, at, ow, su) => Fine(v, x, e, m, at, ow, su)
    BY <1>1, DropOtherFine
  <2>3. Gone(v, w, e) => Gone(v, x, e) BY <2>1, DropsGone
  <2> QED BY <2>1, <2>2, <2>3, DropsFresh
<1>2. CASE Dresses(w[k], v)
  <2>1. Received(e, p, v) = SetAttrs(e, w[k].attrs) BY <1>2 DEF Received
  <2>2. Gone(v, w, e) => Gone(v, x, Received(e, p, v)) BY <1>2, SetReceivedGone
  <2>3. k \in 1..Len(w) BY DEF Drops
  <2>4. ~Fresh(w, e) BY <1>2, <2>3 DEF Fresh, Dresses
  <2>5. \A m, at, ow, su :
           Fine(v, w, e, m, at, ow, su) => Fine(v, x, SetAttrs(e, w[k].attrs), m, at, ow, su)
    BY <1>2, SetReceivedFine
  <2> QED BY <2>1, <2>2, <2>4, <2>5
<1>3. CASE Remaps(w[k], v)
  <2>1. Received(e, p, v) = Remapped(e, w[k].value)
    BY <1>3 DEF Received, Dresses, Remaps
  <2>2. Gone(v, w, e) => Gone(v, x, Received(e, p, v)) BY <1>3, <2>1, RemapReceivedGone
  <2>3. Fresh(w, e) => Fresh(x, Received(e, p, v))
    <3>1. e = NoEntry => Remapped(e, w[k].value) = e BY DEF Remapped, NoEntry
    <3> QED BY <2>1, <3>1, DropsFresh DEF Fresh
  <2>4. \A m \in Models : \A at, ow, su :
           Fine(v, w, e, m, at, ow, su) => Fine(v, x, Remapped(e, w[k].value), m, at, ow, su)
    BY <1>3, RemapReceivedFine
  <2> QED BY <2>1, <2>2, <2>3, <2>4
<1> QED BY <1>1, <1>2, <1>3 DEF Dresses, Remaps

\* What Receive does.
LEMMA ReceiveIs ==
  ASSUME AttributesTypes, Receive
  PROVE  /\ toClient # <<>> /\ Head(toClient) \in Packets /\ toClient' = Tail(toClient)
         /\ DOMAIN bindings' = Vehicles
         /\ \A v \in Vehicles :
               bindings'[v] = Received(bindings[v], Head(toClient), v)
         /\ \/ Head(toClient) \in Tasks /\ mainQueue' = Append(mainQueue, Head(toClient))
            \/ Head(toClient).type \in {"Set", "Remap"} /\ mainQueue' = mainQueue
         /\ Head(toClient) \in Tasks => bindings' = bindings
         /\ UNCHANGED <<serverVars, clearAll>>
<1> DEFINE p == Head(toClient)
<1>1. toClient # <<>> /\ p \in Packets /\ toClient' = Tail(toClient)
      /\ UNCHANGED <<serverVars, clearAll>>
  BY DEF Receive, AttributesTypes
<1>2. CASE p.type \in {"Bind", "Unbind"}
  <2>1. mainQueue' = Append(mainQueue, p) /\ bindings' = bindings
    BY <1>2 DEF Receive
  <2>2. p \in Tasks BY <1>1, <1>2 DEF Packets
  <2>3. \A v \in Vehicles : Received(bindings[v], p, v) = bindings[v]
    BY <1>2 DEF Received, Dresses, Remaps
  <2> QED BY <1>1, <2>1, <2>2, <2>3 DEF AttributesTypes
<1>3. CASE p.type = "Set"
  <2>1. /\ bindings' = [bindings EXCEPT ![p.vehicle] = SetAttrs(@, p.attrs)]
        /\ mainQueue' = mainQueue
    BY <1>3 DEF Receive
  <2>2. p \notin Tasks BY <1>3 DEF Tasks
  <2>3. DOMAIN bindings = Vehicles BY DEF AttributesTypes
  <2>4. \A v \in Vehicles : bindings'[v] = Received(bindings[v], p, v)
    BY <1>3, <2>1, <2>3 DEF Received, Dresses, Remaps
  <2>5. DOMAIN bindings' = Vehicles BY <2>1, <2>3
  <2> QED BY <1>1, <1>3, <2>1, <2>2, <2>4, <2>5
<1>4. CASE p.type = "Remap"
  <2>1. /\ bindings' = [bindings EXCEPT ![p.vehicle] =
               IF @.present THEN SetAttrs(@, One("paintjob", p.value)) ELSE @]
        /\ mainQueue' = mainQueue
    BY <1>4 DEF Receive
  <2>2. p \notin Tasks BY <1>4 DEF Tasks
  <2>3. DOMAIN bindings = Vehicles BY DEF AttributesTypes
  <2>4. \A v \in Vehicles : bindings'[v] = Received(bindings[v], p, v)
    BY <1>4, <2>1, <2>3 DEF Received, Dresses, Remaps, Remapped
  <2>5. DOMAIN bindings' = Vehicles BY <2>1, <2>3
  <2> QED BY <1>1, <1>4, <2>1, <2>2, <2>4, <2>5
<1>5. p.type \in {"Bind", "Unbind", "Set", "Remap"} BY <1>1 DEF Packets, Tasks
<1> QED BY <1>2, <1>3, <1>4, <1>5

\* A step of the client: it is enough to follow what is pending and held.
LEMMA ClientStep ==
  ASSUME AttributesTypes', AttributesInv, UNCHANGED serverVars,
         clearAll' => clearAll,
         NEW v \in Vehicles,
         Fresh(Pending, Held(v)) => Fresh(Pending', Held(v)'),
         Gone(v, Pending, Held(v)) => Gone(v, Pending', Held(v)'),
         Fine(v, Pending, Held(v), bound[v], attr[v], own[v], v \in streamed) /\ bound[v] # Unset
            => Fine(v, Pending', Held(v)', bound[v], attr[v], own[v], v \in streamed)
  PROVE  Tells(v)'
<1>1. /\ bound' = bound /\ attr' = attr /\ own' = own /\ streamed' = streamed
      /\ authorized' = authorized
  BY DEF serverVars, registry
<1>2. Tells(v) BY DEF AttributesInv
<1> QED BY <1>1, <1>2 DEF Tells

\* A packet is received: a task waits, another one takes effect at once, and
\* neither takes back what the server has said since.
LEMMA ReceiveStep ==
  ASSUME AttributesAssumption, AttributesInv, Receive
  PROVE  AttributesInv'
<1>0. AttributesTypes /\ RegistryInv BY DEF AttributesInv
<1> DEFINE p == Head(toClient)
<1>1. /\ toClient # <<>> /\ p \in Packets /\ toClient' = Tail(toClient)
      /\ DOMAIN bindings' = Vehicles
      /\ \A v \in Vehicles : bindings'[v] = Received(bindings[v], p, v)
      /\ \/ p \in Tasks /\ mainQueue' = Append(mainQueue, p)
         \/ p.type \in {"Set", "Remap"} /\ mainQueue' = mainQueue
      /\ p \in Tasks => bindings' = bindings
      /\ UNCHANGED <<serverVars, clearAll>>
  BY <1>0, ReceiveIs
<1>2. /\ mainQueue \in Seq(Tasks) /\ toClient \in Seq(Packets)
      /\ \A v \in Vehicles : EntryOK(bindings[v])
  BY <1>0 DEF AttributesTypes
<1>3. AttributesTypes'
  <2>1. \A v \in Vehicles : EntryOK(bindings'[v]) BY <1>1, <1>2, ReceivedOK
  <2>2. mainQueue' \in Seq(Tasks)
    <3>1. CASE p \in Tasks /\ mainQueue' = Append(mainQueue, p) BY <1>2, <3>1
    <3>2. CASE mainQueue' = mainQueue BY <1>2, <3>2
    <3> QED BY <1>1, <3>1, <3>2
  <2>3. toClient' \in Seq(Packets) BY <1>1, <1>2
  <2> QED BY <1>0, <1>1, <2>1, <2>2, <2>3 DEF AttributesTypes, serverVars, registry
<1>4. RegistryInv' BY <1>0, <1>1 DEF RegistryInv, serverVars, registry
<1>5. ASSUME NEW v \in Vehicles PROVE Tells(v)'
  <2>0. bound[v] # Unset => bound[v] \in Models BY <1>0 DEF AttributesTypes
  <2>1. CASE clearAll
    <3>1. Pending = toClient /\ Pending' = Tail(toClient) /\ Held(v) = NoEntry
          /\ Held(v)' = NoEntry
      BY <1>1, <2>1 DEF Pending, Held
    <3>2. Drops(Tail(toClient), toClient, 1)
      <4>1. <<>> \in Seq(Tasks) /\ Len(<<>>) + 1 = 1
        OBVIOUS
      <4>2. <<>> \o toClient = toClient /\ <<>> \o Tail(toClient) = Tail(toClient)
        BY <1>1, <1>2
      <4>3. Drops(<<>> \o Tail(toClient), <<>> \o toClient, Len(<<>>) + 1)
        BY <1>1, <1>2, <4>1, TakenFrom
      <4> QED BY <4>1, <4>2, <4>3
    <3>3. (v \in streamed) = FALSE BY <1>0, <2>1 DEF RegistryInv
    <3>4. Fresh(Pending, Held(v)) => Fresh(Pending', Held(v)')
      BY <3>1, <3>2, DropsFresh
    <3>5. Gone(v, Pending, Held(v)) => Gone(v, Pending', Held(v)')
      BY <3>1, <3>2, HeadGone
    <3>6. Fine(v, Pending, Held(v), bound[v], attr[v], own[v], v \in streamed) /\ bound[v] # Unset
             => Fine(v, Pending', Held(v)', bound[v], attr[v], own[v], v \in streamed)
      <4> SUFFICES ASSUME Fine(v, toClient, NoEntry, bound[v], attr[v], own[v], FALSE),
                          bound[v] \in Models
                   PROVE  Fine(v, Tail(toClient), NoEntry, bound[v], attr[v], own[v], FALSE)
        BY <2>0, <3>1, <3>3
      <4> QED BY <3>2, LostFine
    <3> QED BY <1>1, <1>3, <3>4, <3>5, <3>6, ClientStep
  <2>2. CASE ~clearAll /\ p \in Tasks /\ mainQueue' = Append(mainQueue, p)
    <3>1. Held(v)' = Held(v) BY <1>1, <2>2 DEF Held
    <3>2. Append(mainQueue, p) \o Tail(toClient) = mainQueue \o toClient
      <4> DEFINE t == mainQueue
      <4> DEFINE q == toClient
      <4>1. t \in Seq(Packets) /\ q \in Seq(Packets) /\ q # <<>> BY <1>1, <1>2 DEF Packets
      <4> HIDE DEF t, q
      <4>2. Append(t, Head(q)) \o Tail(q) = t \o q BY <4>1
      <4> QED BY <4>2 DEF t, q
    <3>3. Pending' = Pending BY <1>1, <2>2, <3>2 DEF Pending
    <3> QED BY <1>1, <1>3, <3>1, <3>3, ClientStep
  <2>3. CASE ~clearAll /\ p.type \in {"Set", "Remap"} /\ mainQueue' = mainQueue
    <3> DEFINE w == mainQueue \o toClient
    <3> DEFINE x == mainQueue \o Tail(toClient)
    <3> DEFINE e == bindings[v]
    <3>1. /\ Pending = w /\ Pending' = x /\ Held(v) = e
          /\ Held(v)' = Received(e, p, v)
      BY <1>1, <2>3 DEF Pending, Held
    <3> DEFINE k == Len(mainQueue) + 1
    <3>2. Drops(x, w, k) /\ w[k] = p /\ OnlyTasks(w, k - 1)
      BY <1>1, <1>2, TakenFrom
    <3>3. EntryOK(e) BY <1>2
    <3> HIDE DEF w, x, e, k
    <3>4. /\ Gone(v, w, e) => Gone(v, x, Received(e, p, v))
          /\ Fresh(w, e) => Fresh(x, Received(e, p, v))
          /\ \A m \in Models : \A at, ow, su :
                Fine(v, w, e, m, at, ow, su) => Fine(v, x, Received(e, p, v), m, at, ow, su)
      BY <1>1, <2>3, <3>2, <3>3, TakeKeeps
    <3> QED BY <1>1, <1>3, <2>0, <3>1, <3>4, ClientStep
  <2> QED BY <1>1, <2>1, <2>2, <2>3
<1> QED BY <1>3, <1>4, <1>5 DEF AttributesInv

\* A frame carries out the tasks in their order, or drops them and every entry.
LEMMA FrameStep ==
  ASSUME AttributesAssumption, AttributesInv, Frame
  PROVE  AttributesInv'
<1>0. AttributesTypes /\ RegistryInv BY DEF AttributesInv
<1>1. /\ UNCHANGED <<serverVars, toClient>> /\ mainQueue' = <<>> /\ clearAll' = FALSE
      /\ bindings' = IF clearAll THEN [v \in Vehicles |-> NoEntry]
                     ELSE Carried(bindings, mainQueue)
  BY DEF Frame
<1>2. /\ mainQueue \in Seq(Tasks) /\ toClient \in Seq(Packets)
      /\ DOMAIN bindings = Vehicles /\ \A v \in Vehicles : EntryOK(bindings[v])
  BY <1>0 DEF AttributesTypes
<1>3. ASSUME NEW v \in Vehicles, ~clearAll
      PROVE  /\ DOMAIN Carried(bindings, mainQueue) = Vehicles
             /\ EntryOK(Carried(bindings, mainQueue)[v])
             /\ Gone(v, mainQueue \o toClient, bindings[v])
                   => Gone(v, toClient, Carried(bindings, mainQueue)[v])
             /\ Fresh(mainQueue \o toClient, bindings[v])
                   => Fresh(toClient, Carried(bindings, mainQueue)[v])
             /\ \A m \in Models : \A at, ow, su :
                   Fine(v, mainQueue \o toClient, bindings[v], m, at, ow, su) =>
                      Fine(v, toClient, Carried(bindings, mainQueue)[v], m, at, ow, su)
  BY <1>2, FrameKeeps
<1>4. DOMAIN bindings' = Vehicles /\ \A v \in Vehicles : EntryOK(bindings'[v])
  <2>1. EntryOK(NoEntry)
    BY DEF EntryOK, NoEntry, NoAttrs, Entries, AttributesAssumption, Clearable, Attrs
  <2>2. CASE clearAll BY <1>1, <2>1, <2>2
  <2>3. CASE ~clearAll
    <3>1. bindings' = Carried(bindings, mainQueue) BY <1>1, <2>3
    <3>2. DOMAIN Carried(bindings, mainQueue) = Vehicles
      <4>1. Len(mainQueue) \in Nat BY <1>2
      <4> QED BY <1>2, <4>1, CarriedDomain
    <3> QED BY <1>3, <2>3, <3>1, <3>2
  <2> QED BY <2>2, <2>3
<1>5. AttributesTypes'
  <2>1. mainQueue' \in Seq(Tasks) BY <1>1
  <2> QED BY <1>0, <1>1, <1>4, <2>1 DEF AttributesTypes, serverVars, registry
<1>6. RegistryInv' BY <1>0, <1>1 DEF RegistryInv, serverVars, registry
<1>7. ASSUME NEW v \in Vehicles PROVE Tells(v)'
  <2>0. bound[v] # Unset => bound[v] \in Models BY <1>0 DEF AttributesTypes
  <2>1. Pending' = toClient
    <3>1. <<>> \o toClient = toClient BY <1>2
    <3> QED BY <1>1, <3>1 DEF Pending
  <2>2. CASE clearAll
    <3>1. Pending = toClient /\ Held(v) = NoEntry /\ Held(v)' = NoEntry
      BY <1>1, <2>2 DEF Pending, Held
    <3> QED BY <1>1, <1>5, <2>1, <3>1, ClientStep
  <2>3. CASE ~clearAll
    <3> DEFINE w == mainQueue \o toClient
    <3> DEFINE e == bindings[v]
    <3> DEFINE e2 == Carried(bindings, mainQueue)[v]
    <3>1. Pending = w /\ Held(v) = e /\ Held(v)' = e2
      BY <1>1, <2>3 DEF Pending, Held
    <3>2. /\ Gone(v, w, e) => Gone(v, toClient, e2)
          /\ Fresh(w, e) => Fresh(toClient, e2)
          /\ \A m \in Models : \A at, ow, su :
                Fine(v, w, e, m, at, ow, su) => Fine(v, toClient, e2, m, at, ow, su)
      BY <1>3, <2>3
    <3> HIDE DEF w, e, e2
    <3> QED BY <1>1, <1>5, <2>0, <2>1, <3>1, <3>2, ClientStep
  <2> QED BY <2>2, <2>3
<1> QED BY <1>5, <1>6, <1>7 DEF AttributesInv

-----------------------------------------------------------------------------
(* The natives and events of the server.                                     *)

\* A native's change.
LEMMA OneIs ==
  ASSUME NEW a \in Attrs, NEW x \in Offered
  PROVE  One(a, x) \in Changes /\ DOMAIN One(a, x) = {a} /\ One(a, x)[a] = x
<1>1. One(a, x) \in [{a} -> Offered] /\ {a} \in SUBSET Attrs BY DEF One
<1> QED BY <1>1 DEF Changes, One

\* A native that tells every authorized player.
LEMMA BroadcastStep ==
  ASSUME AttributesAssumption, AttributesInv, NEW v \in Vehicles,
         NEW f \in Changes, SetAndBroadcast(v, f)
  PROVE  AttributesInv'
<1>1. (BindFirst => bound[v] # Unset) /\ (Careful => ~UnbindUnderWay(v))
  BY DEF SetAndBroadcast, Scripted, Careful
<1>2. /\ attr' = [attr EXCEPT ![v] = Written(attr[v], f)]
      /\ SendVehicle(<<SetMsg(v, f)>>) /\ OnlyAttributes /\ own' = own
  BY DEF SetAndBroadcast, SetInRegistry, Written, OnlyAttributes
<1>3. OwnTyped BY <1>2 DEF AttributesInv, AttributesTypes, OwnTyped
<1>4. OwnKept(own[v], own'[v], f) BY <1>2 DEF OwnKept
<1> QED BY <1>1, <1>2, <1>3, <1>4, SetSent

\* The same of the plate natives.
LEMMA PlateStep ==
  ASSUME AttributesAssumption, AttributesInv, NEW v \in Vehicles,
         NEW f \in Changes, "paintjob" \notin DOMAIN f, SetAndTellStreamed(v, f)
  PROVE  AttributesInv'
<1>1. (BindFirst => bound[v] # Unset) /\ (Careful => ~UnbindUnderWay(v))
  BY DEF SetAndTellStreamed, Scripted, Careful
<1>2. /\ attr' = [attr EXCEPT ![v] = Written(attr[v], f)]
      /\ OnlyAttributes /\ own' = own
      /\ IF v \in streamed THEN SendVehicle(<<SetMsg(v, f)>>) ELSE UNCHANGED toClient
  BY DEF SetAndTellStreamed, SetInRegistry, Written, OnlyAttributes
<1>3. OwnTyped BY <1>2 DEF AttributesInv, AttributesTypes, OwnTyped
<1>4. OwnKept(own[v], own'[v], f) BY <1>2 DEF OwnKept
<1>5. CASE v \in streamed BY <1>1, <1>2, <1>3, <1>4, <1>5, SetSent
<1>6. CASE v \notin streamed BY <1>1, <1>2, <1>6, SetUnseen
<1> QED BY <1>5, <1>6

\* The paintjob, which open.mp's vehicle is given, too.
LEMMA PaintjobStep ==
  ASSUME AttributesAssumption, AttributesInv, NEW v \in Vehicles,
         NEW x \in Offered, SetCustomVehiclePaintjob(v, x)
  PROVE  AttributesInv'
<1> DEFINE f == One("paintjob", x)
<1>0. f \in Changes /\ DOMAIN f = {"paintjob"}
  <2>1. "paintjob" \in Attrs BY DEF Attrs
  <2> QED BY <2>1, OneIs
<1>1. (BindFirst => bound[v] # Unset) /\ (Careful => ~UnbindUnderWay(v))
  BY DEF SetCustomVehiclePaintjob, Scripted, Careful
<1>2. /\ attr' = [attr EXCEPT ![v] = Written(attr[v], f)]
      /\ SendVehicle(<<SetMsg(v, f)>>) /\ OnlyAttributes
      /\ own' = [own EXCEPT ![v]["paintjob"] = IF x = Neutral THEN Unset ELSE x]
  BY DEF SetCustomVehiclePaintjob, SetInRegistry, Written, OnlyAttributes
<1> HIDE DEF f
<1>3. own \in [Vehicles -> [{"paintjob", "wheel"} -> Values \cup {Unset}]]
  BY DEF AttributesInv, AttributesTypes
<1>4. OwnTyped
  <2>1. (IF x = Neutral THEN Unset ELSE x) \in Values \cup {Unset} BY DEF Offered
  <2> QED BY <1>2, <1>3, <2>1 DEF OwnTyped
<1>5. /\ \A u \in Vehicles \ {v} : own'[u] = own[u]
      /\ own'[v]["wheel"] = own[v]["wheel"]
  BY <1>2, <1>3
<1>6. OwnKept(own[v], own'[v], f) BY <1>0, <1>5 DEF OwnKept
<1> QED BY <1>0, <1>1, <1>2, <1>4, <1>5, <1>6, SetSent

\* A player has a vehicle tuned in a shop.
LEMMA TuneStep ==
  ASSUME AttributesAssumption, AttributesInv, NEW v \in Vehicles,
         NEW a \in {"paintjob", "wheel"}, NEW x \in Values, PlayerTunes(v, a, x)
  PROVE  AttributesInv'
<1> DEFINE f == One(a, x)
<1>0. f \in Changes /\ DOMAIN f = {a}
  <2>1. a \in Attrs /\ x \in Offered BY DEF Attrs, Offered
  <2> QED BY <2>1, OneIs
<1>1. /\ own' = [own EXCEPT ![v][a] = x] /\ (Careful => ~UnbindUnderWay(v))
      /\ UNCHANGED <<exists, bound, modelAudio, streamed, authorized, clientVars>>
      /\ bound[v] # Unset =>
            /\ attr' = [attr EXCEPT ![v] = Written(attr[v], f)]
            /\ SendVehicle(<<SetMsg(v, f)>>)
      /\ bound[v] = Unset => UNCHANGED <<attr, toClient>>
  BY DEF PlayerTunes, SetInRegistry, Written, Careful
<1> HIDE DEF f
<1>2. AttributesTypes /\ RegistryInv BY DEF AttributesInv
<1>3. own \in [Vehicles -> [{"paintjob", "wheel"} -> Values \cup {Unset}]]
  BY <1>2 DEF AttributesTypes
<1>4. OwnTyped BY <1>1, <1>3 DEF OwnTyped
<1>5. /\ \A u \in Vehicles \ {v} : own'[u] = own[u]
      /\ \A b \in {"paintjob", "wheel"} \ {a} : own'[v][b] = own[v][b]
  BY <1>1, <1>3
<1>6. CASE bound[v] # Unset
  <2>1. OwnKept(own[v], own'[v], f) BY <1>0, <1>5 DEF OwnKept
  <2>2. OnlyAttributes BY <1>1 DEF OnlyAttributes
  <2> QED BY <1>0, <1>1, <1>4, <1>5, <1>6, <2>1, <2>2, SetSent
<1>7. CASE bound[v] = Unset
  <2>1. UNCHANGED <<bound, attr, authorized, clientVars, toClient>> BY <1>1, <1>7
  <2>2. /\ modelAudio' \in [Models -> [ModelAudio -> Values \cup {Unset}]]
        /\ exists' \subseteq Vehicles /\ streamed' \subseteq exists'
        /\ streamed' \subseteq streamed /\ \A u \in Vehicles \ exists' : bound[u] = Unset
    BY <1>1, <1>2 DEF AttributesTypes, RegistryInv
  <2>3. \A u \in Vehicles : own'[u] = own[u] \/ bound[u] = Unset BY <1>5, <1>7
  <2> QED BY <1>4, <2>1, <2>2, <2>3, QuietStep
<1> QED BY <1>6, <1>7

\* Open.mp's paintjob of a vehicle out of sight, and its wheels.
LEMMA LegacyStep ==
  ASSUME AttributesAssumption, AttributesInv, NEW v \in Vehicles, NEW x \in Values,
         \/ ChangeVehiclePaintjob(v, x)
         \/ AddVehicleComponent(v, x)
  PROVE  AttributesInv'
<1>0. AttributesTypes /\ RegistryInv BY DEF AttributesInv
<1>1. own \in [Vehicles -> [{"paintjob", "wheel"} -> Values \cup {Unset}]]
  BY <1>0 DEF AttributesTypes
<1>2. x # Neutral /\ x # Unset BY DEF AttributesAssumption
<1>3. "paintjob" \in Clearable /\ "wheel" \in Clearable BY DEF Clearable
<1>4. CASE ChangeVehiclePaintjob(v, x) /\ v \in streamed
  BY <1>4, RemapStep
<1>5. CASE ChangeVehiclePaintjob(v, x) /\ v \notin streamed
  <2>1. /\ UNCHANGED <<exists, bound, attr, modelAudio, streamed, authorized, clientVars, toClient>>
        /\ own' = [own EXCEPT ![v]["paintjob"] = x]
    BY <1>5 DEF ChangeVehiclePaintjob, registry
  <2>2. /\ OwnTyped /\ own'[v]["paintjob"] = x /\ own'[v]["wheel"] = own[v]["wheel"]
        /\ \A u \in Vehicles \ {v} : own'[u] = own[u]
    BY <1>1, <2>1 DEF OwnTyped
  <2> DEFINE m == bound[v]
  <2> DEFINE at == attr[v]
  <2> DEFINE ow == own[v]
  <2> DEFINE ow2 == own'[v]
  <2>3. ow2["paintjob"] = x /\ ow2["wheel"] = ow["wheel"] /\ v \notin streamed'
    BY <1>5, <2>1, <2>2
  <2> HIDE DEF m, at, ow, ow2
  <2>4. ASSUME NEW a \in Attrs
        PROVE  \/ /\ Allowed(m, at, ow2, a) = Allowed(m, at, ow, a)
                  /\ InSync(m, at, ow, a) => InSync(m, at, ow2, a)
               \/ v \notin streamed' /\ InSync(m, at, ow2, a)
               \/ /\ a \in Clearable
                  /\ Values \cup {Unset} \subseteq Allowed(m, at, ow2, a)
    <3>1. CASE a # "paintjob"
      <4>1. Allowed(m, at, ow2, a) = Allowed(m, at, ow, a)
        BY <3>1 DEF Allowed, ToldOf
      <4>2. EffectiveOf(m, at, ow2, a) = EffectiveOf(m, at, ow, a)
        <5>1. CASE at[a] # Unset BY <5>1 DEF EffectiveOf
        <5>2. CASE at[a] = Unset /\ a = "wheel"
          BY <2>3, <5>2 DEF EffectiveOf, OffsetParts
        <5>3. CASE at[a] = Unset /\ a # "wheel"
          BY <3>1, <5>3 DEF EffectiveOf, OffsetParts
        <5> QED BY <5>1, <5>2, <5>3
      <4> QED BY <4>1, <4>2 DEF InSync
    <3>2. CASE a = "paintjob" /\ at[a] = Unset
      <4>1. EffectiveOf(m, at, ow2, a) = x BY <2>3, <3>2 DEF EffectiveOf, OffsetParts
      <4> QED BY <1>2, <2>3, <4>1 DEF InSync
    <3>3. CASE a = "paintjob" /\ at[a] \notin {Unset, Neutral}
      <4>1. EffectiveOf(m, at, ow2, a) = at[a] BY <3>3 DEF EffectiveOf
      <4> QED BY <2>3, <3>3, <4>1 DEF InSync
    <3>4. CASE a = "paintjob" /\ at[a] = Neutral
      <4>1. ToldOf(at, ow2, a) = Neutral /\ Neutral # Unset
        BY <3>4 DEF ToldOf, OrElse, AttributesAssumption
      <4>2. Kept(a, Neutral) = Unset BY <1>3, <3>4 DEF Kept
      <4>3. Values \cup {Unset} \subseteq Allowed(m, at, ow2, a)
        BY <1>2, <2>3, <3>4, <4>1, <4>2 DEF Allowed
      <4> QED BY <1>3, <3>4, <4>3
    <3> QED BY <3>1, <3>2, <3>3, <3>4
  <2>5. \A u \in Vehicles : \/ own'[u] = own[u] \/ bound[u] = Unset
           \/ \A a \in Attrs :
                 \/ /\ Allowed(bound[u], attr[u], own'[u], a)
                          = Allowed(bound[u], attr[u], own[u], a)
                    /\ InSync(bound[u], attr[u], own[u], a)
                          => InSync(bound[u], attr[u], own'[u], a)
                 \/ u \notin streamed' /\ InSync(bound[u], attr[u], own'[u], a)
                 \/ /\ a \in Clearable
                    /\ Values \cup {Unset} \subseteq Allowed(bound[u], attr[u], own'[u], a)
    BY <2>2, <2>4 DEF m, at, ow, ow2
  <2>6. /\ modelAudio' \in [Models -> [ModelAudio -> Values \cup {Unset}]]
        /\ exists' \subseteq Vehicles /\ streamed' \subseteq exists'
        /\ streamed' \subseteq streamed /\ \A u \in Vehicles \ exists' : bound[u] = Unset
    BY <1>0, <2>1 DEF AttributesTypes, RegistryInv
  <2> QED BY <2>1, <2>2, <2>5, <2>6, QuietStep
<1>6. CASE AddVehicleComponent(v, x)
  <2>1. /\ UNCHANGED <<exists, bound, attr, modelAudio, streamed, authorized, clientVars, toClient>>
        /\ own' = [own EXCEPT ![v]["wheel"] = x]
    BY <1>6 DEF AddVehicleComponent, registry
  <2>2. /\ OwnTyped /\ own'[v]["wheel"] = x /\ own'[v]["paintjob"] = own[v]["paintjob"]
        /\ \A u \in Vehicles \ {v} : own'[u] = own[u]
    BY <1>1, <2>1 DEF OwnTyped
  <2> DEFINE m == bound[v]
  <2> DEFINE at == attr[v]
  <2> DEFINE ow == own[v]
  <2> DEFINE ow2 == own'[v]
  <2>3. ow2["wheel"] = x /\ ow2["paintjob"] = ow["paintjob"] BY <2>2
  <2> HIDE DEF m, at, ow, ow2
  <2>4. ASSUME NEW a \in Attrs
        PROVE  \/ /\ Allowed(m, at, ow2, a) = Allowed(m, at, ow, a)
                  /\ InSync(m, at, ow, a) => InSync(m, at, ow2, a)
               \/ /\ a \in Clearable
                  /\ Values \cup {Unset} \subseteq Allowed(m, at, ow2, a)
    <3>1. CASE a = "paintjob"
      <4>1. Allowed(m, at, ow2, "paintjob") = Allowed(m, at, ow, "paintjob")
        BY <2>3 DEF Allowed, ToldOf
      <4>2. EffectiveOf(m, at, ow2, "paintjob") = EffectiveOf(m, at, ow, "paintjob")
        BY <2>3 DEF EffectiveOf, OffsetParts
      <4> QED BY <3>1, <4>1, <4>2 DEF InSync
    <3>2. CASE a # "paintjob" /\ (a # "wheel" \/ at[a] # Unset)
      <4>1. Allowed(m, at, ow2, a) = Allowed(m, at, ow, a)
        BY <3>2 DEF Allowed, ToldOf
      <4>2. EffectiveOf(m, at, ow2, a) = EffectiveOf(m, at, ow, a)
        <5>1. CASE at[a] # Unset BY <5>1 DEF EffectiveOf
        <5>2. CASE at[a] = Unset
          BY <3>2, <5>2 DEF EffectiveOf, OffsetParts
        <5> QED BY <5>1, <5>2
      <4> QED BY <4>1, <4>2 DEF InSync
    <3>3. CASE a = "wheel" /\ at[a] = Unset
      <4>1. Values \cup {Unset} \subseteq Allowed(m, at, ow2, a)
        BY <3>3 DEF Allowed, ToldOf
      <4> QED BY <1>3, <3>3, <4>1
    <3> QED BY <3>1, <3>2, <3>3
  <2>5. \A u \in Vehicles : \/ own'[u] = own[u] \/ bound[u] = Unset
           \/ \A a \in Attrs :
                 \/ /\ Allowed(bound[u], attr[u], own'[u], a)
                          = Allowed(bound[u], attr[u], own[u], a)
                    /\ InSync(bound[u], attr[u], own[u], a)
                          => InSync(bound[u], attr[u], own'[u], a)
                 \/ u \notin streamed' /\ InSync(bound[u], attr[u], own'[u], a)
                 \/ /\ a \in Clearable
                    /\ Values \cup {Unset} \subseteq Allowed(bound[u], attr[u], own'[u], a)
    BY <2>2, <2>4 DEF m, at, ow, ow2
  <2>6. /\ modelAudio' \in [Models -> [ModelAudio -> Values \cup {Unset}]]
        /\ exists' \subseteq Vehicles /\ streamed' \subseteq exists'
        /\ streamed' \subseteq streamed /\ \A u \in Vehicles \ exists' : bound[u] = Unset
    BY <1>0, <2>1 DEF AttributesTypes, RegistryInv
  <2> QED BY <2>1, <2>2, <2>5, <2>6, QuietStep
<1> QED BY <1>4, <1>5, <1>6

\* Every native that sets an attribute.
LEMMA SetAttributeStep ==
  ASSUME AttributesAssumption, AttributesInv, NEW v \in Vehicles,
         NEW x \in Given \cup {Neutral}, SetAttribute(v, x)
  PROVE  AttributesInv'
<1>1. x \in Offered /\ Given \subseteq Offered /\ Neutral \in Offered
  BY DEF Offered, AttributesAssumption
<1>2. ASSUME NEW a \in Attrs
      PROVE  One(a, x) \in Changes /\ DOMAIN One(a, x) = {a}
  BY <1>1, OneIs
<1>3. \A a \in {"stance", "extras", "neon", "windowTint", "wheelColor", "backfire", "horn",
                "siren", "lights", "wheel"} :
         SetAndBroadcast(v, One(a, x)) => AttributesInv'
  <2>1. ASSUME NEW a \in Attrs, SetAndBroadcast(v, One(a, x)) PROVE AttributesInv'
    BY <1>2, <2>1, BroadcastStep
  <2> QED BY <2>1 DEF Attrs
<1>4. \A a \in {"plate", "frontPlateMesh", "rearPlateMesh", "plateTexture"} :
         SetAndTellStreamed(v, One(a, x)) => AttributesInv'
  <2>1. ASSUME NEW a \in Attrs, a # "paintjob", SetAndTellStreamed(v, One(a, x))
        PROVE  AttributesInv'
    BY <1>2, <2>1, PlateStep
  <2> QED BY <2>1 DEF Attrs
<1>5. SetCustomVehiclePaintjob(v, x) => AttributesInv' BY <1>1, PaintjobStep
<1>6. ASSUME NEW y \in Offered, NEW z \in Offered, SetCustomVehicleOffsets(v, y, z)
      PROVE  AttributesInv'
  <2> DEFINE f == [a \in OffsetParts |-> IF a = "wheelOffsets" THEN y ELSE z]
  <2>1. f \in [OffsetParts -> Offered] /\ OffsetParts \in SUBSET Attrs
    BY DEF OffsetParts, Attrs
  <2>2. f \in Changes BY <2>1 DEF Changes
  <2>3. SetAndBroadcast(v, f) BY <1>6 DEF SetCustomVehicleOffsets
  <2> HIDE DEF f
  <2> QED BY <2>2, <2>3, BroadcastStep
<1>7. \A a \in Attrs : OrElse(attr[v][a], Neutral) \in Offered
  BY <1>1 DEF AttributesInv, AttributesTypes, OrElse
<1>8. "wheelOffsets" \in Attrs /\ "chassisOffset" \in Attrs BY DEF Attrs
<1>9. CASE SetCustomVehicleStance(v, x) BY <1>3, <1>9 DEF SetCustomVehicleStance
<1>10. CASE SetCustomVehicleExtras(v, x) BY <1>3, <1>10 DEF SetCustomVehicleExtras
<1>11. CASE SetCustomVehicleNeon(v, x) BY <1>3, <1>11 DEF SetCustomVehicleNeon
<1>12. CASE SetCustomVehicleWindowTint(v, x)
  BY <1>3, <1>12 DEF SetCustomVehicleWindowTint
<1>13. CASE SetCustomVehicleWheelColor(v, x)
  BY <1>3, <1>13 DEF SetCustomVehicleWheelColor
<1>14. CASE SetCustomVehicleBackfire(v, x) BY <1>3, <1>14 DEF SetCustomVehicleBackfire
<1>15. CASE SetCustomVehicleHorn(v, x) BY <1>3, <1>15 DEF SetCustomVehicleHorn
<1>16. CASE SetCustomVehicleSiren(v, x) BY <1>3, <1>16 DEF SetCustomVehicleSiren
<1>17. CASE SetCustomVehicleLighting(v, x) BY <1>3, <1>17 DEF SetCustomVehicleLighting
<1>18. CASE SetCustomVehicleWheel(v, x) BY <1>3, <1>18 DEF SetCustomVehicleWheel
<1>19. CASE SetCustomVehicleNumberPlate(v, x)
  BY <1>4, <1>19 DEF SetCustomVehicleNumberPlate
<1>20. CASE SetCustomVehiclePlateMesh(v, x)
  BY <1>4, <1>20 DEF SetCustomVehiclePlateMesh
<1>21. CASE SetCustomVehiclePlateTexture(v, x)
  BY <1>4, <1>21 DEF SetCustomVehiclePlateTexture
<1>22. CASE \E y \in Given : SetCustomVehicleOffsets(v, x, y) BY <1>1, <1>6, <1>22
<1>23. CASE SetCustomVehicleWheelOffsets(v, x)
  BY <1>1, <1>6, <1>7, <1>8, <1>23 DEF SetCustomVehicleWheelOffsets
<1>24. CASE SetCustomVehicleChassisOffset(v, x)
  BY <1>1, <1>6, <1>7, <1>8, <1>24 DEF SetCustomVehicleChassisOffset
<1> QED
  BY <1>5, <1>9, <1>10, <1>11, <1>12, <1>13, <1>14, <1>15, <1>16, <1>17, <1>18, <1>19,
     <1>20, <1>21, <1>22, <1>23, <1>24 DEF SetAttribute

\* Vehicles that are made, stream out or stay as they are: nothing is told.
LEMMA UntoldStep ==
  ASSUME AttributesAssumption, AttributesInv,
         \/ \E v \in Vehicles : Create(v)
         \/ \E v \in Vehicles : StreamOut(v)
         \/ \E v \in Vehicles : OnDestroyVehicle(v) /\ bound[v] = Unset
         \/ \E m \in Models, a \in ModelAudio, x \in Values : SetModelAudio(m, a, x)
         \/ UNCHANGED attributesVars
  PROVE  AttributesInv'
<1>0. AttributesTypes /\ RegistryInv BY DEF AttributesInv
<1>1. own \in [Vehicles -> [{"paintjob", "wheel"} -> Values \cup {Unset}]]
  BY <1>0 DEF AttributesTypes
<1>2. CASE \E v \in Vehicles : Create(v)
  <2>1. PICK v \in Vehicles : Create(v) BY <1>2
  <2>2. /\ UNCHANGED <<bound, attr, modelAudio, streamed, authorized, clientVars, toClient>>
        /\ exists' = exists \cup {v} /\ own' = [own EXCEPT ![v] = NoOwn] /\ v \notin exists
    BY <2>1 DEF Create, registry
  <2>3. OwnTyped BY <1>1, <2>2 DEF OwnTyped, NoOwn
  <2>4. \A u \in Vehicles : own'[u] = own[u] \/ bound[u] = Unset
    BY <1>0, <1>1, <2>2 DEF RegistryInv
  <2>5. /\ modelAudio' \in [Models -> [ModelAudio -> Values \cup {Unset}]]
        /\ exists' \subseteq Vehicles /\ streamed' \subseteq exists'
        /\ streamed' \subseteq streamed /\ \A u \in Vehicles \ exists' : bound[u] = Unset
    BY <1>0, <2>2 DEF AttributesTypes, RegistryInv
  <2> QED BY <2>2, <2>3, <2>4, <2>5, QuietStep
<1>3. CASE \E v \in Vehicles : StreamOut(v)
  <2>1. PICK v \in Vehicles : StreamOut(v) BY <1>3
  <2>2. /\ UNCHANGED <<exists, bound, attr, modelAudio, own, authorized, clientVars, toClient>>
        /\ streamed' = streamed \ {v}
    BY <2>1 DEF StreamOut, registry
  <2>3. OwnTyped /\ \A u \in Vehicles : own'[u] = own[u] BY <1>1, <2>2 DEF OwnTyped
  <2>4. /\ modelAudio' \in [Models -> [ModelAudio -> Values \cup {Unset}]]
        /\ exists' \subseteq Vehicles /\ streamed' \subseteq exists'
        /\ streamed' \subseteq streamed /\ \A u \in Vehicles \ exists' : bound[u] = Unset
    BY <1>0, <2>2 DEF AttributesTypes, RegistryInv
  <2> QED BY <2>2, <2>3, <2>4, QuietStep
<1>4. CASE \E v \in Vehicles : OnDestroyVehicle(v) /\ bound[v] = Unset
  <2>1. PICK v \in Vehicles : OnDestroyVehicle(v) /\ bound[v] = Unset BY <1>4
  <2>2. /\ UNCHANGED <<bound, attr, modelAudio, own, authorized, clientVars, toClient>>
        /\ exists' = exists \ {v} /\ streamed' = streamed \ {v}
    BY <2>1 DEF OnDestroyVehicle
  <2>3. OwnTyped /\ \A u \in Vehicles : own'[u] = own[u] BY <1>1, <2>2 DEF OwnTyped
  <2>4. /\ modelAudio' \in [Models -> [ModelAudio -> Values \cup {Unset}]]
        /\ exists' \subseteq Vehicles /\ streamed' \subseteq exists'
        /\ streamed' \subseteq streamed /\ \A u \in Vehicles \ exists' : bound[u] = Unset
    BY <1>0, <2>1, <2>2 DEF AttributesTypes, RegistryInv
  <2> QED BY <2>2, <2>3, <2>4, QuietStep
<1>5. CASE \E m \in Models, a \in ModelAudio, x \in Values : SetModelAudio(m, a, x)
  <2>1. PICK m \in Models, a \in ModelAudio, x \in Values : SetModelAudio(m, a, x) BY <1>5
  <2>2. /\ UNCHANGED <<exists, bound, attr, own, streamed, authorized, clientVars, toClient>>
        /\ modelAudio' = [modelAudio EXCEPT ![m][a] = x]
    BY <2>1 DEF SetModelAudio
  <2>3. OwnTyped /\ \A u \in Vehicles : own'[u] = own[u] BY <1>1, <2>2 DEF OwnTyped
  <2>4. /\ modelAudio' \in [Models -> [ModelAudio -> Values \cup {Unset}]]
        /\ exists' \subseteq Vehicles /\ streamed' \subseteq exists'
        /\ streamed' \subseteq streamed /\ \A u \in Vehicles \ exists' : bound[u] = Unset
    BY <1>0, <2>2 DEF AttributesTypes, RegistryInv
  <2> QED BY <2>2, <2>3, <2>4, QuietStep
<1>6. CASE UNCHANGED attributesVars
  <2>1. UNCHANGED <<exists, bound, attr, modelAudio, own, streamed, authorized, clientVars,
                    toClient>>
    BY <1>6 DEF attributesVars, serverVars, registry
  <2>2. OwnTyped /\ \A u \in Vehicles : own'[u] = own[u] BY <1>1, <2>1 DEF OwnTyped
  <2>3. /\ modelAudio' \in [Models -> [ModelAudio -> Values \cup {Unset}]]
        /\ exists' \subseteq Vehicles /\ streamed' \subseteq exists'
        /\ streamed' \subseteq streamed /\ \A u \in Vehicles \ exists' : bound[u] = Unset
    BY <1>0, <2>1 DEF AttributesTypes, RegistryInv
  <2> QED BY <2>1, <2>2, <2>3, QuietStep
<1> QED BY <1>2, <1>3, <1>4, <1>5, <1>6

\* Whatever a script or a player does.
LEMMA NativesStep ==
  ASSUME AttributesAssumption, AttributesInv, Natives
  PROVE  AttributesInv'
<1>0. AttributesTypes /\ RegistryInv BY DEF AttributesInv
<1>1. PICK v \in Vehicles :
       \/ Create(v)
       \/ OnDestroyVehicle(v)
       \/ \E m \in Models : BindCustomVehicle(v, m)
       \/ UnbindCustomVehicle(v)
       \/ \E x \in Given \cup {Neutral} : SetAttribute(v, x)
       \/ \E x \in Given : \/ onVehiclePaintJob(v, x)
                            \/ onVehicleMod(v, x)
                            \/ ChangeVehiclePaintjob(v, x)
                            \/ AddVehicleComponent(v, x)
  BY DEF Natives
<1>2. Given \subseteq Values BY DEF AttributesAssumption
<1>3. CASE Create(v) BY <1>3, UntoldStep
<1>4. CASE OnDestroyVehicle(v) /\ bound[v] = Unset BY <1>4, UntoldStep
<1>5. CASE OnDestroyVehicle(v) /\ bound[v] # Unset
  <2>1. /\ RegistryUnbind(v) /\ SendVehicle(<<UnbindMsg(v)>>)
        /\ UNCHANGED <<modelAudio, own, authorized, clientVars>>
        /\ exists' = exists \ {v} /\ streamed' = streamed \ {v}
    BY <1>5 DEF OnDestroyVehicle
  <2>2. streamed \subseteq exists BY <1>0 DEF AttributesTypes
  <2>3. /\ exists' \subseteq exists /\ exists \ {v} \subseteq exists'
        /\ streamed' \subseteq streamed /\ streamed' \subseteq exists'
    BY <2>1, <2>2
  <2> QED BY <2>1, <2>3, UnbindStep
<1>6. CASE \E m \in Models : BindCustomVehicle(v, m) BY <1>6, BindStep
<1>7. CASE UnbindCustomVehicle(v)
  <2>1. /\ RegistryUnbind(v) /\ SendVehicle(<<UnbindMsg(v)>>)
        /\ UNCHANGED <<modelAudio, own, authorized, clientVars>>
        /\ exists' = exists /\ streamed' = streamed
    BY <1>7 DEF UnbindCustomVehicle
  <2>2. streamed \subseteq exists BY <1>0 DEF AttributesTypes
  <2> QED BY <2>1, <2>2, UnbindStep
<1>8. CASE \E x \in Given \cup {Neutral} : SetAttribute(v, x) BY <1>8, SetAttributeStep
<1>9. CASE \E x \in Given : onVehiclePaintJob(v, x)
  BY <1>2, <1>9, TuneStep DEF onVehiclePaintJob
<1>10. CASE \E x \in Given : onVehicleMod(v, x)
  BY <1>2, <1>10, TuneStep DEF onVehicleMod
<1>11. CASE \E x \in Given : ChangeVehiclePaintjob(v, x) \/ AddVehicleComponent(v, x)
  BY <1>2, <1>11, LegacyStep
<1> QED
  BY <1>1, <1>3, <1>4, <1>5, <1>6, <1>7, <1>8, <1>9, <1>10, <1>11

\* What a client knows and is going to hear of a vehicle ends in what the
\* registry has, whatever is under way.
LEMMA AttributesInvariant ==
  ASSUME AttributesAssumption
  PROVE  AttributesSpec => []AttributesInv
<1>1. ASSUME AttributesInit PROVE AttributesInv
  <2>1. EntryOK(NoEntry)
    BY DEF EntryOK, NoEntry, NoAttrs, Entries, AttributesAssumption, Clearable, Attrs
  <2>2. AttributesTypes
    <3>1. /\ exists = {} /\ streamed = {} /\ authorized = FALSE /\ clearAll = FALSE
          /\ mainQueue = <<>> /\ toClient = <<>>
          /\ DOMAIN bindings = Vehicles /\ \A v \in Vehicles : bindings[v] = NoEntry
      BY <1>1 DEF AttributesInit
    <3>2. bound \in [Vehicles -> Models \cup {Unset}] BY <1>1 DEF AttributesInit
    <3>3. attr \in [Vehicles -> [Attrs -> Offered \cup {Unset}]]
      BY <1>1 DEF AttributesInit, NoAttrs
    <3>4. modelAudio \in [Models -> [ModelAudio -> Values \cup {Unset}]]
      BY <1>1 DEF AttributesInit
    <3>5. own \in [Vehicles -> [{"paintjob", "wheel"} -> Values \cup {Unset}]]
      BY <1>1 DEF AttributesInit, NoOwn
    <3>6. DOMAIN bindings = Vehicles /\ \A v \in Vehicles : EntryOK(bindings[v])
      BY <2>1, <3>1
    <3>7. mainQueue \in Seq(Tasks) /\ toClient \in Seq(Packets) BY <3>1
    <3>8. /\ exists \subseteq Vehicles /\ streamed \subseteq exists
          /\ authorized \in BOOLEAN /\ clearAll \in BOOLEAN
      BY <3>1
    <3> QED BY <3>2, <3>3, <3>4, <3>5, <3>6, <3>7, <3>8 DEF AttributesTypes
  <2>3. RegistryInv BY <1>1 DEF AttributesInit, RegistryInv
  <2>4. ASSUME NEW v \in Vehicles PROVE Tells(v)
    <3>1. Pending = <<>> /\ Held(v) = NoEntry /\ authorized = FALSE
      BY <1>1 DEF AttributesInit, Pending, Held
    <3>2. Fresh(<<>>, NoEntry) BY DEF Fresh
    <3> QED BY <3>1, <3>2 DEF Tells
  <2> QED BY <2>2, <2>3, <2>4 DEF AttributesInv
<1>2. ASSUME AttributesInv, [AttributesNext]_attributesVars PROVE AttributesInv'
  <2>0. AttributesTypes /\ RegistryInv BY <1>2 DEF AttributesInv
  <2>1. CASE Natives BY <1>2, <2>1, NativesStep
  <2>2. CASE \E m \in Models, x \in Given : \/ SetCustomVehicleModelHorn(m, x)
                                            \/ SetCustomVehicleModelSiren(m, x)
    <3>1. Given \subseteq Values /\ "horn" \in ModelAudio /\ "siren" \in ModelAudio
      BY DEF AttributesAssumption, ModelAudio
    <3>2. \E m \in Models, a \in ModelAudio, x \in Values : SetModelAudio(m, a, x)
      BY <2>2, <3>1 DEF SetCustomVehicleModelHorn, SetCustomVehicleModelSiren
    <3> QED BY <1>2, <3>2, UntoldStep
  <2>3. CASE \E v \in Vehicles : onVehicleStreamIn(v)
    <3>1. PICK v \in Vehicles : onVehicleStreamIn(v) BY <2>3
    <3>2. /\ v \in exists /\ ~clearAll /\ streamed' = streamed \cup {v}
          /\ SendVehicle(SyncCustomVehicleToPlayer(v))
          /\ UNCHANGED <<exists, registry, own, authorized, clientVars>>
      BY <3>1 DEF onVehicleStreamIn
    <3> QED BY <1>2, <3>2, SyncStep
  <2>4. CASE \E v \in Vehicles : StreamOut(v) BY <1>2, <2>4, UntoldStep
  <2>5. CASE \E v \in Vehicles : onPlayerEnterVehicle(v)
    <3>1. PICK v \in Vehicles : onPlayerEnterVehicle(v) BY <2>5
    <3>2. /\ v \in streamed /\ streamed' = streamed
          /\ SendVehicle(SyncCustomVehicleToPlayer(v))
          /\ UNCHANGED <<exists, registry, own, authorized, clientVars>>
      BY <3>1 DEF onPlayerEnterVehicle, serverVars
    <3>3. streamed \subseteq exists /\ ~clearAll
      BY <2>0, <3>2 DEF AttributesTypes, RegistryInv
    <3>4. v \in exists /\ streamed' = streamed \cup {v} BY <3>2, <3>3
    <3> QED BY <1>2, <3>2, <3>3, <3>4, SyncStep
  <2>6. CASE onPlayerSpawn BY <1>2, <2>6, SpawnStep
  <2>7. CASE OnPlayerAuthorized BY <1>2, <2>7, AuthorizedStep
  <2>8. CASE Rejoin BY <1>2, <2>8, RejoinStep
  <2>9. CASE Receive BY <1>2, <2>9, ReceiveStep
  <2>10. CASE Frame BY <1>2, <2>10, FrameStep
  <2>11. CASE UNCHANGED attributesVars BY <1>2, <2>11, UntoldStep
  <2> QED
    BY <1>2, <2>1, <2>2, <2>3, <2>4, <2>5, <2>6, <2>7, <2>8, <2>9, <2>10, <2>11
    DEF AttributesNext
<1> QED BY <1>1, <1>2, PTL DEF AttributesSpec

\* Every variable has its type, whatever scripts and players do; an entry of
\* m_bindings that is not there holds nothing.
THEOREM AttributesTypeCorrect ==
  ASSUME AttributesAssumption
  PROVE  AttributesSpec => []AttributesTypeOK
<1>1. ASSUME AttributesInv PROVE AttributesTypeOK
  <2>1. AttributesTypes BY <1>1 DEF AttributesInv
  <2>2. Offered \cup {Unset} = Values \cup {Neutral, Unset} BY DEF Offered
  <2>3. ASSUME NEW v \in Vehicles
        PROVE  /\ bindings[v].model \in Models \cup {Unset}
               /\ bindings[v].present \in BOOLEAN
               /\ bindings[v].attr \in [Attrs -> Values \cup {Neutral, Unset}]
               /\ ~bindings[v].present => bindings[v] = NoEntry
    BY <2>1, <2>2 DEF AttributesTypes, EntryOK, Entries
  <2>4. ASSUME NEW i \in 1..Len(mainQueue)
        PROVE  /\ mainQueue[i].type \in {"Bind", "Unbind"}
               /\ mainQueue[i].vehicle \in Vehicles
               /\ mainQueue[i].type = "Bind" => mainQueue[i].model \in Models
    <3>1. mainQueue[i] \in Tasks BY <2>1 DEF AttributesTypes
    <3> QED BY <3>1 DEF Tasks
  <2> QED BY <2>1, <2>2, <2>3, <2>4 DEF AttributesTypes, AttributesTypeOK
<1> QED BY <1>1, AttributesInvariant, PTL

\* Nothing is pending at rest.
LEMMA RestIs ==
  ASSUME AttributesInv, AtRest, NEW v \in Vehicles
  PROVE  Pending = <<>> /\ Held(v) = bindings[v] /\ authorized
BY DEF AtRest, Pending, Held

\* What the getters tell of a vehicle there is.
LEMMA AllowedIs ==
  ASSUME NEW v \in exists, NEW a \in Attrs
  PROVE  Agreed(v, a) = Allowed(bound[v], attr[v], own[v], a)
<1>1. Told(v, a) = ToldOf(attr[v], own[v], a)
  <2>1. Registered(v, a) = attr[v][a] /\ \A b : Registered(v, b) = attr[v][b]
    BY DEF Registered
  <2>2. CASE a = "paintjob"
    BY <2>1, <2>2 DEF Told, ToldOf, GetCustomVehiclePaintjob, OffsetParts
  <2>3. CASE a # "paintjob"
    <3>1. Told(v, a) = Registered(v, a)
      BY <2>3
      DEF Told, OffsetParts, Attrs, GetCustomVehicleStance, GetCustomVehicleOffsets,
          GetCustomVehicleExtras, GetCustomVehicleNeon, GetCustomVehicleWindowTint,
          GetCustomVehicleWheelColor, GetCustomVehicleBackfire, GetCustomVehicleHorn,
          GetCustomVehicleSiren, GetCustomVehicleLighting, GetCustomVehicleWheel,
          GetCustomVehicleNumberPlate, GetCustomVehiclePlateTexture,
          GetCustomVehiclePlateMesh
    <3> QED BY <2>1, <2>3, <3>1 DEF ToldOf
  <2> QED BY <2>2, <2>3
<1> QED BY <1>1 DEF Agreed, Allowed

\* A client at rest has of a bound vehicle in its sight the model and the
\* attributes that the getters tell a script of, whatever was bound, set,
\* painted, streamed, spawned, lost with a session or delayed to the next
\* frame before (Bind and Unbind of CustomVehicleBindingManager wait in
\* MainThreadQueue, every other packet does not).
THEOREM VehiclesAgree ==
  ASSUME AttributesAssumption, Careful
  PROVE  AttributesSpec => []AttributesAgree
<1>1. ASSUME AttributesInv PROVE AttributesAgree
  <2> SUFFICES ASSUME AtRest, NEW v \in streamed, GetCustomVehicleModel(v) # Unset
               PROVE  /\ bindings[v].model = GetCustomVehicleModel(v)
                      /\ \A a \in Attrs : bindings[v].attr[a] \in Agreed(v, a)
    BY DEF AttributesAgree
  <2>1. v \in exists /\ v \in Vehicles BY <1>1 DEF AttributesInv, AttributesTypes
  <2>2. GetCustomVehicleModel(v) = bound[v] BY <2>1 DEF GetCustomVehicleModel
  <2>3. Pending = <<>> /\ Held(v) = bindings[v] /\ authorized BY <1>1, <2>1, RestIs
  <2>4. (v \in streamed) = TRUE OBVIOUS
  <2>5. Fine(v, <<>>, bindings[v], bound[v], attr[v], own[v], TRUE)
    BY <1>1, <2>1, <2>2, <2>3, <2>4 DEF AttributesInv, Tells
  <2>6. \A i \in 1..Len(<<>>) : FALSE OBVIOUS
  <2>7. bindings[v].model = bound[v] BY <2>5, <2>6 DEF Fine, RightModel
  <2>8. ASSUME NEW a \in Attrs
        PROVE  bindings[v].attr[a] \in Allowed(bound[v], attr[v], own[v], a)
    BY <2>5, <2>6 DEF Fine, AttrFine, Worn
  <2> QED BY <2>1, <2>2, <2>7, <2>8, AllowedIs
<1> QED BY <1>1, AttributesInvariant, PTL

\* Nothing of a destroyed vehicle is left, in CustomVehicleBindingRegistry or
\* with a client at rest, if scripts bind a vehicle before they set its
\* attributes; they may rebind it and set attributes at any time.
THEOREM DestroyedIsForgotten ==
  ASSUME AttributesAssumption, BindFirst
  PROVE  AttributesSpec => []NothingSurvives
<1>1. ASSUME AttributesInv PROVE NothingSurvives
  <2> SUFFICES ASSUME NEW v \in Vehicles \ exists
               PROVE  /\ bound[v] = Unset /\ attr[v] = NoAttrs
                      /\ AtRest => bindings[v] = NoEntry
    BY DEF NothingSurvives
  <2>1. bound[v] = Unset /\ attr[v] = NoAttrs BY <1>1 DEF AttributesInv, RegistryInv
  <2>2. ASSUME AtRest PROVE bindings[v] = NoEntry
    <3>1. Pending = <<>> /\ Held(v) = bindings[v] /\ authorized BY <1>1, <2>2, RestIs
    <3>2. Gone(v, <<>>, bindings[v]) BY <1>1, <2>1, <3>1 DEF AttributesInv, Tells
    <3>3. \A i \in 1..Len(<<>>) : FALSE OBVIOUS
    <3> QED BY <3>2, <3>3 DEF Gone
  <2> QED BY <2>1, <2>2
<1> QED BY <1>1, AttributesInvariant, PTL
=============================================================================
